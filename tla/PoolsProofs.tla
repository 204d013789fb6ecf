---------------------------- MODULE PoolsProofs ----------------------------
(***************************************************************************)
(* Proofs about Pools: for any finite set of pools, any names and any      *)
(* number of calls, failures and steps of the rival.                       *)
(***************************************************************************)
EXTENDS Pools, SequenceTheorems, FiniteSetTheorems, TLAPS

AnyName == Names \cup {"none"}
PoolStates ==
  [name : AnyName, where : {"free", "imported", "exported", "destroyed"}, mounted : BOOLEAN]

(* No two pools that are imported have one name.                           *)
WorldOK ==
  /\ world \in [Guids -> PoolStates]
  /\ \A g, h \in Imported : world[g].name = world[h].name => g = h

-----------------------------------------------------------------------------
(* What the kernel does keeps the names of imported pools apart.           *)
LEMMA Created ==
  ASSUME WorldOK, NEW g \in Guids, NEW n \in AnyName, CanCreate(g, n), world' = NewPool(g, n)
  PROVE  WorldOK' /\ g \in Named(n)'
<1>1. /\ world'[g] = [name |-> n, where |-> "imported", mounted |-> FALSE]
      /\ \A h \in Guids : h # g => world'[h] = world[h]
      /\ world' \in [Guids -> PoolStates]
  BY DEF WorldOK, NewPool, PoolStates
<1>2. \A h \in Imported : world[h].name # n
  BY DEF CanCreate, Named
<1> QED BY <1>1, <1>2 DEF WorldOK, Imported, Named

LEMMA MovedIs ==
  ASSUME WorldOK, NEW g \in Guids, NEW w \in {"free", "imported", "exported", "destroyed"}
  PROVE  /\ Moved(g, w) \in [Guids -> PoolStates]
         /\ Moved(g, w)[g].name = world[g].name /\ Moved(g, w)[g].where = w
         /\ \A h \in Guids : h # g => Moved(g, w)[h] = world[h]
<1> DEFINE s == [world[g] EXCEPT !.where = w, !.mounted = FALSE]
<1>1. world[g] \in PoolStates
  BY DEF WorldOK
<1>2. s \in PoolStates /\ s.name = world[g].name /\ s.where = w
  BY <1>1 DEF PoolStates
<1>3. Moved(g, w) = [world EXCEPT ![g] = s]
  BY <1>1 DEF Moved, WorldOK, PoolStates
<1> HIDE DEF s
<1> QED BY <1>2, <1>3 DEF WorldOK

LEMMA ImportedAgain ==
  ASSUME WorldOK, NEW g \in Guids, CanImport(g), world' = Moved(g, "imported")
  PROVE  WorldOK' /\ g \in Named(world[g].name)'
<1>1. /\ world'[g].name = world[g].name /\ world'[g].where = "imported"
      /\ \A h \in Guids : h # g => world'[h] = world[h]
      /\ world' \in [Guids -> PoolStates]
  BY MovedIs
<1>2. \A h \in Imported : world[h].name # world[g].name
  BY DEF CanImport, Named
<1> QED BY <1>1, <1>2 DEF WorldOK, Imported, Named

LEMMA Gone ==
  ASSUME WorldOK, NEW g \in Guids, NEW w \in {"exported", "destroyed"}, world' = Moved(g, w)
  PROVE  /\ WorldOK' /\ g \notin Imported'
         /\ \A h \in Guids : h # g => world'[h] = world[h]
<1>1. /\ world'[g].name = world[g].name /\ world'[g].where = w
      /\ \A h \in Guids : h # g => world'[h] = world[h]
      /\ world' \in [Guids -> PoolStates]
  BY MovedIs
<1> QED BY <1>1 DEF WorldOK, Imported

(* Mounting changes nothing else.                                          *)
LEMMA MountedOnly ==
  ASSUME WorldOK, world' \in [Guids -> PoolStates],
         \A g \in Guids : world'[g].name = world[g].name /\ world'[g].where = world[g].where
  PROVE  WorldOK' /\ Imported' = Imported /\ \A n : Named(n)' = Named(n)
<1>1. Imported' = Imported
  BY DEF Imported
<1> QED BY <1>1 DEF WorldOK, Imported, Named

LEMMA OneOfAName ==
  ASSUME WorldOK, NEW n, NEW g \in Named(n)
  PROVE  Named(n) = {g} /\ g \in Guids /\ world[g].where = "imported" /\ world[g].name = n
  BY DEF WorldOK, Named, Imported

LEMMA RivalWorld ==
  ASSUME WorldOK, Rival
  PROVE  WorldOK'
<1>1. PICK g \in Guids :
        \/ \E n \in Names : CanCreate(g, n) /\ world' = NewPool(g, n)
        \/ CanImport(g) /\ world' = Moved(g, "imported")
        \/ g \in Imported /\ world' = [world EXCEPT ![g].mounted = ~@]
        \/ \E w \in {"exported", "destroyed"} : g \in Retirable /\ world' = Moved(g, w)
  BY DEF Rival
<1>2. CASE \E n \in Names : CanCreate(g, n) /\ world' = NewPool(g, n)
  BY <1>2, Created DEF AnyName
<1>3. CASE CanImport(g) /\ world' = Moved(g, "imported")
  BY <1>3, ImportedAgain
<1>4. CASE world' = [world EXCEPT ![g].mounted = ~@]
  <2>1. world' \in [Guids -> PoolStates]
    BY <1>4 DEF WorldOK, PoolStates
  <2>2. \A h \in Guids : world'[h].name = world[h].name /\ world'[h].where = world[h].where
    BY <1>4 DEF WorldOK, PoolStates
  <2> QED BY <2>1, <2>2, MountedOnly
<1>5. CASE \E w \in {"exported", "destroyed"} : g \in Retirable /\ world' = Moved(g, w)
  BY <1>5, Gone
<1> QED BY <1>1, <1>2, <1>3, <1>4, <1>5

-----------------------------------------------------------------------------
(* The items, and the lists that point to them.  No item is chained to     *)
(* another one, and none is pointed to twice, not even by the dangling     *)
(* pointers of a slice that PoolCloseAll had.                              *)
HeapItems == [guid : Guids \cup {NoGuid}, name : AnyName, next : {0}, frees : Nat]
Pointed(k) == k = one \/ (~closed /\ k \in Range(all)) \/ k \in spare
FreesOf(k) == IF Pointed(k) THEN 0 ELSE IF k \in again THEN 2 ELSE 1

PointersOK(n) ==
  /\ one \in 0..n /\ all \in Seq(0..n) /\ spare \subseteq 1..n
  /\ closed \in BOOLEAN /\ again \subseteq 1..n
  /\ one \notin spare /\ spare \cap Range(all) = {} /\ (one # 0 => one \notin Range(all))
  /\ \A i, j \in 1..Len(all) : all[i] = all[j] /\ all[i] # 0 => i = j
  /\ \A k \in again : ~Pointed(k)

HeapOK ==
  /\ heap \in Seq(HeapItems)
  /\ PointersOK(Len(heap))
  /\ \A k \in 1..Len(heap) : heap[k].frees = FreesOf(k)

LEMMA RangeIs ==
  ASSUME NEW S, NEW s \in Seq(S)
  PROVE  Range(s) = {s[i] : i \in 1..Len(s)} /\ Range(s) \subseteq S
  BY DEF Range

LEMMA SingleRange ==
  ASSUME NEW S, NEW x \in S
  PROVE  /\ <<x>> \in Seq(S) /\ Len(<<x>>) = 1 /\ Range(<<x>>) = {x}
         /\ \A i, j \in 1..Len(<<x>>) : i = j
<1>1. <<x>> \in Seq(S) /\ Len(<<x>>) = 1 /\ <<x>>[1] = x
  OBVIOUS
<1>2. Range(<<x>>) = {<<x>>[i] : i \in 1..1}
  BY <1>1, RangeIs
<1>3. \A i \in 1..1 : i = 1
  OBVIOUS
<1> QED BY <1>1, <1>2, <1>3

LEMMA EmptyRange ==
  ASSUME NEW S
  PROVE  <<>> \in Seq(S) /\ Len(<<>>) = 0 /\ Range(<<>>) = {} /\ 1..0 = {}
<1>1. ASSUME NEW s \in Seq(S), s = <<>> PROVE Range(s) = {}
  <2>1. DOMAIN s = {}
    <3>1. DOMAIN s = 1..Len(s) /\ Len(s) = 0
      BY <1>1
    <3>2. 1..0 = {}
      OBVIOUS
    <3> QED BY <3>1, <3>2
  <2>2. \A x \in Range(s) : FALSE
    BY <2>1 DEF Range
  <2> QED BY <2>2
<1>2. <<>> \in Seq(S) /\ Len(<<>>) = 0
  OBVIOUS
<1>3. 1..0 = {}
  OBVIOUS
<1> QED BY <1>1, <1>2, <1>3, Zenon

LEMMA HeapOKFreed == HeapOK => ItemsFreedOnce
<1> SUFFICES ASSUME HeapOK, NEW k \in DOMAIN heap
             PROVE  heap[k].frees = CASE k \in Live \cup spare -> 0 [] k \in again -> 2 [] OTHER -> 1
  BY DEF ItemsFreedOnce
<1>1. /\ Len(heap) \in Nat /\ k \in 1..Len(heap) /\ heap[k].frees = FreesOf(k)
      /\ k \in again => ~Pointed(k)
  BY DEF HeapOK, PointersOK
<1>2. k \in Live \cup spare <=> Pointed(k)
  BY <1>1 DEF Live, Pointed
<1> QED BY <1>1, <1>2 DEF FreesOf

(* A chain is an item.                                                     *)
LEMMA ChainAlone ==
  ASSUME HeapOK, NEW i \in 0..Len(heap)
  PROVE  ChainFrom(i) = IF i = 0 THEN {} ELSE {i}
<1> DEFINE D == 0..Len(heap)
           Eqn(f) == f = [k \in D |-> IF k = 0 THEN {} ELSE {k} \cup f[heap[k].next]]
           from == CHOOSE f : Eqn(f)
           alone == [k \in D |-> IF k = 0 THEN {} ELSE {k}]
<1>1. Len(heap) \in Nat /\ 0 \in D /\ \A k \in D : k # 0 => heap[k].next = 0
  <2>1. Len(heap) \in Nat /\ \A k \in 1..Len(heap) : heap[k] \in HeapItems
    BY DEF HeapOK
  <2>2. \A k \in D : k # 0 => k \in 1..Len(heap)
    BY <2>1
  <2> QED BY <2>1, <2>2 DEF HeapItems
<1>2. Eqn(alone)
  <2>1. alone[0] = {}
    BY <1>1
  <2>2. \A k \in D : alone[k] = IF k = 0 THEN {} ELSE {k} \cup alone[heap[k].next]
    BY <1>1, <2>1
  <2> QED BY <2>2
<1>3. Eqn(from)
  BY <1>2
<1>4. ChainFrom(i) = from[i]
  BY DEF ChainFrom
<1> HIDE DEF from, D
<1>5. \A k \in D : from[k] = IF k = 0 THEN {} ELSE {k} \cup from[heap[k].next]
  BY <1>3
<1>6. from[0] = {}
  BY <1>1, <1>5
<1> QED BY <1>1, <1>4, <1>5, <1>6 DEF D

LEMMA FreedMore ==
  ASSUME NEW r \in HeapItems, NEW c \in Nat
  PROVE  [r EXCEPT !.frees = @ + c] \in HeapItems /\ [r EXCEPT !.frees = @ + c].frees = r.frees + c
  BY DEF HeapItems

(* Closing lists that are not the same frees the item of each once.        *)
LEMMA FreedItems ==
  ASSUME HeapOK, NEW ps \in Seq(0..Len(heap)),
         \A i, j \in 1..Len(ps) : ps[i] = ps[j] /\ ps[i] # 0 => i = j
  PROVE  /\ Freed(ps) \in Seq(HeapItems) /\ Len(Freed(ps)) = Len(heap)
         /\ \A k \in 1..Len(heap) :
              Freed(ps)[k].frees = heap[k].frees + IF k \in Range(ps) THEN 1 ELSE 0
<1> DEFINE closers(k) == {i \in DOMAIN ps : k \in ChainFrom(ps[i])}
           item(k) == [heap[k] EXCEPT !.frees = @ + Cardinality(closers(k))]
<1>1. Len(heap) \in Nat /\ DOMAIN heap = 1..Len(heap) /\ DOMAIN ps = 1..Len(ps)
      /\ \A k \in 1..Len(heap) : heap[k] \in HeapItems
  BY DEF HeapOK
<1>2. ASSUME NEW k \in 1..Len(heap)
      PROVE  Cardinality(closers(k)) = IF k \in Range(ps) THEN 1 ELSE 0
  <2>1. \A i \in 1..Len(ps) : k \in ChainFrom(ps[i]) <=> ps[i] = k
    <3>1. ASSUME NEW i \in 1..Len(ps) PROVE k \in ChainFrom(ps[i]) <=> ps[i] = k
      <4>1. ps[i] \in 0..Len(heap)
        OBVIOUS
      <4> QED BY <4>1, ChainAlone
    <3> QED BY <3>1
  <2>2. closers(k) = {i \in 1..Len(ps) : ps[i] = k}
    BY <1>1, <2>1
  <2>3. CASE k \in Range(ps)
    <3>1. PICK i \in 1..Len(ps) : ps[i] = k
      BY <2>3, RangeIs
    <3>2. closers(k) = {i}
      BY <2>2, <3>1
    <3> QED BY <2>3, <3>2, FS_Singleton
  <2>4. CASE k \notin Range(ps)
    <3>1. closers(k) = {}
      BY <2>2, <2>4, RangeIs
    <3> QED BY <2>4, <3>1, FS_EmptySet
  <2> QED BY <2>3, <2>4
<1>3. Freed(ps) = [k \in 1..Len(heap) |-> item(k)]
  BY <1>1 DEF Freed
<1> HIDE DEF closers
<1>4. ASSUME NEW k \in 1..Len(heap)
      PROVE  /\ item(k) \in HeapItems
             /\ item(k).frees = heap[k].frees + IF k \in Range(ps) THEN 1 ELSE 0
  <2>1. heap[k] \in HeapItems /\ Cardinality(closers(k)) \in Nat
    BY <1>1, <1>2
  <2> QED BY <1>2, <2>1, FreedMore
<1> HIDE DEF item
<1>5. Freed(ps) \in Seq(HeapItems) /\ Len(Freed(ps)) = Len(heap)
  <2>1. \A k \in 1..Len(heap) : item(k) \in HeapItems
    BY <1>4
  <2>2. [k \in 1..Len(heap) |-> item(k)] \in Seq(HeapItems)
    BY <1>1, <2>1, IsASeq
  <2> QED BY <1>1, <1>3, <2>2
<1> QED BY <1>3, <1>4, <1>5

LEMMA HeapKept ==
  ASSUME HeapOK, UNCHANGED memory
  PROVE  HeapOK'
  BY DEF HeapOK, PointersOK, FreesOf, memory, Pointed

(* Closing lists: an item that something points to is freed, and nothing   *)
(* points to it afterwards; an item freed before is freed again.           *)
LEMMA ClosedHeap ==
  ASSUME HeapOK, again = {}, NEW ps \in Seq(0..Len(heap)), heap' = Freed(ps),
         \A i, j \in 1..Len(ps) : ps[i] = ps[j] /\ ps[i] # 0 => i = j,
         PointersOK(Len(heap))',
         \A k \in 1..Len(heap) : k \in Range(ps) => ~Pointed(k)' /\ (k \in again' <=> ~Pointed(k)),
         \A k \in 1..Len(heap) : k \notin Range(ps) => (Pointed(k)' <=> Pointed(k)) /\ k \notin again'
  PROVE  HeapOK'
<1>1. /\ heap' \in Seq(HeapItems) /\ Len(heap') = Len(heap)
      /\ \A k \in 1..Len(heap) :
           heap'[k].frees = heap[k].frees + IF k \in Range(ps) THEN 1 ELSE 0
  BY FreedItems
<1>2. ASSUME NEW k \in 1..Len(heap) PROVE heap'[k].frees = FreesOf(k)'
  <2>1. heap[k].frees = IF Pointed(k) THEN 0 ELSE 1
    BY DEF HeapOK, FreesOf
  <2> QED BY <1>1, <2>1 DEF FreesOf
<1> QED BY <1>1, <1>2 DEF HeapOK

LEMMA CloseHeap ==
  ASSUME HeapOK, again = {}, Close
  PROVE  HeapOK'
<1>1. one # 0 /\ heap' = Freed(<<one>>) /\ one' = 0 /\ UNCHANGED <<all, spare, closed, again>>
  BY DEF Close
<1>2. Len(heap) \in Nat /\ one \in 0..Len(heap) /\ PointersOK(Len(heap))
  BY DEF HeapOK, PointersOK
<1>3. <<one>> \in Seq(0..Len(heap)) /\ Range(<<one>>) = {one}
      /\ \A i, j \in 1..Len(<<one>>) : i = j
  BY <1>2, SingleRange
<1>4. \A k : Pointed(k)' <=> k = 0 \/ (k # one /\ Pointed(k))
  <2>1. one \notin spare /\ one \notin Range(all)
    BY <1>1, <1>2 DEF PointersOK
  <2> QED BY <1>1, <2>1 DEF Pointed
<1>5. 0 \notin 1..Len(heap) /\ PointersOK(Len(heap))' /\ again' = {}
  <2>1. 0 \notin 1..Len(heap) /\ 0 \in 0..Len(heap)
    BY <1>2
  <2>2. 0 \notin spare
    BY <1>2, <2>1 DEF PointersOK
  <2>3. Len(heap') = Len(heap)
    BY <1>1, <1>3, FreedItems
  <2>4. \A k \in again' : ~Pointed(k)'
    BY <1>1
  <2> QED BY <1>1, <1>2, <2>1, <2>2, <2>3, <2>4 DEF PointersOK
<1>6. Pointed(one)
  BY DEF Pointed
<1> QED BY <1>1, <1>2, <1>3, <1>4, <1>5, <1>6, ClosedHeap

LEMMA CloseElementHeap ==
  ASSUME HeapOK, again = {}, NEW e \in DOMAIN all, CloseElement(e)
  PROVE  HeapOK'
<1>1. /\ all[e] # 0 /\ heap' = Freed(<<all[e]>>) /\ all' = [all EXCEPT ![e] = 0]
      /\ again' = Stale(<<all[e]>>) /\ UNCHANGED <<one, spare, closed>>
  BY DEF CloseElement
<1>2. /\ Len(heap) \in Nat /\ PointersOK(Len(heap)) /\ all \in Seq(0..Len(heap))
      /\ e \in 1..Len(all) /\ all[e] \in 0..Len(heap) /\ all[e] \in 1..Len(heap)
  BY <1>1 DEF HeapOK, PointersOK
<1>3. <<all[e]>> \in Seq(0..Len(heap)) /\ Range(<<all[e]>>) = {all[e]}
      /\ \A i, j \in 1..Len(<<all[e]>>) : i = j
  BY <1>2, SingleRange
<1>5. /\ all' \in Seq(0..Len(heap)) /\ Len(all') = Len(all)
      /\ \A i \in 1..Len(all) : all'[i] = IF i = e THEN 0 ELSE all[i]
  <2>1. 0 \in 0..Len(heap)
    BY <1>2
  <2> QED BY <1>1, <1>2, <2>1, ExceptSeq
<1>6. /\ Range(all) = {all[i] : i \in 1..Len(all)}
      /\ Range(all') = {all'[i] : i \in 1..Len(all)}
  BY <1>2, <1>5, RangeIs
<1>7. Range(all') \subseteq Range(all) \cup {0}
  BY <1>5, <1>6
<1>8. \A i, j \in 1..Len(all') : all'[i] = all'[j] /\ all'[i] # 0 => i = j
  BY <1>2, <1>5 DEF PointersOK
<1>9. \A k \in 1..Len(heap) : k \in Range(all') <=> k \in Range(all) /\ k # all[e]
  <2>1. ASSUME NEW k \in 1..Len(heap), k \in Range(all') PROVE k \in Range(all) /\ k # all[e]
    <3>1. k # 0
      OBVIOUS
    <3>2. PICK i \in 1..Len(all) : all'[i] = k
      BY <1>6, <2>1
    <3>3. i # e /\ all[i] = k
      BY <1>5, <3>1, <3>2
    <3> QED BY <1>2, <1>6, <3>1, <3>3 DEF PointersOK
  <2>2. ASSUME NEW k \in 1..Len(heap), k \in Range(all), k # all[e] PROVE k \in Range(all')
    <3>1. PICK i \in 1..Len(all) : all[i] = k
      BY <1>6, <2>2
    <3>2. all'[i] = k
      BY <1>5, <2>2, <3>1
    <3> QED BY <1>6, <3>2
  <2> QED BY <2>1, <2>2
<1>10. all[e] \in Range(all) /\ all[e] # one /\ all[e] \notin spare
  BY <1>1, <1>2, <1>6 DEF PointersOK
<1>11. \A k \in 1..Len(heap) : Pointed(k)' <=> Pointed(k) /\ k # all[e]
  BY <1>1, <1>9, <1>10 DEF Pointed
<1>12. \A k \in 1..Len(heap) : k \in again' <=> k = all[e] /\ ~Pointed(all[e])
  BY <1>1, <1>2, <1>3, <1>10 DEF Stale, Pointed
<1>13. again' \subseteq 1..Len(heap)
  BY <1>1, <1>2, <1>3 DEF Stale
<1>14. PointersOK(Len(heap))'
  <2>1. /\ one' \in 0..Len(heap) /\ spare' \subseteq 1..Len(heap) /\ closed' \in BOOLEAN
        /\ one' \notin spare'
    BY <1>1, <1>2 DEF PointersOK
  <2>2. 0 \notin spare
    BY <1>2 DEF PointersOK
  <2>3. spare' \cap Range(all') = {} /\ (one' # 0 => one' \notin Range(all'))
    BY <1>1, <1>2, <1>7, <2>2 DEF PointersOK
  <2>4. \A k \in again' : ~Pointed(k)'
    BY <1>11, <1>12, <1>13
  <2>5. Len(heap') = Len(heap)
    BY <1>1, <1>3, FreedItems
  <2> QED BY <1>5, <1>8, <1>13, <2>1, <2>3, <2>4, <2>5 DEF PointersOK
<1> QED BY <1>1, <1>3, <1>11, <1>12, <1>14, ClosedHeap

LEMMA CloseAllHeap ==
  ASSUME HeapOK, again = {}, PoolCloseAll
  PROVE  HeapOK'
<1>1. /\ heap' = Freed(all) /\ closed' = TRUE /\ again' = Stale(all)
      /\ UNCHANGED <<one, all, spare>>
  BY DEF PoolCloseAll
<1>2. /\ Len(heap) \in Nat /\ PointersOK(Len(heap)) /\ all \in Seq(0..Len(heap))
      /\ \A i, j \in 1..Len(all) : all[i] = all[j] /\ all[i] # 0 => i = j
  BY DEF HeapOK, PointersOK
<1>3. 0 \notin 1..Len(heap) /\ Range(all) \subseteq 0..Len(heap)
  BY <1>2, RangeIs
<1>4. \A k : Pointed(k)' <=> k = one \/ k \in spare
  BY <1>1 DEF Pointed
<1>5. \A k \in 1..Len(heap) : k \in Range(all) => k # one /\ k \notin spare
  BY <1>2, <1>3 DEF PointersOK
<1>6. \A k \in 1..Len(heap) : k \in again' <=> k \in Range(all) /\ ~Pointed(k)
  <2>1. \A k \in 1..Len(heap) : k \in again' <=> closed /\ k \in Range(all)
    BY <1>1, <1>3 DEF Stale
  <2> QED BY <1>5, <2>1 DEF Pointed
<1>7. again' \subseteq 1..Len(heap)
  <2>1. \A k \in 0..Len(heap) : k # 0 => k \in 1..Len(heap)
    BY <1>2
  <2> QED BY <1>1, <1>3, <2>1 DEF Stale
<1>8. PointersOK(Len(heap))'
  <2>1. \A k \in again' : ~Pointed(k)'
    BY <1>4, <1>5, <1>6, <1>7
  <2>2. Len(heap') = Len(heap)
    BY <1>1, <1>2, FreedItems
  <2> QED BY <1>1, <1>2, <1>7, <2>1, <2>2 DEF PointersOK
<1>9. \A k \in 1..Len(heap) : k \in Range(all) => ~Pointed(k)'
  BY <1>4, <1>5
<1>10. \A k \in 1..Len(heap) : k \notin Range(all) => (Pointed(k)' <=> Pointed(k))
  BY <1>4 DEF Pointed
<1> QED BY <1>1, <1>2, <1>6, <1>8, <1>9, <1>10, ClosedHeap

(* A new item that the Pool value points to.                               *)
LEMMA OpenedHeap ==
  ASSUME HeapOK, one = 0, NEW x \in HeapItems, x.frees = 0,
         heap' = Append(heap, x), one' = Len(heap'), UNCHANGED <<all, spare, closed, again>>
  PROVE  HeapOK' /\ one' # 0 /\ heap'[one'] = x
<1>1. /\ heap' \in Seq(HeapItems) /\ Len(heap') = Len(heap) + 1 /\ Len(heap) \in Nat
      /\ heap'[Len(heap) + 1] = x /\ \A k \in 1..Len(heap) : heap'[k] = heap[k]
  BY DEF HeapOK
<1>2. all' \in Seq(0..Len(heap')) /\ \A i \in Range(all) : i \in 0..Len(heap)
  <2>1. 0..Len(heap) \subseteq 0..Len(heap')
    BY <1>1
  <2>2. all \in Seq(0..Len(heap))
    BY DEF HeapOK, PointersOK
  <2> QED BY <2>1, <2>2, SeqMonotonic, RangeIs
<1>3. \A k \in 1..Len(heap) : Pointed(k)' <=> Pointed(k)
  BY <1>1 DEF Pointed
<1>4. ASSUME NEW k \in 1..Len(heap') PROVE heap'[k].frees = FreesOf(k)'
  <2>1. CASE k \in 1..Len(heap)
    BY <1>1, <1>3, <2>1 DEF HeapOK, FreesOf
  <2>2. CASE k = Len(heap) + 1
    BY <1>1, <2>2 DEF Pointed, FreesOf
  <2> QED BY <1>1, <2>1, <2>2
<1>5. one' \notin spare' /\ one' \notin Range(all)'
  BY <1>1, <1>2 DEF HeapOK, PointersOK
<1>6. spare' \subseteq 1..Len(heap') /\ again' \subseteq 1..Len(heap') /\ one' \in 0..Len(heap')
  BY <1>1 DEF HeapOK, PointersOK
<1>7. \A k \in again' : ~Pointed(k)'
  BY <1>3 DEF HeapOK, PointersOK
<1>8. PointersOK(Len(heap))'
  <2>1. /\ spare' \cap Range(all') = {} /\ closed' \in BOOLEAN
        /\ \A i, j \in 1..Len(all') : all'[i] = all'[j] /\ all'[i] # 0 => i = j
    BY DEF HeapOK, PointersOK
  <2> QED BY <1>2, <1>5, <1>6, <1>7, <2>1 DEF PointersOK
<1> QED BY <1>1, <1>4, <1>8 DEF HeapOK

(* PoolOpenAll adds a block of items at the end, of which all but the      *)
(* dropped one are pointed to by the slice.                                *)
LEMMA OpenAllHeap ==
  ASSUME WorldOK, HeapOK, PoolOpenAll
  PROVE  HeapOK'
<1> DEFINE L == Len(heap)
<1>1. PICK order \in SetToSeqs(Imported) :
        LET dropped == IF order = <<>> THEN <<>> ELSE <<Item(NoGuid, "none", 0)>>
        IN  /\ heap' = heap \o Cut(Chained(order)) \o dropped
            /\ all' = Elements(order)
            /\ spare' = IF order = <<>> THEN spare ELSE spare \cup {L + Len(order) + 1}
  BY DEF PoolOpenAll
<1>2. /\ closed \/ \A i \in DOMAIN all : all[i] = 0
      /\ closed' = FALSE /\ UNCHANGED <<one, again>>
  BY DEF PoolOpenAll
<1>3. /\ L \in Nat /\ heap \in Seq(HeapItems) /\ one \in 0..L /\ spare \subseteq 1..L
      /\ one \notin spare /\ again \subseteq 1..L
      /\ \A k \in 1..L : Pointed(k) <=> k = one \/ k \in spare
      /\ \A k \in 1..L : heap[k].frees = FreesOf(k)
      /\ \A k \in again : ~Pointed(k)
  <2>1. /\ L \in Nat /\ heap \in Seq(HeapItems) /\ PointersOK(L) /\ all \in Seq(0..L)
        /\ \A k \in 1..L : heap[k].frees = FreesOf(k)
    BY DEF HeapOK, PointersOK
  <2>2. closed \/ Range(all) \subseteq {0}
    BY <1>2, <2>1, RangeIs
  <2>3. \A k \in 1..L : k # 0
    BY <2>1
  <2> QED BY <2>1, <2>2, <2>3 DEF PointersOK, Pointed
<1> DEFINE n == Len(order)
<1>4. order \in Seq(Guids) /\ n \in Nat
  <2>1. IsFiniteSet(Imported) /\ Cardinality(Imported) \in Nat
    BY WorldsAssumption, FS_Subset, FS_CardinalityType DEF Imported
  <2>2. order \in [1..Cardinality(Imported) -> Imported]
    BY DEF SetToSeqs
  <2>3. ASSUME NEW c \in Nat, order \in [1..c -> Imported]
        PROVE  order \in Seq(Guids) /\ n \in Nat
    <3>1. order \in [1..c -> Guids]
      BY <2>3 DEF Imported
    <3> QED BY <3>1
  <2> QED BY <2>1, <2>2, <2>3
<1>5. /\ Cut(Chained(order)) \in Seq(HeapItems) /\ Len(Cut(Chained(order))) = n
      /\ \A i \in 1..n : Cut(Chained(order))[i].frees = 0
  <2> DEFINE item(i) == [Chained(order)[i] EXCEPT !.next = 0]
  <2>1. ASSUME NEW i \in 1..n PROVE item(i) \in HeapItems /\ item(i).frees = 0
    <3>1. order[i] \in Guids /\ i \in DOMAIN order
      BY <1>4
    <3>2. world[order[i]].name \in AnyName
      BY <3>1 DEF WorldOK, PoolStates
    <3> DEFINE next == IF i = 1 THEN 0 ELSE Len(heap) + i - 1
    <3>3. Chained(order)[i] = Item(order[i], world[order[i]].name, next)
      BY <3>1 DEF Chained
    <3> HIDE DEF next
    <3> QED BY <3>1, <3>2, <3>3 DEF Item, HeapItems
  <2>2. Cut(Chained(order)) = [i \in 1..n |-> item(i)]
    BY <1>4 DEF Cut, Chained
  <2> HIDE DEF item
  <2>3. [i \in 1..n |-> item(i)] \in Seq(HeapItems)
    BY <1>4, <2>1, IsASeq
  <2> QED BY <1>4, <2>1, <2>2, <2>3
<1>6. /\ all' \in Seq(0..(L + n)) /\ Len(all') = n
      /\ \A i \in 1..n : all'[i] = L + n - i + 1
  <2> DEFINE es == [i \in 1..n |-> L + i]
  <2>1. es \in Seq(0..(L + n)) /\ Len(es) = n
    BY <1>3, <1>4
  <2>2. all' = Reverse(es)
    BY <1>1, <1>4 DEF Elements
  <2>3. all' = [i \in 1..n |-> es[(n - i) + 1]]
    BY <2>1, <2>2 DEF Reverse
  <2>4. \A i \in 1..n : (n - i) + 1 \in 1..n
    BY <1>4
  <2>5. all' = [i \in 1..n |-> L + n - i + 1]
    BY <1>3, <1>4, <2>3, <2>4
  <2>6. \A i \in 1..n : L + n - i + 1 \in 0..(L + n)
    BY <1>3, <1>4
  <2> QED BY <1>4, <2>5, <2>6
<1>7. \A k : k \in Range(all') <=> k \in (L + 1)..(L + n)
  <2>1. Range(all') = {all'[i] : i \in 1..n}
    BY <1>6, RangeIs
  <2>2. ASSUME NEW k \in (L + 1)..(L + n) PROVE k \in Range(all')
    <3>1. L + n - k + 1 \in 1..n /\ L + n - (L + n - k + 1) + 1 = k
      BY <1>3, <1>4
    <3> QED BY <1>6, <2>1, <3>1
  <2>3. ASSUME NEW k \in Range(all') PROVE k \in (L + 1)..(L + n)
    BY <1>3, <1>4, <1>6, <2>1
  <2> QED BY <2>2, <2>3
<1>8. \A i, j \in 1..n : all'[i] = all'[j] => i = j
  BY <1>3, <1>4, <1>6
<1> DEFINE dropped == IF order = <<>> THEN <<>> ELSE <<Item(NoGuid, "none", 0)>>
<1>9. /\ dropped \in Seq(HeapItems)
      /\ Len(dropped) = IF order = <<>> THEN 0 ELSE 1
      /\ \A i \in 1..Len(dropped) : dropped[i].frees = 0
  <2>1. Item(NoGuid, "none", 0) \in HeapItems /\ Item(NoGuid, "none", 0).frees = 0
    BY DEF Item, HeapItems, AnyName
  <2> QED BY <2>1
<1> DEFINE m == Len(dropped)
           block == Cut(Chained(order))
<1>10. /\ heap' \in Seq(HeapItems) /\ Len(heap') = L + n + m
       /\ \A k \in 1..L : heap'[k] = heap[k]
       /\ \A k \in (L + 1)..(L + n + m) : heap'[k].frees = 0
  <2> HIDE DEF dropped, block
  <2>1. heap' = (heap \o block) \o dropped
    BY <1>1 DEF dropped, block
  <2>2. block \in Seq(HeapItems) /\ Len(block) = n /\ \A i \in 1..n : block[i].frees = 0
    BY <1>5 DEF block
  <2>3. /\ heap \o block \in Seq(HeapItems) /\ Len(heap \o block) = L + n
        /\ \A i \in 1..(L + n) : (heap \o block)[i] = IF i <= L THEN heap[i] ELSE block[i - L]
    <3>1. /\ heap \o block \in Seq(HeapItems) /\ Len(heap \o block) = L + Len(block)
          /\ \A i \in 1..(L + Len(block)) :
               (heap \o block)[i] = IF i <= L THEN heap[i] ELSE block[i - L]
      BY <1>3, <2>2, ConcatProperties, Zenon
    <3> QED BY <2>2, <3>1
  <2>4. /\ heap' \in Seq(HeapItems) /\ Len(heap') = (L + n) + m
        /\ \A i \in 1..((L + n) + m) :
             heap'[i] = IF i <= L + n THEN (heap \o block)[i] ELSE dropped[i - (L + n)]
    <3> DEFINE front == heap \o block
    <3>1. /\ front \in Seq(HeapItems) /\ Len(front) = L + n /\ heap' = front \o dropped
      BY <2>1, <2>3
    <3>2. dropped \in Seq(HeapItems)
      BY <1>9
    <3> HIDE DEF front
    <3>3. /\ heap' \in Seq(HeapItems) /\ Len(heap') = (L + n) + m
          /\ \A i \in 1..((L + n) + m) :
               heap'[i] = IF i <= L + n THEN front[i] ELSE dropped[i - (L + n)]
      <4> DEFINE a == L + n
                 u == heap'
      <4>1. Len(front) = a /\ u = front \o dropped
        BY <3>1
      <4> HIDE DEF L, n, a, u
      <4>2. /\ u \in Seq(HeapItems) /\ Len(u) = Len(front) + Len(dropped)
            /\ \A i \in 1..(Len(front) + Len(dropped)) :
                 u[i] = IF i <= Len(front) THEN front[i] ELSE dropped[i - Len(front)]
        BY <3>1, <3>2, <4>1, ConcatProperties, Zenon
      <4>3. /\ u \in Seq(HeapItems) /\ Len(u) = a + Len(dropped)
            /\ \A i \in 1..(a + Len(dropped)) :
                 u[i] = IF i <= a THEN front[i] ELSE dropped[i - a]
        BY <4>1, <4>2
      <4> QED BY <4>3, Zenon DEF a, u
    <3> QED BY <3>3, Zenon DEF front
  <2>5. m \in Nat
    BY <1>9
  <2>6. \A k \in 1..L : heap'[k] = heap[k]
    BY <1>3, <1>4, <2>3, <2>4, <2>5
  <2>7. ASSUME NEW k \in (L + 1)..(L + n + m) PROVE heap'[k].frees = 0
    <3>1. CASE k <= L + n
      <4>1. k - L \in 1..n /\ heap'[k] = block[k - L]
        BY <1>3, <1>4, <2>3, <2>4, <2>5, <3>1
      <4> QED BY <2>2, <4>1
    <3>2. CASE k > L + n
      <4>1. k - (L + n) \in 1..m /\ heap'[k] = dropped[k - (L + n)]
        BY <1>3, <1>4, <2>4, <2>5, <3>2
      <4> QED BY <1>9, <4>1
    <3> QED BY <1>3, <1>4, <3>1, <3>2
  <2> QED BY <2>4, <2>6, <2>7, <1>3, <1>4, <2>5
<1>11. /\ m \in {0, 1} /\ (m = 0 => n = 0)
       /\ spare' = IF m = 0 THEN spare ELSE spare \cup {L + n + 1}
  BY <1>1, <1>9
<1> HIDE DEF n, m, L
<1>12. spare' \subseteq 1..(L + n + m) /\ \A k \in 1..L : k \in spare' <=> k \in spare
  BY <1>3, <1>4, <1>11
<1>13. \A k \in 1..L : Pointed(k)' <=> Pointed(k)
  BY <1>2, <1>3, <1>4, <1>7, <1>12 DEF Pointed
<1>14. ASSUME NEW k \in 1..(L + n + m) PROVE heap'[k].frees = FreesOf(k)'
  <2>1. CASE k \in 1..L
    BY <1>2, <1>3, <1>10, <1>13, <2>1 DEF FreesOf
  <2>2. CASE k \in (L + 1)..(L + n)
    <3>1. Pointed(k)'
      BY <1>2, <1>7, <2>2 DEF Pointed
    <3>2. k \in (L + 1)..(L + n + m)
      BY <1>3, <1>4, <1>11, <2>2
    <3> QED BY <1>10, <3>1, <3>2 DEF FreesOf
  <2>3. CASE m = 1 /\ k = L + n + 1
    BY <1>3, <1>4, <1>10, <1>11, <2>3 DEF Pointed, FreesOf
  <2> QED BY <1>3, <1>4, <1>11, <2>1, <2>2, <2>3
<1>15. all' \in Seq(0..(L + n + m)) /\ one' \in 0..(L + n + m)
  <2>1. 0..(L + n) \subseteq 0..(L + n + m)
    BY <1>3, <1>4, <1>11
  <2>2. one' \in 0..(L + n + m)
    BY <1>2, <1>3, <1>4, <1>11
  <2> QED BY <1>6, <2>1, <2>2, SeqMonotonic
<1>16. one' \notin spare' /\ spare' \cap Range(all') = {} /\ (one' # 0 => one' \notin Range(all'))
  <2>1. one' \notin (L + 1)..(L + n + m)
    BY <1>2, <1>3, <1>4, <1>11
  <2>2. L + n + 1 \notin (L + 1)..(L + n) /\ spare \cap (L + 1)..(L + n) = {}
    BY <1>3, <1>4
  <2>3. m = 1 => L + n + 1 \in (L + 1)..(L + n + m)
    BY <1>3, <1>4
  <2>4. (L + 1)..(L + n) \subseteq (L + 1)..(L + n + m)
    BY <1>3, <1>4, <1>11
  <2> QED BY <1>2, <1>3, <1>7, <1>11, <2>1, <2>2, <2>3, <2>4
<1>17. closed' \in BOOLEAN /\ again' \subseteq 1..(L + n + m) /\ \A k \in again' : ~Pointed(k)'
  <2>1. 1..L \subseteq 1..(L + n + m)
    BY <1>3, <1>4, <1>11
  <2> QED BY <1>2, <1>3, <1>13, <2>1
<1> QED BY <1>6, <1>8, <1>10, <1>12, <1>14, <1>15, <1>16, <1>17 DEF HeapOK, PointersOK

-----------------------------------------------------------------------------
(* The calls, step by step.                                                *)
CallOf(op, pc, at, arg, err, pool, name, listed) ==
  [op |-> op, pc |-> pc, at |-> at, arg |-> arg, err |-> err, pool |-> pool, name |-> name,
   listed |-> listed]

IsCall(c) == c = CallOf(c.op, c.pc, c.at, c.arg, c.err, c.pool, c.name, c.listed)

Creating == {"build", "build2", "props", "fsprops", "features", "create"}
Importing == {"search", "import"}
Retirers == {"destroy", "export", "exportForce"}
Retiring == {"destroy", "disable", "export", "exportForce"}

Unfreed ==
  DOMAIN lists \subseteq {"root", "cprops", "cfsprops"} /\ \A l \in DOMAIN lists : lists[l] = 0

(* What the call that runs knows of the pool it is about, if the rival has *)
(* not moved since it began.                                               *)
CallOK ==
  /\ IsCall(call)
  /\ call.name \in AnyName /\ calm \in BOOLEAN /\ faults \in Nat
  /\ call.pc \in Creating \cup Importing \cup Retiring \cup {"open", "scan", "done"}
  /\ call.pc = "scan" => call.op = "list"
  /\ call.pc \in Creating => one = 0 /\ call.op = "create" /\ call.pool = NoGuid /\ Unfreed
  /\ call.pc = "build" => DOMAIN lists = {}
  /\ call.pc \in Importing => one = 0 /\ call.op \in {"import", "importGuid"}
  /\ call.pc = "import" =>
       /\ call.pool \in Guids
       /\ call.op = "importGuid" => call.pool = call.arg
       /\ calm => world[call.pool].where = "exported" /\ world[call.pool].name = call.name
  /\ call.pc = "open" =>
       /\ one = 0 /\ call.op \in Makers /\ call.pool \in Guids
       /\ call.op = "importGuid" => call.pool = call.arg
       /\ call.op = "create" => Unfreed
       /\ calm => call.pool \in Named(call.name)
  /\ call.pc \in Retiring =>
       /\ call.op \in Retirers /\ call.err = "nil"
       /\ calm => call.arg = Named(call.name)

(* What a call that has returned has said.                                 *)
Answers == ListsFreedOnce /\ HandleIsThePool /\ ImportFindsThePool /\ RetireReports

Is(c, op, pc, arg, err, pool, name) ==
  /\ IsCall(c) /\ c.op = op /\ c.pc = pc /\ c.arg = arg /\ c.err = err
  /\ c.pool = pool /\ c.name = name

PInv == WorldOK /\ HeapOK /\ CallOK /\ Answers

LEMMA Running ==
  ASSUME call'.pc # "done"
  PROVE  Answers'
  BY DEF Answers, ListsFreedOnce, HandleIsThePool, ImportFindsThePool, RetireReports, Quiet, Returned, Idle

LEMMA OtherCall ==
  ASSUME call'.op \notin Makers \cup Retirers
  PROVE  Answers'
  BY DEF Answers, ListsFreedOnce, HandleIsThePool, ImportFindsThePool, RetireReports, Quiet, Returned,
         Makers, Retirers

LEMMA DoneOK ==
  ASSUME IsCall(call'), call'.pc = "done", call'.name \in AnyName, calm' \in BOOLEAN, faults' \in Nat
  PROVE  CallOK'
  BY DEF CallOK, Creating, Importing, Retiring

LEMMA FieldsOf ==
  ASSUME NEW op, NEW pc, NEW at, NEW arg, NEW err, NEW pool, NEW name, NEW listed,
         NEW c, c = CallOf(op, pc, at, arg, err, pool, name, listed)
  PROVE  Is(c, op, pc, arg, err, pool, name) /\ c.at = at
  BY DEF Is, IsCall, CallOf

LEMMA Goes ==
  ASSUME IsCall(call), NEW pc, Goto(pc)
  PROVE  Is(call', call.op, pc, call.arg, call.err, call.pool, call.name)
<1>1. call' = CallOf(call.op, pc, call.at, call.arg, call.err, call.pool, call.name, call.listed)
  BY DEF IsCall, CallOf, Goto
<1> QED BY <1>1, FieldsOf

LEMMA Returns ==
  ASSUME IsCall(call), NEW err, ReturnWith(err)
  PROVE  Is(call', call.op, "done", call.arg, err, call.pool, call.name) /\ call'.at = call.pc
<1>1. call' = CallOf(call.op, "done", call.pc, call.arg, err, call.pool, call.name, call.listed)
  BY DEF IsCall, CallOf, ReturnWith
<1> QED BY <1>1, FieldsOf

LEMMA Finds ==
  ASSUME IsCall(call), NEW pc, NEW g, call' = [call EXCEPT !.pc = pc, !.pool = g]
  PROVE  Is(call', call.op, pc, call.arg, call.err, g, call.name)
<1>1. call' = CallOf(call.op, pc, call.at, call.arg, call.err, g, call.name, call.listed)
  BY DEF IsCall, CallOf
<1> QED BY <1>1, FieldsOf

LEMMA FindsName ==
  ASSUME IsCall(call), NEW pc, NEW g, NEW n, call' = [call EXCEPT !.pc = pc, !.pool = g, !.name = n]
  PROVE  Is(call', call.op, pc, call.arg, call.err, g, n)
<1>1. call' = CallOf(call.op, pc, call.at, call.arg, call.err, g, n, call.listed)
  BY DEF IsCall, CallOf
<1> QED BY <1>1, FieldsOf

LEMMA Sees ==
  ASSUME IsCall(call), Seen
  PROVE  Is(call', "none", call.pc, call.arg, call.err, call.pool, call.name)
<1>1. call' = CallOf("none", call.pc, "none", call.arg, call.err, call.pool, call.name, call.listed)
  BY DEF IsCall, CallOf, Seen
<1> QED BY <1>1, FieldsOf

LEMMA Starts ==
  ASSUME NEW op, NEW pc, NEW arg, NEW name, Start(op, pc, arg, name)
  PROVE  Is(call', op, pc, arg, "nil", NoGuid, name) /\ calm' = TRUE
<1>1. call' = CallOf(op, pc, "none", arg, "nil", NoGuid, name, <<>>)
  BY DEF CallOf, Start
<1> QED BY <1>1, FieldsOf DEF Start

LEMMA Faults ==
  ASSUME faults \in Nat
  PROVE  (NoFault => faults' = faults) /\ (Fault => faults' \in Nat /\ faults' # 0)
<1>1. Fault => faults' = faults + 1
  BY DEF Fault
<1> QED BY <1>1 DEF NoFault

(* The lists.                                                              *)
LEMMA Allocated ==
  ASSUME Unfreed, NEW l \in {"root", "cprops", "cfsprops"}, Alloc(l)
  PROVE  Unfreed' /\ DOMAIN lists' = DOMAIN lists \cup {l}
  BY DEF Unfreed, Alloc

LEMMA AllFreed ==
  ASSUME Unfreed, RunDeferred(Deferred)
  PROVE  \A l \in DOMAIN lists' : lists'[l] = 1
  BY DEF Unfreed, RunDeferred, Deferred

(* A PoolCreate that returns an error, but at the two returns that         *)
(* ListsFreedOnce names, has freed what it allocated.                      *)
LEMMA CreateFails ==
  ASSUME CallOK, call.op = "create", call.pc \notin {"build", "features"}, Unfreed,
         NEW err, err # "nil", Finish(err)
  PROVE  Answers' /\ Is(call', call.op, "done", call.arg, err, call.pool, call.name)
<1>1. Is(call', call.op, "done", call.arg, err, call.pool, call.name) /\ call'.at = call.pc
  BY Returns DEF Finish, CallOK
<1>2. \A l \in DOMAIN lists' : lists'[l] = 1
  BY AllFreed DEF Finish
<1>3. call'.op = "create" /\ call'.err # "nil"
  BY <1>1 DEF Is
<1>4. ListsFreedOnce'
  BY <1>1, <1>2 DEF ListsFreedOnce
<1>5. HandleIsThePool' /\ ImportFindsThePool' /\ RetireReports'
  BY <1>3 DEF HandleIsThePool, ImportFindsThePool, RetireReports, Quiet, Returned
<1> QED BY <1>1, <1>4, <1>5 DEF Answers

(* The steps of PoolCreate up to the features leave all but the call, its  *)
(* lists and the failures alone.                                           *)
LEMMA CreateRest ==
  ASSUME PInv, createRest' = createRest
  PROVE  WorldOK' /\ HeapOK' /\ UNCHANGED <<world, one, calm>>
<1>1. UNCHANGED <<world, memory, calm, bounds>>
  BY DEF createRest
<1>2. UNCHANGED world /\ UNCHANGED memory /\ UNCHANGED calm /\ one' = one
  BY <1>1 DEF memory
<1> QED BY <1>2, HeapKept DEF PInv, WorldOK, Imported

LEMMA CreateGoes ==
  ASSUME PInv, call.pc \in Creating, NEW pc \in Creating \ {"build"}, Goto(pc), Unfreed',
         Fault \/ NoFault, createRest' = createRest
  PROVE  PInv'
<1>1. WorldOK' /\ HeapOK' /\ UNCHANGED <<world, one, calm>>
  BY CreateRest
<1>2. Is(call', call.op, pc, call.arg, call.err, call.pool, call.name)
  BY Goes DEF PInv, CallOK
<1>3. Answers'
  BY <1>2, Running DEF Is, Creating
<1>4. faults' \in Nat
  BY Faults DEF PInv, CallOK
<1>5. CallOK'
  BY <1>1, <1>2, <1>4 DEF PInv, CallOK, Is, Creating, Importing, Retiring
<1> QED BY <1>1, <1>3, <1>5 DEF PInv

LEMMA CreateEnds ==
  ASSUME PInv, call.pc \in Creating, Fault \/ NoFault, createRest' = createRest, Answers',
         NEW err, ReturnWith(err)
  PROVE  PInv'
<1>1. WorldOK' /\ HeapOK' /\ UNCHANGED <<world, one, calm>>
  BY CreateRest
<1>2. Is(call', call.op, "done", call.arg, err, call.pool, call.name)
  BY Returns DEF PInv, CallOK
<1>3. faults' \in Nat
  BY Faults DEF PInv, CallOK
<1>4. CallOK'
  BY <1>1, <1>2, <1>3, DoneOK DEF PInv, CallOK, Is
<1> QED BY <1>1, <1>4 DEF PInv

LEMMA BuildRootStep ==
  ASSUME PInv, BuildRoot
  PROVE  PInv'
<1>1. call.pc = "build" /\ createRest' = createRest
  BY DEF BuildRoot, At, createRest
<1>2. /\ call.pc \in Creating /\ Unfreed /\ IsCall(call) /\ DOMAIN lists = {}
      /\ call.op = "create" /\ call.pool = NoGuid
  BY <1>1 DEF PInv, CallOK, Creating
<1>3. CASE Alloc("root") /\ Goto("build2") /\ NoFault
  <2>1. Unfreed'
    BY <1>2, <1>3, Allocated
  <2> QED BY <1>1, <1>2, <1>3, <2>1, CreateGoes DEF Creating
<1>4. CASE Fault /\ ReturnWith("error") /\ (Alloc("root") \/ UNCHANGED lists)
  <2>1. Is(call', call.op, "done", call.arg, "error", call.pool, call.name)
        /\ call'.at = "build"
    BY <1>1, <1>2, <1>4, Returns
  <2>2. \A l \in DOMAIN lists' : lists'[l] = 0
    <3>1. CASE Alloc("root")
      BY <1>2, <3>1, Allocated DEF Unfreed
    <3>2. CASE UNCHANGED lists
      BY <1>2, <3>2 DEF Unfreed
    <3> QED BY <1>4, <3>1, <3>2
  <2>3. ListsFreedOnce'
    BY <2>1, <2>2 DEF ListsFreedOnce
  <2>4. HandleIsThePool' /\ ImportFindsThePool' /\ RetireReports'
    BY <1>2, <2>1 DEF Is, HandleIsThePool, ImportFindsThePool, RetireReports, Quiet, Returned
  <2>5. Answers'
    BY <2>3, <2>4 DEF Answers
  <2> QED BY <1>1, <1>2, <1>4, <2>5, CreateEnds
<1> QED BY <1>3, <1>4 DEF BuildRoot

LEMMA BuildTreeStep ==
  ASSUME PInv, BuildTree
  PROVE  PInv'
<1>1. call.pc = "build2" /\ createRest' = createRest
  BY DEF BuildTree, At, createRest
<1>2. call.pc \in Creating /\ Unfreed /\ call.op = "create" /\ CallOK
  BY <1>1 DEF PInv, CallOK, Creating
<1>3. CASE (Finish("error") /\ Fault) \/ (Finish("panic") /\ NoFault)
  <2>1. PICK err \in {"error", "panic"} : Finish(err)
    BY <1>3
  <2>2. Answers'
    BY <1>1, <1>2, <2>1, CreateFails
  <2>3. ReturnWith(err)
    BY <2>1 DEF Finish
  <2> QED BY <1>1, <1>2, <1>3, <2>2, <2>3, CreateEnds
<1>4. CASE NoFault /\ Goto("props") /\ UNCHANGED lists
  <2>1. Unfreed'
    BY <1>2, <1>4 DEF Unfreed
  <2> QED BY <1>1, <1>2, <1>4, <2>1, CreateGoes DEF Creating
<1> QED BY <1>3, <1>4 DEF BuildTree

LEMMA ToCPoolPropertiesStep ==
  ASSUME PInv, ToCPoolProperties
  PROVE  PInv'
<1>1. call.pc = "props" /\ createRest' = createRest
  BY DEF ToCPoolProperties, At, createRest
<1>2. call.pc \in Creating /\ Unfreed /\ call.op = "create" /\ CallOK
  BY <1>1 DEF PInv, CallOK, Creating
<1>3. CASE Alloc("cprops") /\ Goto("fsprops") /\ NoFault
  <2>1. Unfreed'
    BY <1>2, <1>3, Allocated
  <2> QED BY <1>1, <1>2, <1>3, <2>1, CreateGoes DEF Creating
<1>4. CASE Fault /\ Finish("error")
  <2>1. Answers'
    BY <1>1, <1>2, <1>4, CreateFails
  <2>2. ReturnWith("error")
    BY <1>4 DEF Finish
  <2> QED BY <1>1, <1>2, <1>4, <2>1, <2>2, CreateEnds
<1>5. CASE Fault /\ Goto("fsprops") /\ UNCHANGED lists
  <2>1. Unfreed'
    BY <1>2, <1>5 DEF Unfreed
  <2> QED BY <1>1, <1>2, <1>5, <2>1, CreateGoes DEF Creating
<1> QED BY <1>3, <1>4, <1>5 DEF ToCPoolProperties

LEMMA ToCDatasetPropertiesStep ==
  ASSUME PInv, ToCDatasetProperties
  PROVE  PInv'
<1>1. call.pc = "fsprops" /\ createRest' = createRest
  BY DEF ToCDatasetProperties, At, createRest
<1>2. call.pc \in Creating /\ Unfreed /\ call.op = "create" /\ CallOK
  BY <1>1 DEF PInv, CallOK, Creating
<1>3. CASE Alloc("cfsprops") /\ Goto("features") /\ NoFault
  <2>1. Unfreed'
    BY <1>2, <1>3, Allocated
  <2> QED BY <1>1, <1>2, <1>3, <2>1, CreateGoes DEF Creating
<1>4. CASE Fault /\ Finish("error")
  <2>1. Answers'
    BY <1>1, <1>2, <1>4, CreateFails
  <2>2. ReturnWith("error")
    BY <1>4 DEF Finish
  <2> QED BY <1>1, <1>2, <1>4, <2>1, <2>2, CreateEnds
<1>5. CASE Fault /\ Goto("features") /\ UNCHANGED lists
  <2>1. Unfreed'
    BY <1>2, <1>5 DEF Unfreed
  <2> QED BY <1>1, <1>2, <1>5, <2>1, CreateGoes DEF Creating
<1> QED BY <1>3, <1>4, <1>5 DEF ToCDatasetProperties

(* The failure that PoolCreate does not report.                            *)
LEMMA AddFeaturesStep ==
  ASSUME PInv, AddFeatures
  PROVE  PInv'
<1>1. call.pc = "features" /\ createRest' = createRest
  BY DEF AddFeatures, At, createRest
<1>2. /\ call.pc \in Creating /\ Unfreed /\ call.op = "create" /\ call.pool = NoGuid
      /\ IsCall(call) /\ one = 0
  BY <1>1 DEF PInv, CallOK, Creating
<1>3. CASE Goto("create") /\ NoFault /\ UNCHANGED lists
  <2>1. Unfreed'
    BY <1>2, <1>3 DEF Unfreed
  <2> QED BY <1>1, <1>2, <1>3, <2>1, CreateGoes DEF Creating
<1>4. CASE /\ (Fault \/ NoFault) /\ ReturnWith("nil")
           /\ lists' = [l \in DOMAIN lists |-> lists[l] + IF l = "cprops" THEN 2 ELSE 1]
  <2>1. Is(call', call.op, "done", call.arg, "nil", NoGuid, call.name)
        /\ call'.at = "features"
    BY <1>1, <1>2, <1>4, Returns
  <2>2. one' = 0
    BY <1>1, <1>2, CreateRest
  <2>3. call'.op = "create" /\ call'.err = "nil"
    BY <1>2, <2>1 DEF Is
  <2>4. \A l \in DOMAIN lists' : lists'[l] = IF l = "cprops" THEN 2 ELSE 1
    BY <1>2, <1>4 DEF Unfreed
  <2>5. ListsFreedOnce'
    BY <2>1, <2>4 DEF ListsFreedOnce
  <2>6. HandleIsThePool' /\ ImportFindsThePool' /\ RetireReports'
    BY <2>1, <2>2, <2>3 DEF HandleIsThePool, ImportFindsThePool, RetireReports, Quiet, Returned
  <2>7. Answers'
    BY <2>5, <2>6 DEF Answers
  <2> QED BY <1>1, <1>2, <1>4, <2>7, CreateEnds
<1> QED BY <1>3, <1>4 DEF AddFeatures

LEMMA ZpoolCreateStep ==
  ASSUME PInv, ZpoolCreate
  PROVE  PInv'
<1>1. call.pc = "create" /\ UNCHANGED <<memory, calm, bounds>>
  BY DEF ZpoolCreate, At
<1>2. /\ call.pc \in Creating /\ Unfreed /\ call.op = "create" /\ CallOK /\ WorldOK /\ HeapOK
      /\ IsCall(call) /\ one = 0 /\ call.name \in AnyName /\ calm \in BOOLEAN /\ faults \in Nat
  BY <1>1 DEF PInv, CallOK, Creating
<1>3. HeapOK' /\ one' = 0 /\ calm' \in BOOLEAN
  BY <1>1, <1>2, HeapKept DEF memory
<1>4. CASE Finish("error") /\ (Fault \/ NoFault) /\ UNCHANGED world
  <2>1. Answers'
    BY <1>1, <1>2, <1>4, CreateFails
  <2>2. ReturnWith("error") /\ createRest' = createRest
    BY <1>1, <1>4 DEF Finish, createRest
  <2> QED BY <1>1, <1>2, <1>4, <2>1, <2>2, CreateEnds
<1>5. ASSUME NEW g \in Guids, CanCreate(g, call.name), world' = NewPool(g, call.name),
             call' = [call EXCEPT !.pc = "open", !.pool = g], NoFault, UNCHANGED lists
      PROVE  PInv'
  <2>1. PICK n \in AnyName : n = call.name
    BY <1>2
  <2>2. WorldOK' /\ g \in Named(n)'
    <3>1. CanCreate(g, n) /\ world' = NewPool(g, n)
      BY <1>5, <2>1
    <3> QED BY <1>2, <3>1, Created
  <2>3. Is(call', "create", "open", call.arg, call.err, g, n)
    BY <1>2, <1>5, <2>1, Finds
  <2>4. Answers'
    BY <2>3, Running DEF Is
  <2>5. Unfreed' /\ faults' \in Nat
    BY <1>2, <1>5, Faults DEF Unfreed
  <2>6. call'.pool \in Named(call.name)'
    BY <2>2, <2>3 DEF Is, Named
  <2>7. CallOK'
    BY <1>2, <1>3, <2>1, <2>3, <2>5, <2>6 DEF CallOK, Is, Creating, Importing, Retiring, Makers
  <2> QED BY <1>3, <2>2, <2>4, <2>7 DEF PInv
<1> QED BY <1>4, <1>5 DEF ZpoolCreate

(* The imports.                                                            *)
LEMMA SearchImportStep ==
  ASSUME PInv, SearchImport
  PROVE  PInv'
<1>1. call.pc = "search" /\ UNCHANGED <<world, memory, lists, calm, bounds>>
  BY DEF SearchImport, At
<1>2. /\ call.op \in {"import", "importGuid"} /\ WorldOK /\ HeapOK /\ IsCall(call)
      /\ one = 0 /\ call.name \in AnyName /\ calm \in BOOLEAN /\ faults \in Nat
  BY <1>1 DEF PInv, CallOK, Importing
<1>3. WorldOK' /\ HeapOK' /\ one' = 0 /\ calm' \in BOOLEAN /\ UNCHANGED world
  BY <1>1, <1>2, HeapKept DEF memory, WorldOK, Imported
<1>4. CASE ReturnWith("error") /\ ((NoFault /\ \A g \in Guids : ~Matches(g)) \/ Fault)
  <2>1. Is(call', call.op, "done", call.arg, "error", call.pool, call.name)
    BY <1>2, <1>4, Returns
  <2>2. faults' \in Nat /\ (Fault => faults' # 0)
    BY <1>2, <1>4, Faults
  <2>3. CallOK'
    BY <1>2, <1>3, <2>1, <2>2, DoneOK DEF Is
  <2>4. ImportFindsThePool'
    <3>1. ASSUME Quiet("import")', faults' = 0, NEW g \in OnDisk', world'[g].name = call'.name
          PROVE  world'[g].where = "destroyed"
      <4>1. ~Matches(g) /\ g \in OnDisk /\ call.op = "import" /\ world[g].name = call.name
        BY <1>3, <1>4, <2>1, <2>2, <3>1 DEF Quiet, Returned, Is, OnDisk
      <4> QED BY <1>3, <4>1 DEF Matches
    <3> QED BY <3>1 DEF ImportFindsThePool
  <2>5. ListsFreedOnce' /\ HandleIsThePool' /\ RetireReports'
    BY <1>2, <2>1 DEF Is, ListsFreedOnce, HandleIsThePool, RetireReports, Quiet, Returned
  <2> QED BY <1>3, <2>3, <2>4, <2>5 DEF PInv, Answers
<1>5. ASSUME NEW g \in Guids, Matches(g), NoFault,
             call' = [call EXCEPT !.pc = "import", !.pool = g, !.name = world[g].name]
      PROVE  PInv'
  <2>1. Is(call', call.op, "import", call.arg, call.err, g, world[g].name)
    BY <1>2, <1>5, FindsName
  <2>2. world[g].where = "exported" /\ world[g].name \in AnyName
        /\ (call.op = "importGuid" => g = call.arg)
    BY <1>2, <1>5 DEF Matches, OnDisk, WorldOK, PoolStates
  <2>3. Answers'
    BY <2>1, Running DEF Is
  <2>4. faults' \in Nat
    BY <1>2, <1>5, Faults
  <2>5. CallOK'
    BY <1>2, <1>3, <2>1, <2>2, <2>4 DEF CallOK, Is, Creating, Importing, Retiring
  <2> QED BY <1>3, <2>3, <2>5 DEF PInv
<1> QED BY <1>4, <1>5 DEF SearchImport

LEMMA ZpoolImportStep ==
  ASSUME PInv, ZpoolImport
  PROVE  PInv'
<1>1. call.pc = "import" /\ UNCHANGED <<memory, lists, calm, bounds>>
  BY DEF ZpoolImport, At
<1>2. /\ call.op \in {"import", "importGuid"} /\ WorldOK /\ HeapOK /\ IsCall(call)
      /\ one = 0 /\ call.name \in AnyName /\ calm \in BOOLEAN /\ faults \in Nat
      /\ call.pool \in Guids /\ (call.op = "importGuid" => call.pool = call.arg)
      /\ calm => world[call.pool].where = "exported" /\ world[call.pool].name = call.name
  BY <1>1 DEF PInv, CallOK, Importing
<1>3. HeapOK' /\ one' = 0 /\ UNCHANGED calm
  BY <1>1, <1>2, HeapKept DEF memory
<1>4. CASE /\ UNCHANGED world /\ ReturnWith("error")
           /\ (NoFault /\ ~CanImport(call.pool)) \/ Fault
  <2>1. Is(call', call.op, "done", call.arg, "error", call.pool, call.name)
    BY <1>2, <1>4, Returns
  <2>2. faults' \in Nat /\ (Fault => faults' # 0)
    BY <1>2, <1>4, Faults
  <2>3. WorldOK' /\ UNCHANGED world
    BY <1>2, <1>4 DEF WorldOK, Imported
  <2>4. CallOK'
    BY <1>2, <1>3, <2>1, <2>2, DoneOK DEF Is
  <2>5. ImportFindsThePool'
    <3>1. ASSUME Quiet("import")', faults' = 0 PROVE Named(call.name)' # {}
      <4>1. calm /\ ~CanImport(call.pool)
        BY <1>3, <1>4, <2>2, <3>1 DEF Quiet
      <4>2. Named(call.name) # {}
        BY <1>2, <4>1 DEF CanImport, OnDisk
      <4> QED BY <2>1, <2>3, <4>2 DEF Is, Named, Imported
    <3> QED BY <3>1 DEF ImportFindsThePool
  <2>6. ListsFreedOnce' /\ HandleIsThePool' /\ RetireReports'
    BY <1>2, <2>1 DEF Is, ListsFreedOnce, HandleIsThePool, RetireReports, Quiet, Returned
  <2> QED BY <1>3, <2>3, <2>4, <2>5, <2>6 DEF PInv, Answers
<1>5. CASE CanImport(call.pool) /\ world' = Moved(call.pool, "imported") /\ Goto("open") /\ NoFault
  <2>1. PICK g \in Guids, n \in AnyName : g = call.pool /\ n = world[g].name
    BY <1>2 DEF WorldOK, PoolStates
  <2>2. WorldOK' /\ g \in Named(n)'
    <3>1. CanImport(g) /\ world' = Moved(g, "imported")
      BY <1>5, <2>1
    <3>2. WorldOK' /\ g \in Named(world[g].name)'
      BY <1>2, <3>1, ImportedAgain
    <3>3. world'[g].name = world[g].name
      BY <1>2, <3>1, MovedIs
    <3> QED BY <2>1, <3>2, <3>3 DEF Named
  <2>3. Is(call', call.op, "open", call.arg, call.err, g, call.name)
    BY <1>2, <1>5, <2>1, Goes
  <2>4. Answers'
    BY <2>3, Running DEF Is
  <2>5. faults' \in Nat
    BY <1>2, <1>5, Faults
  <2>6. calm' => call'.pool \in Named(call.name)'
    BY <1>2, <1>3, <2>1, <2>2, <2>3 DEF Is, Named
  <2>7. CallOK'
    BY <1>2, <1>3, <2>1, <2>3, <2>5, <2>6 DEF CallOK, Is, Creating, Importing, Retiring, Makers
  <2> QED BY <1>3, <2>2, <2>4, <2>7 DEF PInv
<1> QED BY <1>4, <1>5 DEF ZpoolImport

(* PoolOpen of the name: nobody else has it.                               *)
LEMMA OpenStep ==
  ASSUME PInv, Open
  PROVE  PInv'
<1>1. call.pc = "open" /\ UNCHANGED <<world, all, spare, closed, again, calm, bounds>> /\ NoFault
  BY DEF Open, At
<1>2. /\ call.op \in Makers /\ WorldOK /\ HeapOK /\ CallOK /\ IsCall(call)
      /\ one = 0 /\ call.name \in AnyName /\ calm \in BOOLEAN /\ faults \in Nat
      /\ call.pool \in Guids /\ (call.op = "importGuid" => call.pool = call.arg)
      /\ (call.op = "create" => Unfreed)
      /\ calm => call.pool \in Named(call.name)
  BY <1>1 DEF PInv, CallOK
<1>3. WorldOK' /\ UNCHANGED <<world, calm>> /\ faults' \in Nat
  BY <1>1, <1>2, Faults DEF WorldOK, Imported
<1>4. CASE Named(call.name) = {} /\ Finish("error") /\ UNCHANGED <<heap, one>>
  <2>1. Is(call', call.op, "done", call.arg, "error", call.pool, call.name)
    BY <1>2, <1>4, Returns DEF Finish
  <2>2. HeapOK'
    <3>1. UNCHANGED memory
      BY <1>1, <1>4 DEF memory
    <3> QED BY <1>2, <3>1, HeapKept
  <2>3. CallOK'
    BY <1>2, <1>3, <2>1, DoneOK DEF Is
  <2>4. ~calm'
    BY <1>2, <1>3, <1>4
  <2>5. Answers'
    <3>1. CASE call.op = "create"
      BY <1>1, <1>2, <1>4, <3>1, CreateFails
    <3>2. CASE call.op # "create"
      BY <1>2, <2>1, <2>4, <3>2 DEF Is, Answers, ListsFreedOnce, HandleIsThePool, ImportFindsThePool,
         RetireReports, Quiet, Returned
    <3> QED BY <3>1, <3>2
  <2> QED BY <1>3, <2>2, <2>3, <2>5 DEF PInv
<1>5. ASSUME NEW g \in Named(call.name), heap' = Append(heap, Item(g, call.name, 0)),
             one' = Len(heap'), Finish("nil")
      PROVE  PInv'
  <2>1. Is(call', call.op, "done", call.arg, "nil", call.pool, call.name)
        /\ call'.at = "open"
    BY <1>1, <1>2, <1>5, Returns DEF Finish
  <2>2. Named(call.name) = {g} /\ g \in Imported
    BY <1>2, OneOfAName DEF Named
  <2>3. Item(g, call.name, 0) \in HeapItems /\ Item(g, call.name, 0).frees = 0
        /\ Item(g, call.name, 0).guid = g
    BY <1>2, <2>2 DEF Item, HeapItems, Imported
  <2>4. HeapOK' /\ one' # 0 /\ heap'[one'].guid = g
    <3>1. UNCHANGED <<all, spare, closed, again>>
      BY <1>1
    <3> QED BY <1>2, <1>5, <2>3, <3>1, OpenedHeap
  <2>5. CallOK'
    BY <1>2, <1>3, <2>1, DoneOK DEF Is
  <2>6. ListsFreedOnce'
    <3>1. CASE call.op = "create"
      <4>1. \A l \in DOMAIN lists' : lists'[l] = 1
        BY <1>2, <1>5, <3>1, AllFreed DEF Finish
      <4> QED BY <2>1, <4>1 DEF ListsFreedOnce
    <3>2. CASE call.op # "create"
      BY <2>1, <3>2 DEF Is, ListsFreedOnce, Returned
    <3> QED BY <3>1, <3>2
  <2>7. HandleIsThePool'
    <3>1. ASSUME calm' PROVE g = call'.pool /\ g \in Imported'
      BY <1>2, <1>3, <2>1, <2>2, <3>1 DEF Is, Imported
    <3>2. call'.op = "importGuid" => call'.pool = call'.arg
      BY <1>2, <2>1 DEF Is
    <3> QED BY <2>4, <3>1, <3>2 DEF HandleIsThePool, Returned
  <2>8. ImportFindsThePool' /\ RetireReports'
    BY <1>2, <2>1 DEF Is, ImportFindsThePool, RetireReports, Quiet, Returned, Makers
  <2> QED BY <1>3, <2>4, <2>5, <2>6, <2>7, <2>8 DEF PInv, Answers
<1> QED BY <1>4, <1>5 DEF Open

-----------------------------------------------------------------------------
(* Destroy, Export and ExportForce.                                        *)
LEMMA RetireStep ==
  ASSUME PInv, NEW pc \in Retiring, NEW able, NEW where \in {"exported", "destroyed"},
         Retire(pc, able, where)
  PROVE  PInv'
<1>1. call.pc = pc /\ UNCHANGED onHandleRest
  BY DEF Retire, At
<1>2. /\ call.op \in Retirers /\ WorldOK /\ HeapOK /\ IsCall(call)
      /\ call.name \in AnyName /\ calm \in BOOLEAN /\ faults \in Nat /\ call.err = "nil"
      /\ calm => call.arg = Named(call.name)
  BY <1>1 DEF PInv, CallOK
<1>3. HeapOK' /\ UNCHANGED calm
  BY <1>1, <1>2, HeapKept DEF onHandleRest
<1>4. CASE ReturnWith("error") /\ UNCHANGED world /\ (Fault \/ NoFault)
  <2>1. Is(call', call.op, "done", call.arg, "error", call.pool, call.name)
    BY <1>2, <1>4, Returns
  <2>2. WorldOK' /\ UNCHANGED world /\ faults' \in Nat
    BY <1>2, <1>4, Faults DEF WorldOK, Imported
  <2>3. CallOK'
    BY <1>2, <1>3, <2>1, <2>2, DoneOK DEF Is
  <2>4. RetireReports'
    BY <1>2, <1>3, <2>1, <2>2 DEF Is, RetireReports, Quiet, Named, Imported
  <2>5. ListsFreedOnce' /\ HandleIsThePool' /\ ImportFindsThePool'
    BY <1>2, <2>1 DEF Is, ListsFreedOnce, HandleIsThePool, ImportFindsThePool, Quiet, Returned,
                      Retirers, Makers
  <2> QED BY <1>3, <2>2, <2>3, <2>4, <2>5 DEF PInv, Answers
<1>5. ASSUME NEW g \in Named(call.name), world' = Moved(g, where), NoFault,
             call' = [call EXCEPT !.pc = "done", !.pool = g]
      PROVE  PInv'
  <2>1. Is(call', call.op, "done", call.arg, "nil", g, call.name)
    BY <1>2, <1>5, Finds
  <2>2. Named(call.name) = {g} /\ g \in Guids
    BY <1>2, OneOfAName
  <2>3. WorldOK' /\ g \notin Imported'
    BY <1>2, <1>5, <2>2, Gone
  <2>4. faults' \in Nat
    BY <1>2, <1>5, Faults
  <2>5. CallOK'
    BY <1>2, <1>3, <2>1, <2>4, DoneOK DEF Is
  <2>6. RetireReports'
    <3>1. Is(call', call.op, "done", call.arg, "nil", g, call.name)
          /\ (calm' => call.arg = {g})
      BY <1>2, <1>3, <2>1, <2>2
    <3> QED BY <2>3, <3>1 DEF Is, RetireReports, Quiet
  <2>7. ListsFreedOnce' /\ HandleIsThePool' /\ ImportFindsThePool'
    BY <1>2, <2>1 DEF Is, ListsFreedOnce, HandleIsThePool, ImportFindsThePool, Quiet, Returned,
                      Retirers, Makers
  <2> QED BY <1>3, <2>3, <2>5, <2>6, <2>7 DEF PInv, Answers
<1> QED BY <1>4, <1>5 DEF Retire

(* Unmounting leaves each pool imported under its name.                    *)
LEMMA Unmounted ==
  ASSUME WorldOK, NEW S,
         world' = [g \in Guids |-> IF g \in S THEN [world[g] EXCEPT !.mounted = FALSE] ELSE world[g]]
  PROVE  WorldOK' /\ Imported' = Imported /\ \A n : Named(n)' = Named(n)
<1> DEFINE s(g) == IF g \in S THEN [world[g] EXCEPT !.mounted = FALSE] ELSE world[g]
<1>1. ASSUME NEW g \in Guids
      PROVE  s(g) \in PoolStates /\ s(g).name = world[g].name /\ s(g).where = world[g].where
  <2>1. world[g] \in PoolStates
    BY DEF WorldOK
  <2> QED BY <2>1 DEF PoolStates
<1>2. world' = [g \in Guids |-> s(g)]
  OBVIOUS
<1> HIDE DEF s
<1>3. world' \in [Guids -> PoolStates]
  BY <1>1, <1>2
<1>4. \A g \in Guids : world'[g].name = world[g].name /\ world'[g].where = world[g].where
  BY <1>1, <1>2
<1> QED BY <1>3, <1>4, MountedOnly

LEMMA DisableDatasetsStep ==
  ASSUME PInv, DisableDatasets
  PROVE  PInv'
<1>1. call.pc = "disable" /\ UNCHANGED onHandleRest
  BY DEF DisableDatasets, At
<1>2. /\ call.op \in Retirers /\ WorldOK /\ HeapOK /\ IsCall(call)
      /\ call.name \in AnyName /\ calm \in BOOLEAN /\ faults \in Nat /\ call.err = "nil"
      /\ calm => call.arg = Named(call.name)
  BY <1>1 DEF PInv, CallOK, Retiring
<1>3. HeapOK' /\ UNCHANGED calm
  BY <1>1, <1>2, HeapKept DEF onHandleRest
<1>4. WorldOK' /\ Imported' = Imported /\ \A n : Named(n)' = Named(n)
  <2>1. CASE UNCHANGED world
    BY <1>2, <2>1 DEF WorldOK, Imported, Named
  <2>2. CASE world' = [g \in Guids |-> IF g \in Named(call.name)
                                       THEN [world[g] EXCEPT !.mounted = FALSE] ELSE world[g]]
    BY <1>2, <2>2, Unmounted
  <2> QED BY <2>1, <2>2 DEF DisableDatasets
<1>5. faults' \in Nat
  BY <1>2, Faults DEF DisableDatasets
<1>6. CASE ReturnWith("error")
  <2>1. Is(call', call.op, "done", call.arg, "error", call.pool, call.name)
    BY <1>2, <1>6, Returns
  <2>2. CallOK'
    BY <1>2, <1>3, <1>5, <2>1, DoneOK DEF Is
  <2>3. calm' => call'.arg \subseteq Imported'
    BY <1>2, <1>3, <1>4, <2>1 DEF Is, Named
  <2>4. RetireReports'
    BY <2>1, <2>3 DEF Is, RetireReports, Quiet
  <2>5. ListsFreedOnce' /\ HandleIsThePool' /\ ImportFindsThePool'
    BY <1>2, <2>1 DEF Is, ListsFreedOnce, HandleIsThePool, ImportFindsThePool, Quiet, Returned,
                      Retirers, Makers
  <2> QED BY <1>3, <1>4, <2>2, <2>4, <2>5 DEF PInv, Answers
<1>7. CASE Goto("export")
  <2>1. PICK n \in AnyName : n = call.name
    BY <1>2
  <2>2. Is(call', call.op, "export", call.arg, "nil", call.pool, n)
    BY <1>2, <1>7, <2>1, Goes
  <2>3. Answers'
    BY <2>2, Running DEF Is
  <2>4. calm' => call'.arg = Named(call.name)'
    <3>1. Named(n)' = Named(n)
      BY <1>4
    <3> QED BY <1>2, <1>3, <2>1, <2>2, <3>1 DEF Is, Named
  <2>5. CallOK'
    BY <1>2, <1>3, <1>5, <2>1, <2>2, <2>4 DEF CallOK, Is, Creating, Importing, Retiring
  <2> QED BY <1>3, <1>4, <2>3, <2>5 DEF PInv
<1> QED BY <1>6, <1>7 DEF DisableDatasets

-----------------------------------------------------------------------------
(* The calls begin, the lists are closed, and the rival moves.             *)
LEMMA BeginsRest ==
  ASSUME PInv, UNCHANGED <<world, memory, faults, rivals>>
  PROVE  WorldOK' /\ HeapOK' /\ UNCHANGED <<world, one>> /\ faults' \in Nat
<1>1. UNCHANGED world /\ UNCHANGED memory /\ UNCHANGED <<one, faults>>
  BY DEF memory
<1> QED BY <1>1, HeapKept DEF PInv, WorldOK, Imported, CallOK

LEMMA PoolCreateStep ==
  ASSUME PInv, NEW n \in Names, NEW p, NEW m, PoolCreate(n, p, m)
  PROVE  PInv'
<1> DEFINE arg == [props |-> p, nilMap |-> m]
<1>1. one = 0 /\ Start("create", "build", arg, n) /\ lists' = NoLists
      /\ UNCHANGED <<world, memory, faults, rivals>>
  BY DEF PoolCreate
<1>2. WorldOK' /\ HeapOK' /\ one' = 0 /\ faults' \in Nat
  BY <1>1, BeginsRest
<1>3. Is(call', "create", "build", arg, "nil", NoGuid, n) /\ calm' = TRUE
  BY <1>1, Starts
<1> HIDE DEF arg
<1>4. Answers'
  BY <1>3, Running DEF Is
<1>5. Unfreed' /\ DOMAIN lists' = {}
  BY <1>1 DEF Unfreed, NoLists
<1>6. CallOK'
  BY <1>2, <1>3, <1>5 DEF CallOK, Is, Creating, Importing, Retiring, AnyName
<1> QED BY <1>2, <1>4, <1>6 DEF PInv

LEMMA PoolImportStep ==
  ASSUME PInv, NEW op \in {"import", "importGuid"}, NEW arg, NEW n \in AnyName,
         one = 0, Start(op, "search", arg, n), UNCHANGED <<world, memory, faults, rivals>>
  PROVE  PInv'
<1>1. WorldOK' /\ HeapOK' /\ one' = 0 /\ faults' \in Nat
  BY BeginsRest
<1>2. Is(call', op, "search", arg, "nil", NoGuid, n) /\ calm' = TRUE
  BY Starts
<1>3. Answers'
  BY <1>2, Running DEF Is
<1>4. CallOK'
  BY <1>1, <1>2 DEF CallOK, Is, Creating, Importing, Retiring
<1> QED BY <1>1, <1>3, <1>4 DEF PInv

LEMMA OnHandleStep ==
  ASSUME PInv, NEW op \in Retirers, NEW pc \in Retiring, OnHandle(op, pc)
  PROVE  PInv'
<1>1. one # 0 /\ Start(op, pc, Named(heap[one].name), heap[one].name)
      /\ UNCHANGED <<world, memory, faults, rivals>>
  BY DEF OnHandle
<1>2. WorldOK' /\ HeapOK' /\ UNCHANGED world /\ faults' \in Nat
  BY <1>1, BeginsRest
<1>3. heap[one].name \in AnyName
  <2>1. one \in 1..Len(heap) /\ heap \in Seq(HeapItems)
    BY <1>1 DEF PInv, HeapOK, PointersOK
  <2>2. heap[one] \in HeapItems
    BY <2>1
  <2> QED BY <2>2 DEF HeapItems
<1>4. PICK n \in AnyName : n = heap[one].name
  BY <1>3
<1>5. Is(call', op, pc, Named(n), "nil", NoGuid, n) /\ calm' = TRUE
  BY <1>1, <1>4, Starts
<1>6. Answers'
  BY <1>5, Running DEF Is, Retiring
<1>7. call'.arg = Named(call.name)'
  BY <1>2, <1>5 DEF Is, Named, Imported
<1>8. CallOK'
  BY <1>2, <1>5, <1>7 DEF CallOK, Is, Creating, Importing, Retiring
<1> QED BY <1>2, <1>6, <1>8 DEF PInv

(* The call that is one step.                                              *)
LEMMA AtOnceCall ==
  ASSUME PInv, NEW op, op \notin Makers \cup Retirers, NEW err, AtOnce(op, err),
         UNCHANGED faults
  PROVE  CallOK' /\ Answers'
<1>1. call' = CallOf(op, "done", "none", NoGuid, err, NoGuid, "none", <<>>) /\ calm' = TRUE
  BY DEF AtOnce, CallOf
<1>2. Is(call', op, "done", NoGuid, err, NoGuid, "none")
  BY <1>1, FieldsOf
<1>3. CallOK'
  BY <1>1, <1>2, DoneOK DEF Is, AnyName, PInv, CallOK
<1>4. Answers'
  BY <1>2, OtherCall DEF Is
<1> QED BY <1>3, <1>4

LEMMA PoolImportSearchStep ==
  ASSUME PInv, PoolImportSearch
  PROVE  PInv'
<1> DEFINE found == Configs
<1>1. WorldOK' /\ HeapOK' /\ faults' \in Nat
  BY BeginsRest DEF PoolImportSearch
<1>2. Start("list", "scan", found, "none")
  BY DEF PoolImportSearch
<1> HIDE DEF found
<1>3. Is(call', "list", "scan", found, "nil", NoGuid, "none") /\ calm' = TRUE
  BY <1>2, Starts
<1>4. CallOK' /\ Answers'
  BY <1>1, <1>3, Running DEF CallOK, Is, Creating, Importing, Retiring, AnyName
<1> QED BY <1>1, <1>4 DEF PInv

(* The turns of PoolImportSearch.                                          *)
LEMMA Lists ==
  ASSUME IsCall(call), NEW arg, NEW err, NEW listed,
         call' = [call EXCEPT !.arg = arg, !.listed = listed, !.err = err]
  PROVE  Is(call', call.op, call.pc, arg, err, call.pool, call.name) /\ call'.listed = listed
<1>1. call' = CallOf(call.op, call.pc, call.at, arg, err, call.pool, call.name, listed)
  BY DEF IsCall, CallOf
<1> QED BY <1>1, FieldsOf DEF CallOf

LEMMA Skips ==
  ASSUME IsCall(call), NEW arg, call' = [call EXCEPT !.arg = arg]
  PROVE  Is(call', call.op, call.pc, arg, call.err, call.pool, call.name)
         /\ call'.listed = call.listed
<1>1. call' = CallOf(call.op, call.pc, call.at, arg, call.err, call.pool, call.name, call.listed)
  BY DEF IsCall, CallOf
<1> QED BY <1>1, FieldsOf DEF CallOf

LEMMA ScanStep ==
  ASSUME PInv, SearchTurn \/ SearchDone
  PROVE  PInv'
<1>1. call.pc = "scan" /\ UNCHANGED <<world, memory, lists, calm, bounds>> /\ (NoFault \/ Fault)
  BY DEF SearchTurn, SearchDone, At
<1>2. /\ call.op = "list" /\ WorldOK /\ HeapOK /\ IsCall(call)
      /\ call.name \in AnyName /\ calm \in BOOLEAN /\ faults \in Nat
  BY <1>1 DEF PInv, CallOK
<1>3. WorldOK' /\ HeapOK' /\ calm' \in BOOLEAN /\ faults' \in Nat
  BY <1>1, <1>2, HeapKept, Faults DEF memory, WorldOK, Imported
<1>4. \E pc \in {"scan", "done"} : \E arg, err : Is(call', "list", pc, arg, err, call.pool, call.name)
  <2>1. ASSUME NEW err, ReturnWith(err)
        PROVE  Is(call', "list", "done", call.arg, err, call.pool, call.name)
    BY <1>2, <2>1, Returns
  <2>2. ASSUME NEW arg, NEW listed, NEW err,
               call' = [call EXCEPT !.arg = arg, !.listed = listed, !.err = err]
        PROVE  Is(call', "list", "scan", arg, err, call.pool, call.name)
    BY <1>1, <1>2, <2>2, Lists
  <2>3. ASSUME NEW arg, call' = [call EXCEPT !.arg = arg]
        PROVE  Is(call', "list", "scan", arg, call.err, call.pool, call.name)
    BY <1>1, <1>2, <2>3, Skips
  <2> QED BY <2>1, <2>2, <2>3 DEF SearchTurn, SearchDone
<1>5. call'.op = "list" /\ call'.pc \in {"scan", "done"} /\ IsCall(call') /\ call'.name = call.name
  BY <1>4 DEF Is
<1>6. CallOK'
  BY <1>2, <1>3, <1>5 DEF CallOK, Creating, Importing, Retiring
<1>7. Answers'
  BY <1>5, OtherCall DEF Makers, Retirers
<1> QED BY <1>3, <1>6, <1>7 DEF PInv

LEMMA PoolOpenAllStep ==
  ASSUME PInv, PoolOpenAll
  PROVE  PInv'
<1>1. HeapOK'
  BY OpenAllHeap DEF PInv
<1>2. UNCHANGED world /\ UNCHANGED faults
  BY DEF PoolOpenAll
<1>3. WorldOK'
  BY <1>2 DEF PInv, WorldOK, Imported
<1>4. PICK err : AtOnce("openAll", err)
  BY DEF PoolOpenAll
<1>5. CallOK' /\ Answers'
  BY <1>2, <1>4, AtOnceCall DEF Makers, Retirers
<1> QED BY <1>1, <1>3, <1>5 DEF PInv

LEMMA BeginsStep ==
  ASSUME PInv, Begins
  PROVE  PInv'
<1>1. ASSUME NEW n \in Names, PoolImport(n) PROVE PInv'
  BY <1>1, PoolImportStep DEF PoolImport, AnyName
<1>2. ASSUME NEW g \in Guids, PoolImportByGUID(g) PROVE PInv'
  BY <1>2, PoolImportStep DEF PoolImportByGUID, AnyName
<1>3. CASE OnHandle("destroy", "destroy")
  BY <1>3, OnHandleStep DEF Retirers, Retiring
<1>4. CASE OnHandle("export", "disable")
  BY <1>4, OnHandleStep DEF Retirers, Retiring
<1>5. CASE OnHandle("exportForce", "exportForce")
  BY <1>5, OnHandleStep DEF Retirers, Retiring
<1> QED BY <1>1, <1>2, <1>3, <1>4, <1>5, PoolCreateStep, PoolImportSearchStep, PoolOpenAllStep
        DEF Begins

LEMMA ClosesStep ==
  ASSUME PInv, again = {}, Closes
  PROVE  PInv'
<1>1. HeapOK'
  BY CloseHeap, CloseElementHeap, CloseAllHeap DEF Closes, PInv
<1>2. UNCHANGED <<world, calm, faults>> /\ call.pc = "done" /\ Seen
  BY DEF Closes, Close, CloseElement, PoolCloseAll, Idle
<1>3. WorldOK'
  BY <1>2 DEF PInv, WorldOK, Imported
<1>4. Is(call', "none", call.pc, call.arg, call.err, call.pool, call.name)
  BY <1>2, Sees DEF PInv, CallOK
<1>5. CallOK'
  BY <1>2, <1>4, DoneOK DEF Is, PInv, CallOK
<1>6. Answers'
  BY <1>4, OtherCall DEF Is, Makers, Retirers
<1> QED BY <1>1, <1>3, <1>5, <1>6 DEF PInv

LEMMA RivalStep ==
  ASSUME PInv, Rival
  PROVE  PInv'
<1>1. calm' = FALSE /\ UNCHANGED memory /\ UNCHANGED <<call, lists, faults>>
  BY DEF Rival
<1>2. WorldOK' /\ HeapOK' /\ one' = one
  BY <1>1, RivalWorld, HeapKept DEF PInv, memory
<1>3. CallOK'
  BY <1>1, <1>2 DEF PInv, CallOK, Unfreed
<1>4. Answers'
  BY <1>1, <1>2 DEF PInv, Answers, ListsFreedOnce, HandleIsThePool, ImportFindsThePool, RetireReports,
     Quiet, Returned, Idle
<1> QED BY <1>2, <1>3, <1>4 DEF PInv

LEMMA StepsStep ==
  ASSUME PInv, Steps
  PROVE  PInv'
<1>1. CASE Destroy
  BY <1>1, RetireStep DEF Destroy, Retiring
<1>2. CASE Export
  BY <1>2, RetireStep DEF Export, Retiring
<1>3. CASE ExportForce
  BY <1>3, RetireStep DEF ExportForce, Retiring
<1> QED BY <1>1, <1>2, <1>3, BuildRootStep, BuildTreeStep, ToCPoolPropertiesStep,
           ToCDatasetPropertiesStep, AddFeaturesStep, ZpoolCreateStep, SearchImportStep,
           ZpoolImportStep, ScanStep, OpenStep, DisableDatasetsStep DEF Steps

LEMMA InitPInv == Init => PInv
<1> SUFFICES ASSUME Init PROVE PInv
  OBVIOUS
<1>1. WorldOK
  BY WorldsAssumption DEF Init, WorldOK, PoolStates, AnyName, Imported
<1>2. HeapOK
  <2>1. /\ heap \in Seq(HeapItems) /\ Len(heap) = 0 /\ one = 0 /\ spare = {}
        /\ all \in Seq({0}) /\ Len(all) = 0 /\ Range(all) = {} /\ closed = FALSE /\ again = {}
    BY EmptyRange DEF Init
  <2>2. 0..0 = {0} /\ 1..0 = {}
    OBVIOUS
  <2> QED BY <2>1, <2>2 DEF HeapOK, PointersOK
<1>3. Is(call, "none", "done", NoGuid, "nil", NoGuid, "none")
  <2>1. call = CallOf("none", "done", "none", NoGuid, "nil", NoGuid, "none", <<>>)
    BY DEF Init, CallOf
  <2> QED BY <2>1, FieldsOf
<1>4. CallOK
  BY <1>3 DEF Is, CallOK, Creating, Importing, Retiring, AnyName, Init
<1>5. Answers
  BY <1>3 DEF Is, Answers, ListsFreedOnce, HandleIsThePool, ImportFindsThePool, RetireReports, Quiet,
     Returned, Makers
<1> QED BY <1>1, <1>2, <1>4, <1>5 DEF PInv

LEMMA NextPInv == PInv /\ [Next]_vars => PInv'
<1> SUFFICES ASSUME PInv, [Next]_vars PROVE PInv'
  OBVIOUS
<1>1. CASE UNCHANGED vars
  <2>1. UNCHANGED <<world, call, lists, calm, faults>> /\ UNCHANGED memory /\ UNCHANGED one
    BY <1>1 DEF vars, memory
  <2>2. WorldOK' /\ HeapOK'
    BY <2>1, HeapKept DEF PInv, WorldOK, Imported
  <2>3. CallOK'
    BY <2>1 DEF PInv, CallOK, Unfreed, Named, Imported
  <2>4. ListsFreedOnce'
    BY <2>1 DEF PInv, Answers, ListsFreedOnce, Returned, Idle
  <2>5. HandleIsThePool'
    <3>1. UNCHANGED heap
      BY <1>1 DEF vars
    <3> QED BY <2>1, <3>1 DEF PInv, Answers, HandleIsThePool, Returned, Idle, Imported
  <2>6. ImportFindsThePool' /\ RetireReports'
    BY <2>1 DEF PInv, Answers, ImportFindsThePool, RetireReports, Quiet, Returned, Idle, Named,
                Imported, OnDisk
  <2> QED BY <2>2, <2>3, <2>4, <2>5, <2>6 DEF PInv, Answers
<1> QED BY <1>1, BeginsStep, StepsStep, ClosesStep, RivalStep DEF Next

LEMMA SpecPInv == Spec => []PInv
  BY InitPInv, NextPInv, PTL DEF Spec

(* For every set of worlds the system can be in, and any rival: what a     *)
(* Pool points to was not freed, and all else was freed once, but for what *)
(* is closed again through a slice that PoolCloseAll had (zpool.go:485).   *)
THEOREM SpecItemsFreedOnce == Spec => []ItemsFreedOnce
<1>1. PInv => ItemsFreedOnce
  BY HeapOKFreed DEF PInv
<1> QED BY <1>1, SpecPInv, PTL

(* PoolCreate frees each of its nvlists once, but at the two returns that  *)
(* ListsFreedOnce names: there the root is lost (zpool.go:909-914), or the *)
(* properties are freed twice (961-967).                                   *)
THEOREM SpecListsFreedOnce == Spec => []ListsFreedOnce
<1>1. PInv => ListsFreedOnce
  BY DEF PInv, Answers
<1> QED BY <1>1, SpecPInv, PTL

(* A handle that PoolCreate or an import returns is the handle of the pool *)
(* that was created or imported.                                           *)
THEOREM SpecHandleIsThePool == Spec => []HandleIsThePool
<1>1. PInv => HandleIsThePool
  BY DEF PInv, Answers
<1> QED BY <1>1, SpecPInv, PTL

(* PoolImport finds the pool if it can be imported.                        *)
THEOREM SpecImportFindsThePool == Spec => []ImportFindsThePool
<1>1. PInv => ImportFindsThePool
  BY DEF PInv, Answers
<1> QED BY <1>1, SpecPInv, PTL

(* Destroy, Export and ExportForce say what became of the pool.            *)
THEOREM SpecRetireReports == Spec => []RetireReports
<1>1. PInv => RetireReports
  BY DEF PInv, Answers
<1> QED BY <1>1, SpecPInv, PTL

LEMMA ComesBack ==
  ASSUME PInv, [Next]_vars, NEW g \in Guids, world[g].where = "destroyed",
         world'[g].where = "imported"
  PROVE  ~calm'
<1>1. world' # world /\ world[g] \in PoolStates
  BY DEF PInv, WorldOK
<1>2. CASE Begins
  BY <1>1, <1>2 DEF Begins, PoolImport, PoolCreate, PoolImportByGUID, PoolImportSearch, PoolOpenAll,
     OnHandle
<1>3. CASE Closes
  BY <1>1, <1>3 DEF Closes, Close, CloseElement, PoolCloseAll
<1>4. CASE Rival
  BY <1>4 DEF Rival
<1>5. CASE BuildRoot \/ BuildTree \/ ToCPoolProperties \/ ToCDatasetProperties \/ AddFeatures
  BY <1>1, <1>5 DEF BuildRoot, BuildTree, ToCPoolProperties, ToCDatasetProperties, AddFeatures,
     createRest
<1>6. CASE ZpoolCreate
  <2>1. PICK h \in Guids : world[h].where = "free" /\ world' = NewPool(h, call.name)
    BY <1>1, <1>6 DEF ZpoolCreate, CanCreate
  <2>2. h # g
    BY <2>1
  <2> QED BY <2>1, <2>2 DEF NewPool, PInv, WorldOK
<1>7. CASE SearchImport \/ SearchTurn \/ SearchDone \/ Open
  BY <1>1, <1>7 DEF SearchImport, SearchTurn, SearchDone, Open
<1>8. CASE ZpoolImport
  <2>1. call.pc = "import" /\ world' = Moved(call.pool, "imported") /\ UNCHANGED calm
    BY <1>1, <1>8 DEF ZpoolImport, At
  <2>2. call.pool \in Guids /\ (calm => world[call.pool].where = "exported")
    BY <2>1 DEF PInv, CallOK
  <2>3. call.pool = g
    BY <2>1, <2>2, MovedIs DEF PInv
  <2> QED BY <2>1, <2>2, <2>3
<1>9. ASSUME NEW pc, NEW able, NEW where \in {"exported", "destroyed"}, Retire(pc, able, where)
      PROVE  FALSE
  <2>1. PICK h \in Named(call.name) : world' = Moved(h, where)
    BY <1>1, <1>9 DEF Retire
  <2> QED BY <2>1, Gone DEF PInv, Named, Imported
<1>10. CASE DisableDatasets
  <2>1. Imported' = Imported
    BY <1>1, <1>10, Unmounted DEF DisableDatasets, PInv
  <2> QED BY <2>1 DEF Imported
<1>11. CASE UNCHANGED vars
  BY <1>1, <1>11 DEF vars
<1> QED BY <1>2, <1>3, <1>4, <1>5, <1>6, <1>7, <1>8, <1>9, <1>10, <1>11
        DEF Next, Steps, Destroy, Export, ExportForce

(* No call brings a destroyed pool back unless the rival destroyed it      *)
(* after the search.                                                       *)
THEOREM SpecNoResurrection == Spec => NoResurrection
<1>1. PInv /\ [Next]_vars =>
        [\A g \in Guids :
           (world[g].where = "destroyed" /\ world'[g].where = "imported") => ~calm']_vars
  BY ComesBack
<1> QED BY <1>1, SpecPInv, PTL DEF Spec, NoResurrection
-----------------------------------------------------------------------------
(* The search for pools.  While nobody interferes, each exported pool is   *)
(* listed or still to be looked at, and nothing else is either.            *)
Scanning ==
  /\ call.listed \in Seq(Guids)
  /\ \A c \in call.arg : c.guid \in Guids
  /\ \A g \in Guids :
       world[g].where = "exported"
         <=> (g \in Range(call.listed) \/ \E c \in call.arg : c.guid = g /\ ~c.destroyed)

SInv == (call.pc = "scan" /\ calm => Scanning) /\ SearchListsAll

LEMMA RangeOfAppend ==
  ASSUME NEW S, NEW s \in Seq(S), NEW x \in S
  PROVE  Append(s, x) \in Seq(S) /\ Range(Append(s, x)) = Range(s) \cup {x}
<1> DEFINE r == Append(s, x)
<1>1. /\ r \in Seq(S) /\ DOMAIN r = 1..(Len(s) + 1) /\ DOMAIN s = 1..Len(s) /\ Len(s) \in Nat
      /\ \A i \in 1..Len(s) : r[i] = s[i]
      /\ r[Len(s) + 1] = x
  OBVIOUS
<1> HIDE DEF r
<1>2. 1..(Len(s) + 1) = 1..Len(s) \cup {Len(s) + 1}
  BY <1>1
<1>3. Range(r) = {r[i] : i \in 1..Len(s)} \cup {r[Len(s) + 1]}
  BY <1>1, <1>2 DEF Range
<1>4. {r[i] : i \in 1..Len(s)} = Range(s)
  BY <1>1 DEF Range
<1> QED BY <1>1, <1>3, <1>4 DEF r

LEMMA OtherOp ==
  ASSUME CallOK', call'.op # "list"
  PROVE  SInv'
  BY DEF CallOK, SInv, SearchListsAll, Quiet, Returned

LEMMA SameOp ==
  ASSUME PInv, Steps, ~SearchTurn, ~SearchDone
  PROVE  call'.op # "list"
<1>1. IsCall(call) /\ CallOK
  BY DEF PInv, CallOK
<1>2. ASSUME call.op # "list", NEW pc, Goto(pc) PROVE call'.op # "list"
  BY <1>1, <1>2, Goes DEF Is
<1>3. ASSUME call.op # "list", NEW err, ReturnWith(err) PROVE call'.op # "list"
  BY <1>1, <1>3, Returns DEF Is
<1>4. ASSUME call.op # "list", NEW err, Finish(err) PROVE call'.op # "list"
  BY <1>3, <1>4 DEF Finish
<1>5. ASSUME call.op # "list", NEW pc, NEW g, call' = [call EXCEPT !.pc = pc, !.pool = g]
      PROVE  call'.op # "list"
  BY <1>1, <1>5, Finds DEF Is
<1>6. ASSUME call.op # "list", NEW pc, NEW g, NEW n,
             call' = [call EXCEPT !.pc = pc, !.pool = g, !.name = n]
      PROVE  call'.op # "list"
  BY <1>1, <1>6, FindsName DEF Is
<1>7. call.pc # "scan" /\ call.pc # "done" => call.op # "list"
  BY <1>1 DEF CallOK, Creating, Importing, Retiring, Retirers, Makers
<1>8. CASE BuildRoot \/ BuildTree \/ ToCPoolProperties \/ ToCDatasetProperties \/ AddFeatures
  <2>1. call.op # "list"
    BY <1>7, <1>8 DEF BuildRoot, BuildTree, ToCPoolProperties, ToCDatasetProperties, AddFeatures, At
  <2> QED BY <2>1, <1>2, <1>3, <1>4, <1>8
          DEF BuildRoot, BuildTree, ToCPoolProperties, ToCDatasetProperties, AddFeatures
<1>9. CASE ZpoolCreate
  BY <1>4, <1>5, <1>7, <1>9 DEF ZpoolCreate, At
<1>10. CASE SearchImport
  <2>1. call.op # "list"
    BY <1>7, <1>10 DEF SearchImport, At
  <2>2. CASE ReturnWith("error")
    BY <1>3, <2>1, <2>2
  <2>3. ASSUME NEW g, call' = [call EXCEPT !.pc = "import", !.pool = g, !.name = world[g].name]
        PROVE  call'.op # "list"
    BY <1>6, <2>1, <2>3
  <2> QED BY <1>10, <2>2, <2>3 DEF SearchImport
<1>11. CASE ZpoolImport \/ DisableDatasets \/ Open
  BY <1>2, <1>3, <1>4, <1>7, <1>11 DEF ZpoolImport, DisableDatasets, Open, At
<1>12. ASSUME NEW pc \in Retiring, NEW able, NEW where, Retire(pc, able, where)
       PROVE  call'.op # "list"
  BY <1>3, <1>5, <1>7, <1>12 DEF Retire, At, Retiring
<1> QED BY <1>8, <1>9, <1>10, <1>11, <1>12 DEF Steps, Destroy, Export, ExportForce, Retiring

LEMMA SearchBegins ==
  ASSUME PInv, PoolImportSearch
  PROVE  SInv'
<1>1. call' = CallOf("list", "scan", "none", Configs, "nil", NoGuid, "none", <<>>) /\ UNCHANGED world
  BY DEF PoolImportSearch, Start, CallOf
<1>2. call'.pc = "scan" /\ call'.arg = Configs /\ call'.listed = <<>>
  BY <1>1 DEF CallOf
<1>3. Range(call'.listed) = {} /\ call'.listed \in Seq(Guids)
  BY <1>2, EmptyRange
<1>4. Scanning'
  <2>1. ASSUME NEW c \in Configs
        PROVE  c.guid \in Guids /\ (~c.destroyed => world[c.guid].where = "exported")
    <3>1. PICK g \in OnDisk : c = [guid |-> g, destroyed |-> world[g].where = "destroyed"]
      BY DEF Configs
    <3> QED BY <3>1 DEF OnDisk
  <2>2. ASSUME NEW g \in Guids, world[g].where = "exported"
        PROVE  \E c \in Configs : c.guid = g /\ ~c.destroyed
    <3> DEFINE c == [guid |-> g, destroyed |-> world[g].where = "destroyed"]
    <3>1. c \in Configs /\ c.guid = g /\ ~c.destroyed
      BY <2>2 DEF Configs, OnDisk
    <3> QED BY <3>1
  <2> QED BY <1>1, <1>2, <1>3, <2>1, <2>2 DEF Scanning
<1>5. SearchListsAll'
  BY <1>2 DEF SearchListsAll, Quiet, Returned, Idle
<1> QED BY <1>4, <1>5 DEF SInv

LEMMA SearchGoesOn ==
  ASSUME PInv, SInv, SearchTurn
  PROVE  SInv'
<1>1. call.pc = "scan" /\ UNCHANGED <<world, calm>> /\ IsCall(call) /\ faults \in Nat
  BY DEF SearchTurn, At, PInv, CallOK
<1>2. PICK c \in call.arg :
        \/ /\ c.destroyed
           /\ call' = [call EXCEPT !.arg = @ \ {c}]
        \/ /\ ~c.destroyed
           /\ call' = [call EXCEPT !.arg = @ \ {c}, !.listed = Append(@, c.guid),
                                   !.err = IF c.guid \in Broken THEN "error" ELSE "nil"]
        \/ ReturnWith("error") /\ Fault
  BY DEF SearchTurn
<1>3. CASE c.destroyed /\ call' = [call EXCEPT !.arg = @ \ {c}]
  <2>1. call'.pc = "scan" /\ call'.arg = call.arg \ {c} /\ call'.listed = call.listed
    BY <1>1, <1>3, Skips DEF Is
  <2>2. ASSUME calm' PROVE Scanning'
    <3>1. Scanning
      BY <1>1, <2>2 DEF SInv
    <3> QED BY <1>1, <1>3, <2>1, <3>1 DEF Scanning
  <2> QED BY <2>1, <2>2 DEF SInv, SearchListsAll, Quiet, Returned, Idle
<1>4. CASE /\ ~c.destroyed
           /\ call' = [call EXCEPT !.arg = @ \ {c}, !.listed = Append(@, c.guid),
                                   !.err = IF c.guid \in Broken THEN "error" ELSE "nil"]
  <2>1. call'.pc = "scan" /\ call'.arg = call.arg \ {c} /\ call'.listed = Append(call.listed, c.guid)
    BY <1>1, <1>4, Lists DEF Is
  <2>2. ASSUME calm' PROVE Scanning'
    <3>1. Scanning
      BY <1>1, <2>2 DEF SInv
    <3>2. call'.listed \in Seq(Guids) /\ Range(call'.listed) = Range(call.listed) \cup {c.guid}
      BY <2>1, <3>1, RangeOfAppend DEF Scanning
    <3> QED BY <1>1, <1>4, <2>1, <3>1, <3>2 DEF Scanning
  <2> QED BY <2>1, <2>2 DEF SInv, SearchListsAll, Quiet, Returned, Idle
<1>5. CASE ReturnWith("error") /\ Fault
  <2>1. call'.pc = "done" /\ call'.err = "error" /\ faults' # 0
    BY <1>1, <1>5, Returns, Faults DEF Is
  <2> QED BY <2>1 DEF SInv, SearchListsAll
<1> QED BY <1>2, <1>3, <1>4, <1>5

LEMMA SearchEnds ==
  ASSUME PInv, SInv, SearchDone
  PROVE  SInv'
<1>1. /\ call.pc = "scan" /\ call.arg = {} /\ UNCHANGED <<world, calm>> /\ IsCall(call)
      /\ ReturnWith(call.err)
  BY DEF SearchDone, At, PInv, CallOK
<1>2. call' = CallOf(call.op, "done", call.pc, call.arg, call.err, call.pool, call.name, call.listed)
  BY <1>1 DEF IsCall, CallOf, ReturnWith
<1>3. call'.pc = "done" /\ call'.listed = call.listed
  BY <1>2 DEF CallOf
<1>4. ASSUME calm' PROVE Range(call'.listed) = {g \in Guids : world'[g].where = "exported"}
  <2>1. Scanning
    BY <1>1, <1>4 DEF SInv
  <2>2. Range(call.listed) \subseteq Guids
    BY <2>1, RangeIs DEF Scanning
  <2> QED BY <1>1, <1>3, <2>1, <2>2 DEF Scanning
<1> QED BY <1>3, <1>4 DEF SInv, SearchListsAll, Quiet

LEMMA InitSInv == Init => SInv
  BY DEF Init, SInv, SearchListsAll, Quiet, Returned

LEMMA NextSInv == PInv /\ SInv /\ [Next]_vars => SInv'
<1> SUFFICES ASSUME PInv, SInv, [Next]_vars PROVE SInv'
  OBVIOUS
<1>1. CallOK'
  BY NextPInv DEF PInv
<1>2. CASE Begins
  <2>1. ASSUME NEW op, op # "list", NEW pc, NEW arg, NEW name, Start(op, pc, arg, name)
        PROVE  SInv'
    BY <1>1, <2>1, Starts, OtherOp DEF Is
  <2>2. ASSUME NEW op, NEW pc, op # "list", OnHandle(op, pc) PROVE SInv'
    BY <2>1, <2>2 DEF OnHandle
  <2>3. CASE PoolOpenAll
    <3>1. PICK err : AtOnce("openAll", err)
      BY <2>3 DEF PoolOpenAll
    <3>2. call'.op = "openAll"
      BY <3>1 DEF AtOnce
    <3> QED BY <1>1, <3>2, OtherOp
  <2>4. ASSUME NEW n \in Names, NEW p \in BOOLEAN, NEW m \in BOOLEAN, PoolCreate(n, p, m) PROVE SInv'
    BY <2>1, <2>4 DEF PoolCreate
  <2>5. ASSUME NEW n \in Names, PoolImport(n) PROVE SInv'
    BY <2>1, <2>5 DEF PoolImport
  <2>6. ASSUME NEW g \in Guids, PoolImportByGUID(g) PROVE SInv'
    BY <2>1, <2>6 DEF PoolImportByGUID
  <2> QED BY <1>2, <2>2, <2>3, <2>4, <2>5, <2>6, SearchBegins DEF Begins
<1>3. CASE Steps
  BY <1>1, <1>3, SameOp, OtherOp, SearchGoesOn, SearchEnds
<1>4. CASE Closes
  <2>1. Is(call', "none", call.pc, call.arg, call.err, call.pool, call.name)
    BY <1>4, Sees DEF Closes, Close, CloseElement, PoolCloseAll, PInv, CallOK
  <2> QED BY <1>1, <2>1, OtherOp DEF Is
<1>5. CASE Rival
  <2>1. ~calm'
    BY <1>5 DEF Rival
  <2> QED BY <2>1 DEF SInv, SearchListsAll, Quiet
<1>6. CASE UNCHANGED vars
  BY <1>6 DEF vars, SInv, Scanning, SearchListsAll, Quiet, Returned, Idle
<1> QED BY <1>2, <1>3, <1>4, <1>5, <1>6 DEF Next

(* PoolImportSearch, while nobody interferes, lists the exported pools and *)
(* no other, unless it was left with an error.                             *)
THEOREM SpecSearchListsAll == Spec => []SearchListsAll
<1>1. SInv => SearchListsAll
  BY DEF SInv
<1> QED BY <1>1, InitPInv, NextPInv, InitSInv, NextSInv, PTL DEF Spec
=============================================================================
