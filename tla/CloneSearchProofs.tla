------------------------- MODULE CloneSearchProofs -------------------------
(***************************************************************************)
(* Proofs about CloneSearch, for every pool and every capacity of the      *)
(* channel: when Clones returns it returns each of FoundClones once, in    *)
(* an order that lets the first carry the origins of all.                  *)
(*                                                                         *)
(* The argument: no dataset that the search holds, in the channel or among *)
(* the children it looks at, is below another one (Apart); every clone     *)
(* that is not yet recorded is below one that it holds (Complete) and no   *)
(* clone that is recorded is (Once).  When it holds nothing it has them    *)
(* all.                                                                    *)
(***************************************************************************)
EXTENDS CloneSearch, SequenceTheorems, FiniteSetTheorems, TLAPS

Below(p, q) == Under(p, q) /\ p # q

LEMMA UnderReflexive == ASSUME NEW a \in Seq(STRING) PROVE Under(a, a)
  BY DEF Under

LEMMA UnderTransitive ==
  ASSUME NEW a \in Seq(STRING), NEW b \in Seq(STRING), NEW c \in Seq(STRING),
         Under(a, b), Under(b, c)
  PROVE  Under(a, c)
  BY DEF Under

LEMMA UnderEqual ==
  ASSUME NEW a \in Seq(STRING), NEW b \in Seq(STRING), Under(a, b), ~(Len(b) < Len(a))
  PROVE  a = b
<1>1. Len(a) = Len(b) /\ \A i \in 1..Len(a) : a[i] = b[i]
  BY DEF Under
<1> QED BY <1>1, SeqEqual

LEMMA Longer ==
  ASSUME NEW a \in Seq(STRING), NEW b \in Seq(STRING), Len(a) = 1, Len(b) > 1
  PROVE  b # a
<1>1. ~(1 > 1)
  OBVIOUS
<1> QED BY <1>1, Zenon

(* Of two paths above one, the shorter is above the other.                 *)
LEMMA UnderOneAnother ==
  ASSUME NEW a \in Seq(STRING), NEW b \in Seq(STRING), NEW c \in Seq(STRING),
         Under(a, b), Under(a, c), Len(b) <= Len(c)
  PROVE  Under(c, b)
  BY DEF Under

LEMMA AboveChild ==
  ASSUME NEW g \in Seq(STRING), NEW h \in Seq(STRING), NEW b \in Seq(STRING),
         IsChild(g, h), Under(g, b), b # g
  PROVE  Under(h, b)
<1>1. Under(g, h) /\ Len(g) = Len(h) + 1
  BY DEF IsChild
<1>2. Len(b) < Len(g)
  BY UnderEqual
<1>3. Len(b) <= Len(h)
  BY <1>1, <1>2
<1> QED BY <1>1, <1>3, UnderOneAnother

LEMMA Siblings ==
  ASSUME NEW g \in Seq(STRING), NEW k \in Seq(STRING), NEW h \in Seq(STRING),
         IsChild(g, h), IsChild(k, h), Under(g, k)
  PROVE  g = k
<1>1. ~(Len(k) < Len(g))
  BY DEF IsChild
<1> QED BY <1>1, UnderEqual

(* On the way from a filesystem down to another there is a child.          *)
LEMMA ChildOnTheWay ==
  ASSUME NEW n, IsPool(n), NEW f \in FSet(n), NEW top \in FSet(n), Below(f, top)
  PROVE  \E g \in ChildFs(n, top) : Under(f, g)
<1> DEFINE g == SubSeq(f, 1, Len(top) + 1)
<1>1. f \in Seq(STRING) /\ top \in Seq(STRING) /\ Under(f, top) /\ f # top
  BY DEF IsPool, Below
<1>2. Len(top) < Len(f)
  BY <1>1, UnderEqual
<1>3. Len(top) + 1 \in 1..Len(f)
  BY <1>1, <1>2
<1>4. g \in FSet(n)
  BY <1>3 DEF IsPool
<1>5. g \in Seq(STRING) /\ Len(g) = Len(top) + 1 /\ \A i \in 1..Len(g) : g[i] = f[i]
  BY <1>1, <1>3
<1> HIDE DEF g
<1>6. IsChild(g, top) /\ Under(f, g)
  BY <1>1, <1>3, <1>5 DEF Under, IsChild
<1> QED BY <1>4, <1>6 DEF ChildFs

-----------------------------------------------------------------------------
Hit(f) == IsHit(pool, d, pool, f)
Found == FoundClones(pool, d, pool)

Nodes == {FsNode(f) : f \in FSet(pool)} \cup {SnapNode(f, i) : f \in FSet(pool), i \in Ids(pool)}

(* The search does not stop on the way from the root to g, nor at g.       *)
Open(g) ==
  \A a \in FSet(pool) : (Under(g, a) /\ 1 < Len(a)) => (pool.fs[a].origin = NoSnap \/ Hit(a))

Typed ==
  /\ pool \in Pools
  /\ d \in {FsNode(f) : f \in FSet(pool)} \cup {SnapNode(pool.snap[i].of, i) : i \in Ids(pool)}
  /\ pc \in {"start", "select", "expand", "done"}
  /\ queue \in Seq(Nodes) /\ clones \in Seq(FSet(pool))
  /\ ds \in Nodes /\ rest \subseteq Children(pool, ds)
  /\ pc # "expand" => rest = {}
  /\ pc \in {"start", "done"} => queue = <<>>
  /\ pc = "start" => clones = <<>>

Reachable ==
  /\ \A k \in 1..Len(queue) : Open(queue[k].of)
  /\ pc = "expand" => Open(ds.of)

Sound == \A i \in 1..Len(clones) : clones[i] \in Found

(* f is at or below a child that was not looked at, or below a dataset     *)
(* whose children were not listed.                                         *)
Ahead(f) ==
  \/ \E k \in 1..Len(queue) : ~IsSnapshot(queue[k]) /\ Below(f, queue[k].of)
  \/ \E ch \in rest : ~IsSnapshot(ch) /\ Under(f, ch.of)

Recorded(f) == \E i \in 1..Len(clones) : clones[i] = f

Complete == pc # "start" => \A f \in Found : Recorded(f) \/ Ahead(f)

Apart ==
  /\ \A j, k \in 1..Len(queue) :
       (j # k /\ ~IsSnapshot(queue[j]) /\ ~IsSnapshot(queue[k])) => ~Under(queue[j].of, queue[k].of)
  /\ \A k \in 1..Len(queue) : \A ch \in rest :
       (~IsSnapshot(queue[k]) /\ ~IsSnapshot(ch)) =>
         ~Under(queue[k].of, ch.of) /\ ~Under(ch.of, queue[k].of)

Once ==
  /\ \A i, j \in 1..Len(clones) : clones[i] = clones[j] => i = j
  /\ \A i \in 1..Len(clones) : \A k \in 1..Len(queue) :
       ~IsSnapshot(queue[k]) => ~Below(clones[i], queue[k].of)
  /\ \A i \in 1..Len(clones) : \A ch \in rest : ~IsSnapshot(ch) => ~Under(clones[i], ch.of)

InOrder ==
  pc = "done" => \A i, j \in 1..Len(clones) : i < j => ~Younger(clones[j], clones[i])

CInv == Typed /\ Reachable /\ Sound /\ Complete /\ Apart /\ Once /\ InOrder

LEMMA ThePool ==
  ASSUME Typed
  PROVE  /\ IsPool(pool) /\ FSet(pool) \subseteq Seq(STRING) /\ Root \in FSet(pool)
         /\ \A n \in Nodes : n.of \in FSet(pool)
  BY PoolsAssumption DEF Typed, IsPool, Nodes, FsNode, SnapNode

LEMMA Listed ==
  ASSUME Typed, NEW n \in Nodes, NEW ch \in Children(pool, n)
  PROVE  /\ ch \in Nodes /\ ch.of \in FSet(pool) /\ n.of \in FSet(pool)
         /\ IF IsSnapshot(ch) THEN ch.of = n.of
            ELSE ~IsSnapshot(n) /\ IsChild(ch.of, n.of) /\ ch = FsNode(ch.of)
<1>1. IsPool(pool) /\ n.of \in FSet(pool)
  BY ThePool
<1>2. CASE ch \in {FsNode(g) : g \in ChildFs(pool, n.of)}
  <2>1. PICK g \in ChildFs(pool, n.of) : ch = FsNode(g)
    BY <1>2
  <2>2. g \in FSet(pool) /\ IsChild(g, n.of) /\ ch.of = g /\ ~IsSnapshot(ch)
    BY <2>1 DEF ChildFs, FsNode, IsSnapshot
  <2>3. ~IsSnapshot(n)
    BY DEF Children
  <2> QED BY <1>1, <2>1, <2>2, <2>3 DEF Nodes
<1>3. CASE ch \in {SnapNode(n.of, i) : i \in SnapsOf(pool, n.of)}
  <2>1. PICK i \in SnapsOf(pool, n.of) : ch = SnapNode(n.of, i)
    BY <1>3
  <2>2. i \in Ids(pool) /\ i # NoSnap
    BY <1>1 DEF SnapsOf, IsPool
  <2>3. ch.of = n.of /\ IsSnapshot(ch)
    BY <2>1, <2>2 DEF SnapNode, IsSnapshot
  <2> QED BY <1>1, <2>1, <2>2, <2>3 DEF Nodes
<1> QED BY <1>2, <1>3 DEF Children

(* A child of a dataset that was reached is reached; it is recorded if it  *)
(* is a hit, and what it has to be looked at for is below it.              *)
LEMMA ChildReached ==
  ASSUME Typed, NEW h \in FSet(pool), Open(h), NEW g \in ChildFs(pool, h)
  PROVE  /\ Reached(pool, d, pool, g)
         /\ (pool.fs[g].origin = NoSnap \/ Hit(g)) => Open(g)
<1>1. g \in FSet(pool) /\ IsChild(g, h) /\ g \in Seq(STRING) /\ h \in Seq(STRING)
      /\ FSet(pool) \subseteq Seq(STRING)
  BY ThePool DEF ChildFs
<1>2. Len(g) > 1
  <2>1. Len(h) >= 1
    BY <1>1, ThePool, PoolsAssumption DEF IsPool, Under
  <2> QED BY <1>1, <2>1 DEF IsChild
<1>3. ASSUME NEW a \in FSet(pool), Under(g, a), 1 < Len(a), a # g
      PROVE  pool.fs[a].origin = NoSnap \/ Hit(a)
  <2>1. Under(h, a)
    BY <1>1, <1>3, AboveChild
  <2> QED BY <1>3, <2>1 DEF Open
<1>4. Reached(pool, d, pool, g)
  <2>1. \A a \in FSet(pool) : Len(a) < Len(g) => a # g
    BY <1>1
  <2> QED BY <1>2, <1>3, <2>1 DEF Reached, Hit
<1> QED BY <1>3, <1>4 DEF Open

-----------------------------------------------------------------------------
LEMMA TailOf ==
  ASSUME NEW S, NEW q \in Seq(S), q # <<>>
  PROVE  /\ 1 \in 1..Len(q) /\ Head(q) = q[1] /\ q[1] \in S
         /\ Tail(q) \in Seq(S)
         /\ \A k \in 1..Len(Tail(q)) : k + 1 \in 1..Len(q) /\ k + 1 # 1 /\ Tail(q)[k] = q[k + 1]
         /\ \A k \in 1..Len(q) : k # 1 => k - 1 \in 1..Len(Tail(q)) /\ Tail(q)[k - 1] = q[k]
  OBVIOUS

LEMMA AppendOf ==
  ASSUME NEW S, NEW q \in Seq(S), NEW x \in S, NEW r, r = Append(q, x)
  PROVE  /\ r \in Seq(S)
         /\ \A k \in 1..Len(r) : (k \in 1..Len(q) /\ r[k] = q[k]) \/ (k = Len(q) + 1 /\ r[k] = x)
         /\ \A k \in 1..Len(q) : k \in 1..Len(r) /\ r[k] = q[k] /\ k # Len(q) + 1
         /\ Len(q) + 1 \in 1..Len(r) /\ r[Len(q) + 1] = x
  OBVIOUS

LEMMA NoneOf == ASSUME NEW s, s = <<>> PROVE Len(s) = 0 /\ 1..Len(s) = {}
  OBVIOUS

LEMMA SameSearch ==
  ASSUME UNCHANGED <<pool, d>>
  PROVE  /\ Found' = Found /\ Nodes' = Nodes
         /\ \A g : Open(g)' = Open(g)
         /\ \A f, g : Younger(f, g)' = Younger(f, g)
  BY DEF Found, Nodes, Open, Hit, Younger

LEMMA InitCInv == Init => CInv
<1> SUFFICES ASSUME Init PROVE CInv
  OBVIOUS
<1>1. Len(queue) = 0 /\ 1..Len(queue) = {} /\ Len(clones) = 0 /\ 1..Len(clones) = {} /\ rest = {}
  BY NoneOf DEF Init
<1>2. pool \in Pools /\ pc = "start" /\ ds = FsNode(Root) /\ queue = <<>> /\ clones = <<>>
  BY DEF Init
<1>3. Root \in FSet(pool)
  BY <1>2, PoolsAssumption DEF IsPool
<1>4. Typed
  <2>1. d \in {FsNode(f) : f \in FSet(pool)} \cup {SnapNode(pool.snap[i].of, i) : i \in Ids(pool)}
    BY DEF Init
  <2>2. ds \in Nodes
    BY <1>2, <1>3 DEF Nodes
  <2>3. rest \subseteq Children(pool, ds) /\ queue \in Seq(Nodes) /\ clones \in Seq(FSet(pool))
    BY <1>1, <1>2
  <2> QED BY <1>1, <1>2, <2>1, <2>2, <2>3 DEF Typed
<1> QED BY <1>1, <1>2, <1>4 DEF CInv, Reachable, Sound, Complete, Apart, Once, InOrder

LEMMA StartStep ==
  ASSUME CInv, Start
  PROVE  CInv'
<1>1. /\ pc = "start" /\ pc' = "select" /\ queue' = Append(queue, FsNode(Root))
      /\ UNCHANGED <<pool, d, ds, rest, clones>>
  BY DEF Start, Send
<1>2. Typed /\ queue = <<>> /\ clones = <<>> /\ rest = {}
  BY <1>1 DEF CInv, Typed
<1>3. IsPool(pool) /\ Root \in FSet(pool) /\ FSet(pool) \subseteq Seq(STRING) /\ FsNode(Root) \in Nodes
  BY <1>2, ThePool DEF Nodes
<1>4. queue' = <<FsNode(Root)>> /\ Len(queue') = 1 /\ queue'[1] = FsNode(Root) /\ queue' \in Seq(Nodes)
      /\ 1..Len(queue') = {1}
  BY <1>1, <1>2, <1>3
<1>5. 1..Len(clones') = {}
  BY <1>1, <1>2, NoneOf
<1>6. FsNode(Root).of = Root /\ ~IsSnapshot(FsNode(Root))
  BY DEF FsNode, IsSnapshot
<1>7. Open(Root)
  BY <1>3, PoolsAssumption DEF Open, Under
<1>8. ASSUME NEW f \in Found PROVE Below(f, Root)
  <2>1. f \in FSet(pool) /\ Len(f) > 1
    BY <1>8 DEF Found, FoundClones, Reached
  <2>2. Under(f, Root)
    BY <1>3, <2>1 DEF IsPool
  <2>3. Len(Root) = 1
    BY PoolsAssumption
  <2>4. f # Root
    <3>1. f \in Seq(STRING) /\ Root \in Seq(STRING)
      BY <1>3, <2>1
    <3> QED BY <2>1, <2>3, <3>1, Longer
  <2> QED BY <2>2, <2>4 DEF Below
<1>9. Typed'
  BY <1>1, <1>2, <1>4, SameSearch DEF Typed
<1>10. Reachable'
  BY <1>1, <1>4, <1>6, <1>7, SameSearch DEF Reachable
<1>11. Complete'
  BY <1>1, <1>4, <1>6, <1>8, SameSearch DEF Complete, Ahead
<1>12. Sound' /\ Apart' /\ Once' /\ InOrder'
  <2>1. Sound' /\ InOrder'
    BY <1>1, <1>2, <1>5 DEF Sound, InOrder
  <2>2. rest' = {}
    BY <1>1, <1>2
  <2>3. Once'
    BY <1>5, <2>2, Zenon DEF Once
  <2>4. \A j, k \in 1..Len(queue') : j = k
    BY <1>4
  <2>5. Apart'
    BY <2>2, <2>4 DEF Apart
  <2> QED BY <2>1, <2>3, <2>5
<1> QED BY <1>9, <1>10, <1>11, <1>12 DEF CInv

LEMMA ReceiveStep ==
  ASSUME CInv, Receive
  PROVE  CInv'
<1> DEFINE h == queue[1]
<1>1. /\ pc = "select" /\ queue # <<>> /\ ds' = Head(queue) /\ queue' = Tail(queue)
      /\ rest' = Children(pool, Head(queue)) /\ pc' = "expand" /\ UNCHANGED <<pool, d, clones>>
  BY DEF Receive
<1>2. Typed /\ rest = {} /\ queue \in Seq(Nodes)
  BY <1>1 DEF CInv, Typed
<1>3. /\ 1 \in 1..Len(queue) /\ ds' = h /\ h \in Nodes /\ rest' = Children(pool, h)
      /\ queue' \in Seq(Nodes)
      /\ \A k \in 1..Len(queue') : k + 1 \in 1..Len(queue) /\ k + 1 # 1 /\ queue'[k] = queue[k + 1]
      /\ \A k \in 1..Len(queue) : k # 1 => k - 1 \in 1..Len(queue') /\ queue'[k - 1] = queue[k]
  BY <1>1, <1>2, TailOf
<1> HIDE DEF h
<1>4. h = queue[1]
  BY DEF h
<1>5. Typed'
  BY <1>1, <1>2, <1>3, SameSearch DEF Typed
<1>6. Reachable'
  BY <1>1, <1>3, <1>4, SameSearch DEF CInv, Reachable
<1>7. Sound' /\ InOrder'
  BY <1>1, SameSearch DEF CInv, Sound, InOrder
<1>8. \A ch \in rest' : ~IsSnapshot(ch) => /\ ch.of \in FSet(pool) /\ h.of \in FSet(pool) /\ ~IsSnapshot(h)
                                         /\ IsChild(ch.of, h.of)
  BY <1>2, <1>3, Listed
<1>9. IsPool(pool) /\ FSet(pool) \subseteq Seq(STRING) /\ \A k \in 1..Len(queue) : queue[k].of \in FSet(pool)
  BY <1>2, ThePool
<1>10. Complete'
  <2> SUFFICES ASSUME NEW f \in Found PROVE Recorded(f)' \/ Ahead(f)'
    BY SameSearch, <1>1 DEF Complete
  <2>1. CASE Recorded(f)
    BY <1>1, <2>1 DEF Recorded
  <2>2. ASSUME NEW k \in 1..Len(queue), ~IsSnapshot(queue[k]), Below(f, queue[k].of)
        PROVE  Ahead(f)'
    <3>1. CASE k = 1
      <4>1. PICK g \in ChildFs(pool, h.of) : Under(f, g)
        BY <1>4, <1>9, <2>2, <3>1, ChildOnTheWay DEF Found, FoundClones
      <4>2. FsNode(g) \in rest' /\ ~IsSnapshot(FsNode(g)) /\ FsNode(g).of = g
        BY <1>3, <1>4, <2>2, <3>1 DEF Children, FsNode, IsSnapshot
      <4> QED BY <4>1, <4>2 DEF Ahead
    <3>2. CASE k # 1
      BY <1>3, <2>2, <3>2 DEF Ahead
    <3> QED BY <3>1, <3>2
  <2>3. Recorded(f) \/ Ahead(f)
    BY <1>1 DEF CInv, Complete
  <2> QED BY <1>2, <2>1, <2>2, <2>3 DEF Ahead
<1>11. Apart'
  <2>1. \A j, k \in 1..Len(queue) :
          (j # k /\ ~IsSnapshot(queue[j]) /\ ~IsSnapshot(queue[k])) => ~Under(queue[j].of, queue[k].of)
    BY DEF CInv, Apart
  <2>2. ASSUME NEW j \in 1..Len(queue'), NEW k \in 1..Len(queue'), j # k,
               ~IsSnapshot(queue'[j]), ~IsSnapshot(queue'[k])
        PROVE  ~Under(queue'[j].of, queue'[k].of)
    <3>1. j + 1 # k + 1
      BY <2>2
    <3> QED BY <1>3, <2>1, <2>2, <3>1
  <2>3. ASSUME NEW k \in 1..Len(queue'), NEW ch \in rest', ~IsSnapshot(queue'[k]), ~IsSnapshot(ch)
        PROVE  ~Under(queue'[k].of, ch.of) /\ ~Under(ch.of, queue'[k].of)
    <3> DEFINE q == queue[k + 1]
    <3>1. queue'[k] = q /\ ~IsSnapshot(q) /\ ~IsSnapshot(h) /\ k + 1 \in 1..Len(queue) /\ k + 1 # 1
      BY <1>3, <1>8, <2>3
    <3>2. ~Under(q.of, h.of) /\ ~Under(h.of, q.of)
      BY <1>3, <1>4, <2>1, <3>1
    <3>3. q.of \in Seq(STRING) /\ ch.of \in Seq(STRING) /\ h.of \in Seq(STRING) /\ IsChild(ch.of, h.of)
      BY <1>8, <1>9, <2>3, <3>1
    <3> HIDE DEF q
    <3>4. ~Under(q.of, ch.of)
      BY <3>2, <3>3, UnderTransitive DEF IsChild
    <3>5. ~Under(ch.of, q.of)
      BY <3>2, <3>3, <3>4, AboveChild, UnderReflexive
    <3> QED BY <3>1, <3>4, <3>5
  <2> QED BY <2>2, <2>3 DEF Apart
<1>12. Once'
  <2>1. \A i, j \in 1..Len(clones') : clones'[i] = clones'[j] => i = j
    BY <1>1 DEF CInv, Once
  <2>2. ASSUME NEW i \in 1..Len(clones'), NEW k \in 1..Len(queue'), ~IsSnapshot(queue'[k])
        PROVE  ~Below(clones'[i], queue'[k].of)
    BY <1>1, <1>3, <2>2 DEF CInv, Once
  <2>3. ASSUME NEW i \in 1..Len(clones'), NEW ch \in rest', ~IsSnapshot(ch), Under(clones'[i], ch.of)
        PROVE  FALSE
    <3>1. /\ clones[i] \in Seq(STRING) /\ ch.of \in Seq(STRING) /\ h.of \in Seq(STRING)
          /\ IsChild(ch.of, h.of) /\ ~IsSnapshot(h) /\ i \in 1..Len(clones) /\ Under(clones[i], ch.of)
      BY <1>1, <1>2, <1>8, <1>9, <2>3 DEF Typed
    <3>2. ~Below(clones[i], h.of)
      BY <1>3, <1>4, <3>1 DEF CInv, Once
    <3>3. Under(clones[i], h.of)
      BY <3>1, UnderTransitive DEF IsChild
    <3>4. clones[i] = h.of
      BY <3>2, <3>3 DEF Below
    <3> QED BY <3>1, <3>4 DEF IsChild, Under
  <2> QED BY <2>1, <2>2, <2>3 DEF Once
<1> QED BY <1>5, <1>6, <1>7, <1>10, <1>11, <1>12 DEF CInv

(* A child that is not sent has nothing below it to be found.              *)
LEMMA SkipForeignCloneStep ==
  ASSUME CInv, NEW x \in rest, SkipForeignClone(x)
  PROVE  CInv'
<1>1. /\ pc = "expand" /\ ~IsSnapshot(x) /\ pool.fs[x.of].origin # NoSnap /\ ~Hit(x.of)
      /\ rest' = rest \ {x} /\ UNCHANGED <<pool, d, pc, queue, ds, clones>>
  BY DEF SkipForeignClone, NextChild, HasOrigin, Hit
<1>2. Typed /\ ds \in Nodes /\ x \in Children(pool, ds) /\ Open(ds.of)
  BY <1>1 DEF CInv, Typed, Reachable
<1>3. x.of \in FSet(pool) /\ IsPool(pool) /\ FSet(pool) \subseteq Seq(STRING) /\ ds.of \in FSet(pool)
      /\ x = FsNode(x.of) /\ IsChild(x.of, ds.of)
  BY <1>1, <1>2, Listed, ThePool
<1>4. Typed'
  BY <1>1, SameSearch DEF CInv, Typed
<1>5. Reachable' /\ Sound' /\ Apart' /\ Once' /\ InOrder'
  BY <1>1, SameSearch DEF CInv, Reachable, Sound, Apart, Once, InOrder
<1>6. Complete'
  <2> SUFFICES ASSUME NEW f \in Found PROVE Recorded(f)' \/ Ahead(f)'
    BY SameSearch, <1>1 DEF Complete
  <2>1. ~Under(f, x.of)
    <3>1. SUFFICES ASSUME Under(f, x.of) PROVE FALSE
      OBVIOUS
    <3>2. f \in FSet(pool) /\ Hit(f) /\ Reached(pool, d, pool, f) /\ f \in Seq(STRING)
      BY <1>3 DEF Found, FoundClones, Hit
    <3>3. f # x.of
      BY <1>1, <3>2
    <3>4. Len(x.of) < Len(f)
      BY <1>3, <3>1, <3>2, <3>3, UnderEqual
    <3>5. 1 < Len(x.of)
      <4>1. Reached(pool, d, pool, x.of)
        BY <1>2, <1>3, ChildReached DEF ChildFs
      <4> QED BY <4>1 DEF Reached
    <3> QED BY <1>1, <1>3, <3>1, <3>2, <3>4, <3>5 DEF Reached, Hit
  <2>2. Recorded(f) \/ Ahead(f)
    BY <1>1 DEF CInv, Complete
  <2>3. ASSUME NEW ch \in rest, ~IsSnapshot(ch), Under(f, ch.of) PROVE Ahead(f)'
    <3>1. ch \in rest'
      BY <1>1, <2>1, <2>3
    <3> QED BY <2>3, <3>1 DEF Ahead
  <2> QED BY <1>1, <2>2, <2>3 DEF Ahead, Recorded
<1> QED BY <1>4, <1>5, <1>6 DEF CInv

(* A child that is sent takes along what is below it.                      *)
LEMMA SentStep ==
  ASSUME CInv, NEW x \in rest, pc = "expand", queue' = Append(queue, x), rest' = rest \ {x},
         UNCHANGED <<pool, d, pc, ds>>,
         ~IsSnapshot(x) => pool.fs[x.of].origin = NoSnap \/ Hit(x.of),
         IF ~IsSnapshot(x) /\ Hit(x.of) THEN clones' = Append(clones, x.of) ELSE UNCHANGED clones
  PROVE  CInv'
<1>1. Typed /\ ds \in Nodes /\ x \in Children(pool, ds) /\ Open(ds.of) /\ queue \in Seq(Nodes)
      /\ rest \subseteq Children(pool, ds)
  BY DEF CInv, Typed, Reachable
<1>2. /\ x \in Nodes /\ x.of \in FSet(pool) /\ IsPool(pool) /\ FSet(pool) \subseteq Seq(STRING)
      /\ ds.of \in FSet(pool)
      /\ IF IsSnapshot(x) THEN x.of = ds.of
         ELSE x = FsNode(x.of) /\ IsChild(x.of, ds.of)
  BY <1>1, Listed, ThePool
<1> DEFINE e == Len(queue) + 1
<1>3. /\ queue' \in Seq(Nodes)
      /\ \A k \in 1..Len(queue') : (k \in 1..Len(queue) /\ queue'[k] = queue[k]) \/ (k = e /\ queue'[k] = x)
      /\ \A k \in 1..Len(queue) : k \in 1..Len(queue') /\ queue'[k] = queue[k] /\ k # e
      /\ e \in 1..Len(queue') /\ queue'[e] = x
  BY <1>1, <1>2, AppendOf
<1> HIDE DEF e
<1> DEFINE new == ~IsSnapshot(x) /\ Hit(x.of)
           c == Len(clones) + 1
<1>4. /\ clones' \in Seq(FSet(pool))
      /\ \A i \in 1..Len(clones) : i \in 1..Len(clones') /\ clones'[i] = clones[i]
      /\ \A i \in 1..Len(clones') :
           (i \in 1..Len(clones) /\ clones'[i] = clones[i]) \/ (new /\ i = c /\ clones'[i] = x.of)
      /\ new => c \in 1..Len(clones') /\ clones'[c] = x.of
  <2>1. clones \in Seq(FSet(pool))
    BY <1>1 DEF Typed
  <2>2. CASE new
    <3>1. clones' = Append(clones, x.of) /\ x.of \in FSet(pool)
      BY <1>2, <2>2
    <3> HIDE DEF new
    <3> QED BY <2>1, <2>2, <3>1, AppendOf
  <2>3. CASE ~new
    BY <2>1, <2>3
  <2> QED BY <2>2, <2>3
<1> HIDE DEF new, c
<1>5. \A ch \in rest : ~IsSnapshot(ch) => ch.of \in FSet(pool) /\ IsChild(ch.of, ds.of) /\ ch = FsNode(ch.of)
  BY <1>1, Listed
<1>6. \A i \in 1..Len(clones) : clones[i] \in Seq(STRING)
  BY <1>1, <1>2 DEF Typed
<1>7. \A k \in 1..Len(queue) : queue[k].of \in Seq(STRING)
  BY <1>1, <1>2, ThePool
<1>8. Typed'
  BY <1>1, <1>3, <1>4, SameSearch DEF Typed
<1>9. Reachable'
  <2>1. Open(x.of)
    BY <1>1, <1>2, ChildReached DEF ChildFs
  <2> QED BY <1>1, <1>3, <2>1, SameSearch DEF CInv, Reachable
<1>10. Sound' /\ InOrder'
  <2>1. new => x.of \in Found
    <3>1. ~IsSnapshot(x) => Reached(pool, d, pool, x.of)
      BY <1>1, <1>2, ChildReached DEF ChildFs
    <3> QED BY <1>2, <3>1 DEF new, Found, FoundClones, Hit
  <2>2. Sound'
    BY <1>4, <2>1, SameSearch DEF CInv, Sound
  <2> QED BY <2>2 DEF InOrder
<1>11. Complete'
  <2> SUFFICES ASSUME NEW f \in Found PROVE Recorded(f)' \/ Ahead(f)'
    BY SameSearch DEF Complete
  <2>1. Recorded(f) => Recorded(f)'
    BY <1>4 DEF Recorded
  <2>2. ASSUME NEW k \in 1..Len(queue), ~IsSnapshot(queue[k]), Below(f, queue[k].of) PROVE Ahead(f)'
    BY <1>3, <2>2 DEF Ahead
  <2>3. ASSUME NEW ch \in rest, ~IsSnapshot(ch), Under(f, ch.of) PROVE Recorded(f)' \/ Ahead(f)'
    <3>1. CASE ch # x
      <4>1. ch \in rest'
        BY <3>1
      <4> QED BY <2>3, <4>1 DEF Ahead
    <3>2. CASE ch = x /\ f # x.of
      BY <1>3, <2>3, <3>2 DEF Ahead, Below
    <3>3. CASE ch = x /\ f = x.of
      <4>1. new
        BY <2>3, <3>3 DEF new, Found, FoundClones, Hit
      <4> QED BY <1>4, <3>3, <4>1 DEF Recorded
    <3> QED BY <3>1, <3>2, <3>3
  <2>4. Recorded(f) \/ Ahead(f)
    BY DEF CInv, Complete
  <2> QED BY <2>1, <2>2, <2>3, <2>4 DEF Ahead
<1>12. Apart'
  <2>1. ASSUME NEW ch \in rest, ch # x, ~IsSnapshot(ch), ~IsSnapshot(x)
        PROVE  ~Under(x.of, ch.of) /\ ~Under(ch.of, x.of)
    <3>1. ch.of # x.of
      BY <1>2, <1>5, <2>1
    <3> QED BY <1>2, <1>5, <2>1, <3>1, Siblings
  <2>2. \A k \in 1..Len(queue) : (~IsSnapshot(queue[k]) /\ ~IsSnapshot(x)) =>
          ~Under(queue[k].of, x.of) /\ ~Under(x.of, queue[k].of)
    BY DEF CInv, Apart
  <2>3. ASSUME NEW j \in 1..Len(queue'), NEW k \in 1..Len(queue'), j # k,
               ~IsSnapshot(queue'[j]), ~IsSnapshot(queue'[k])
        PROVE  ~Under(queue'[j].of, queue'[k].of)
    BY <1>3, <2>2, <2>3 DEF CInv, Apart
  <2>4. ASSUME NEW k \in 1..Len(queue'), NEW ch \in rest', ~IsSnapshot(queue'[k]), ~IsSnapshot(ch)
        PROVE  ~Under(queue'[k].of, ch.of) /\ ~Under(ch.of, queue'[k].of)
    BY <1>3, <2>1, <2>4 DEF CInv, Apart
  <2> QED BY <2>3, <2>4 DEF Apart
<1>13. Once'
  <2>1. \A i \in 1..Len(clones) : ~IsSnapshot(x) => ~Under(clones[i], x.of)
    BY DEF CInv, Once
  <2>2. new => ~IsSnapshot(x) /\ \A i \in 1..Len(clones) : clones[i] # x.of
    BY <1>2, <2>1, UnderReflexive DEF new
  <2>3. ASSUME NEW i \in 1..Len(clones'), NEW j \in 1..Len(clones'), clones'[i] = clones'[j]
        PROVE  i = j
    <3>1. \A k, l \in 1..Len(clones) : clones[k] = clones[l] => k = l
      BY DEF CInv, Once
    <3> QED BY <1>4, <2>2, <2>3, <3>1
  <2>4. ASSUME NEW i \in 1..Len(clones'), NEW k \in 1..Len(queue'), ~IsSnapshot(queue'[k])
        PROVE  ~Below(clones'[i], queue'[k].of)
    <3>1. \A l \in 1..Len(clones) : \A m \in 1..Len(queue) :
            ~IsSnapshot(queue[m]) => ~Below(clones[l], queue[m].of)
      BY DEF CInv, Once
    <3>2. \A m \in 1..Len(queue) :
            (~IsSnapshot(queue[m]) /\ ~IsSnapshot(x)) => ~Under(x.of, queue[m].of)
      BY DEF CInv, Apart
    <3> QED BY <1>3, <1>4, <2>1, <2>2, <2>4, <3>1, <3>2 DEF Below
  <2>5. ASSUME NEW i \in 1..Len(clones'), NEW ch \in rest', ~IsSnapshot(ch)
        PROVE  ~Under(clones'[i], ch.of)
    <3>1. \A l \in 1..Len(clones) : ~Under(clones[l], ch.of)
      BY <2>5 DEF CInv, Once
    <3>2. ~IsSnapshot(x) => ~Under(x.of, ch.of)
      <4>1. ~IsSnapshot(x) => ch.of # x.of
        BY <1>2, <1>5, <2>5
      <4> QED BY <1>2, <1>5, <2>5, <4>1, Siblings
    <3> QED BY <1>4, <2>2, <3>1, <3>2
  <2> QED BY <2>3, <2>4, <2>5 DEF Once
<1> QED BY <1>8, <1>9, <1>10, <1>11, <1>12, <1>13 DEF CInv
LEMMA RecordCloneStep ==
  ASSUME CInv, NEW x \in rest, RecordClone(x)
  PROVE  CInv'
<1>1. /\ pc = "expand" /\ ~IsSnapshot(x) /\ Hit(x.of)
      /\ queue' = Append(queue, x) /\ clones' = Append(clones, x.of) /\ rest' = rest \ {x}
      /\ UNCHANGED <<pool, d, pc, ds>>
  BY DEF RecordClone, NextChild, HasOrigin, Send, Hit
<1> QED BY <1>1, SentStep

LEMMA SendPlainStep ==
  ASSUME CInv, NEW x \in rest, SendPlain(x)
  PROVE  CInv'
<1>1. /\ pc = "expand"
      /\ ~IsSnapshot(x) => pool.fs[x.of].origin = NoSnap /\ ~Hit(x.of)
      /\ queue' = Append(queue, x) /\ rest' = rest \ {x}
      /\ UNCHANGED <<pool, d, pc, ds, clones>>
  BY DEF SendPlain, NextChild, HasOrigin, Send, Hit, IsHit
<1>2. IF ~IsSnapshot(x) /\ Hit(x.of) THEN clones' = Append(clones, x.of) ELSE UNCHANGED clones
  BY <1>1
<1> QED BY <1>1, <1>2, SentStep

LEMMA ExpandedStep ==
  ASSUME CInv, Expanded
  PROVE  CInv'
<1>1. pc = "expand" /\ rest = {} /\ pc' = "select" /\ UNCHANGED <<pool, d, queue, ds, rest, clones>>
  BY DEF Expanded
<1>2. Typed'
  BY <1>1, SameSearch DEF CInv, Typed
<1>3. Complete'
  BY <1>1, SameSearch DEF CInv, Complete, Recorded, Ahead
<1>4. Reachable' /\ Sound' /\ Apart' /\ Once' /\ InOrder'
  BY <1>1, SameSearch DEF CInv, Reachable, Sound, Apart, Once, InOrder
<1> QED BY <1>2, <1>3, <1>4 DEF CInv

(* What sort.Sort returns is the list in another order.                    *)
Reordered(t, s) ==
  /\ Len(t) = Len(s)
  /\ \A i \in 1..Len(s) : \E j \in 1..Len(s) : t[i] = s[j]
  /\ \A j \in 1..Len(s) : \E i \in 1..Len(s) : t[i] = s[j]
  /\ (\A i, j \in 1..Len(s) : s[i] = s[j] => i = j)
        => \A i, j \in 1..Len(s) : t[i] = t[j] => i = j
  /\ \A i, j \in 1..Len(s) : i < j => ~Younger(t[j], t[i])

LEMMA SortedList ==
  ASSUME NEW S, NEW s \in Seq(S), NEW t \in Sorted(s)
  PROVE  Reordered(t, s) /\ t \in Seq(S)
<1> DEFINE D == 1..Len(s)
<1>1. DOMAIN s = D
  OBVIOUS
<1>2. PICK p \in Bijection(D, D) : t = [i \in D |-> s[p[i]]]
  BY <1>1 DEF Sorted
<1>3. \A i, j \in D : i < j => ~Younger(t[j], t[i])
  BY <1>1 DEF Sorted
<1>4. /\ p \in [D -> D] /\ \A i, j \in D : p[i] = p[j] => i = j
      /\ \A j \in D : \E i \in D : p[i] = j
  BY <1>2 DEF Bijection, Injection, Surjection, IsInjective
<1>5. \A i \in D : p[i] \in D /\ t[i] = s[p[i]] /\ t[i] \in S
  BY <1>2, <1>4
<1>6. t \in Seq(S) /\ Len(t) = Len(s)
  <2>1. t \in [D -> S] /\ Len(s) \in Nat
    BY <1>2, <1>5
  <2>2. t \in Seq(S) /\ DOMAIN t = 1..Len(s)
    BY <2>1, IsASeq
  <2>3. Len(t) = Len(s)
    BY <2>1, <2>2, LenProperties
  <2> QED BY <2>2, <2>3
<1>7. \A i \in D : \E j \in D : t[i] = s[j]
  <2> TAKE i \in D
  <2>1. p[i] \in D /\ t[i] = s[p[i]]
    BY <1>5
  <2> HIDE DEF D
  <2> QED BY <2>1, Zenon
<1>8. \A j \in D : \E i \in D : t[i] = s[j]
  <2> TAKE j \in D
  <2>1. PICK i \in D : p[i] = j
    BY <1>4
  <2>2. t[i] = s[j]
    BY <1>5, <2>1
  <2> HIDE DEF D
  <2> QED BY <2>2, Zenon
<1>9. (\A i, j \in D : s[i] = s[j] => i = j) => \A i, j \in D : t[i] = t[j] => i = j
  <2> SUFFICES ASSUME \A i, j \in D : s[i] = s[j] => i = j,
                      NEW i \in D, NEW j \in D, t[i] = t[j]
               PROVE  i = j
    OBVIOUS
  <2>1. p[i] \in D /\ p[j] \in D /\ s[p[i]] = s[p[j]]
    BY <1>5
  <2>2. p[i] = p[j]
    BY <2>1
  <2> QED BY <1>4, <2>2
<1> QED BY <1>3, <1>6, <1>7, <1>8, <1>9, Zenon DEF Reordered

LEMMA ReturnStep ==
  ASSUME CInv, Return
  PROVE  CInv'
<1>1. /\ pc = "select" /\ queue = <<>> /\ clones' \in Sorted(clones) /\ pc' = "done"
      /\ UNCHANGED <<pool, d, queue, ds, rest>>
  BY DEF Return
<1>2. rest = {} /\ rest' = {} /\ clones \in Seq(FSet(pool)) /\ queue' = <<>>
  BY <1>1 DEF CInv, Typed
<1>3. 1..Len(queue) = {} /\ 1..Len(queue') = {}
  BY <1>1, <1>2, NoneOf
<1>4. PICK t, s, S : t = clones' /\ s = clones /\ S = FSet(pool)
  OBVIOUS
<1>5. s \in Seq(S) /\ t \in Sorted(s)
  BY <1>1, <1>2, <1>4
<1>6. Reordered(t, s) /\ t \in Seq(S)
  BY <1>5, SortedList, Zenon
<1>7. Typed'
  BY <1>1, <1>2, <1>4, <1>6, SameSearch DEF CInv, Typed
<1>8. Reachable' /\ Apart'
  BY <1>1, <1>2, <1>3 DEF Reachable, Apart
<1>9. Sound'
  <2> SUFFICES ASSUME NEW i \in 1..Len(clones') PROVE clones'[i] \in Found
    BY <1>1, SameSearch DEF Sound
  <2>1. i \in 1..Len(s) /\ clones'[i] = t[i]
    BY <1>4, <1>6 DEF Reordered
  <2>2. PICK j \in 1..Len(s) : t[i] = s[j]
    BY <1>6, <2>1 DEF Reordered
  <2>3. j \in 1..Len(clones) /\ clones'[i] = clones[j]
    BY <1>4, <2>1, <2>2
  <2> QED BY <2>3 DEF CInv, Sound
<1>10. Complete'
  <2> SUFFICES ASSUME NEW f \in Found PROVE Recorded(f)'
    BY <1>1, SameSearch DEF Complete
  <2>1. ~Ahead(f)
    BY <1>2, <1>3 DEF Ahead
  <2>2. PICK j \in 1..Len(clones) : clones[j] = f
    BY <1>1, <2>1 DEF CInv, Complete, Recorded
  <2> QED BY <1>4, <1>6, <2>2 DEF Recorded, Reordered
<1>11. Once'
  <2>1. \A i, j \in 1..Len(clones') : clones'[i] = clones'[j] => i = j
    BY <1>4, <1>6 DEF CInv, Once, Reordered
  <2> QED BY <1>2, <1>3, <2>1 DEF Once
<1>12. InOrder'
  BY <1>1, <1>4, <1>6, SameSearch DEF InOrder, Reordered
<1> QED BY <1>7, <1>8, <1>9, <1>10, <1>11, <1>12 DEF CInv

LEMMA NextCInv == CInv /\ [Next]_vars => CInv'
<1> SUFFICES ASSUME CInv, [Next]_vars PROVE CInv'
  OBVIOUS
<1>1. CASE Start
  BY <1>1, StartStep
<1>2. CASE Receive
  BY <1>2, ReceiveStep
<1>3. ASSUME NEW ch \in rest, SkipForeignClone(ch) PROVE CInv'
  BY <1>3, SkipForeignCloneStep
<1>4. ASSUME NEW ch \in rest, RecordClone(ch) PROVE CInv'
  BY <1>4, RecordCloneStep
<1>5. ASSUME NEW ch \in rest, SendPlain(ch) PROVE CInv'
  BY <1>5, SendPlainStep
<1>6. CASE Expanded
  BY <1>6, ExpandedStep
<1>7. CASE Return
  BY <1>7, ReturnStep
<1>8. CASE UNCHANGED vars
  <2>1. UNCHANGED <<pool, d, pc, queue, ds, rest, clones>>
    BY <1>8 DEF vars
  <2> QED BY <2>1, SameSearch
          DEF CInv, Typed, Reachable, Sound, Complete, Recorded, Ahead, Apart, Once, InOrder
<1> QED BY <1>1, <1>2, <1>3, <1>4, <1>5, <1>6, <1>7, <1>8 DEF Next

(* The invariant holds in every behaviour.                                 *)
THEOREM SpecCInv == Spec => []CInv
<1> QED BY InitCInv, NextCInv, PTL DEF Spec
-----------------------------------------------------------------------------
(* In one and the same pool the snapshot of d that a clone is sorted by is *)
(* the clone's origin.                                                     *)
LEMMA KeyIsOrigin ==
  ASSUME Typed, NEW f \in Found
  PROVE  LET o == pool.fs[f].origin
         IN  SortKey(pool, d, pool, f) = o /\ o \in Ids(pool) /\ o \in Nat /\ pool.snap[o].of = d.of
<1> DEFINE o == pool.fs[f].origin
<1>1. IsPool(pool) /\ f \in FSet(pool) /\ o # NoSnap /\ OriginIn(pool, d, pool, f) # {}
  BY ThePool DEF Found, FoundClones, IsHit
<1>2. o \in Ids(pool) /\ o \in Nat
  BY <1>1 DEF IsPool
<1>3. ASSUME NEW i \in OriginIn(pool, d, pool, f) PROVE i = o /\ pool.snap[o].of = d.of
  <2>1. pool.snap[o].of = d.of /\ pool.snap[o].name = pool.snap[i].name
    BY <1>3 DEF OriginIn
  <2>2. i \in Ids(pool) /\ pool.snap[i].of = d.of
    <3>1. CASE IsSnapshot(d)
      <4>1. i = d.id
        BY <1>3, <3>1 DEF OriginIn
      <4>2. PICK j \in Ids(pool) : d = SnapNode(pool.snap[j].of, j)
        BY <3>1 DEF Typed, IsSnapshot, FsNode
      <4> QED BY <4>1, <4>2 DEF SnapNode
    <3>2. CASE ~IsSnapshot(d)
      BY <1>3, <3>2 DEF OriginIn, Snapshots, SnapsOf
    <3> QED BY <3>1, <3>2
  <2> QED BY <1>1, <1>2, <2>1, <2>2 DEF IsPool
<1>4. SortKey(pool, d, pool, f) \in OriginIn(pool, d, pool, f)
  BY <1>1 DEF SortKey
<1> QED BY <1>2, <1>3, <1>4

LEMMA OfALength ==
  ASSUME NEW S, NEW s \in Seq(S), \A i, j \in 1..Len(s) : s[i] = s[j] => i = j
  PROVE  Len(s) = Cardinality(ToSet(s))
<1>1. Len(s) \in Nat /\ DOMAIN s = 1..Len(s)
  BY LenProperties
<1>2. IsFiniteSet(1..Len(s)) /\ Cardinality(1..Len(s)) = Len(s)
  BY <1>1, FS_Interval
<1>3. s \in Bijection(1..Len(s), ToSet(s))
  BY <1>1 DEF Bijection, Injection, Surjection, IsInjective, ToSet
<1>4. ExistsBijection(1..Len(s), ToSet(s))
  BY <1>3 DEF ExistsBijection
<1> QED BY <1>2, <1>4, FS_Bijection, Zenon

(* In every pool: when Clones returns, it returns each filesystem of       *)
(* FoundClones once, and first one that none of them is less than.         *)
THEOREM SpecReturnsFoundClones == Spec => []ReturnsFoundClones
<1>1. CInv => ReturnsFoundClones
  <2> SUFFICES ASSUME CInv, pc = "done"
               PROVE  /\ ToSet(clones) = FoundClones(pool, d, pool)
                      /\ Len(clones) = Cardinality(ToSet(clones))
                      /\ clones # <<>> =>
                           \A f \in ToSet(clones) : ~Less(pool, d, pool, f, clones[1])
    BY DEF ReturnsFoundClones
  <2>1. Typed /\ queue = <<>> /\ rest = {} /\ clones \in Seq(FSet(pool)) /\ IsPool(pool)
    BY ThePool DEF CInv, Typed
  <2>2. ToSet(clones) = {clones[i] : i \in 1..Len(clones)}
    BY <2>1 DEF ToSet
  <2>3. \A f \in Found : Recorded(f)
    <3>1. 1..Len(queue) = {}
      BY <2>1, NoneOf
    <3> QED BY <2>1, <3>1 DEF CInv, Complete, Ahead
  <2>4. ToSet(clones) = Found
    BY <2>2, <2>3 DEF CInv, Sound, Recorded
  <2>5. Len(clones) = Cardinality(ToSet(clones))
    BY <2>1, OfALength DEF CInv, Once
  <2>6. ASSUME NEW f \in ToSet(clones) PROVE ~Less(pool, d, pool, f, clones[1])
    <3>1. PICK i \in 1..Len(clones) : clones[i] = f
      BY <2>2, <2>6
    <3>2. CASE i = 1
      <4>1. f \in Found /\ f \in FSet(pool) /\ pool.fs[f].born \in Nat
        BY <2>1, <2>4, <2>6 DEF Found, FoundClones, IsPool
      <4>2. SortKey(pool, d, pool, f) \in Nat
        BY <2>1, <4>1, KeyIsOrigin
      <4> QED BY <3>1, <3>2, <4>1, <4>2 DEF Less
    <3>3. CASE i # 1
      <4>1. 1 \in 1..Len(clones) /\ 1 < i
        BY <3>3
      <4> QED BY <3>1, <4>1 DEF CInv, InOrder, Younger
    <3> QED BY <3>2, <3>3
  <2> QED BY <2>4, <2>5, <2>6 DEF Found
<1> QED BY <1>1, SpecCInv, PTL

(* In every pool: promoting the first clone that Clones returns takes the  *)
(* origin snapshots of all the others along (zfs.go:712-714).              *)
THEOREM SpecFirstCarriesAll == Spec => []FirstCarriesAll
<1>1. CInv => FirstCarriesAll
  <2> SUFFICES ASSUME CInv, pc = "done", NEW k \in 2..Len(clones)
               PROVE  pool.fs[clones[k]].origin \in Shared(pool, clones[1])
    BY DEF FirstCarriesAll
  <2>1. Typed /\ clones \in Seq(FSet(pool)) /\ 1 \in 1..Len(clones) /\ k \in 1..Len(clones) /\ 1 < k
    BY DEF CInv, Typed
  <2>2. PICK f, g : f = clones[1] /\ g = clones[k]
    OBVIOUS
  <2>3. f \in Found /\ g \in Found /\ ~Less(pool, d, pool, g, f)
    BY <2>1, <2>2 DEF CInv, Sound, InOrder, Younger
  <2>4. LET o == pool.fs[f].origin
        IN  SortKey(pool, d, pool, f) = o /\ o \in Nat /\ pool.snap[o].of = d.of
    BY <2>1, <2>3, KeyIsOrigin
  <2>5. LET o == pool.fs[g].origin
        IN  SortKey(pool, d, pool, g) = o /\ o \in Ids(pool) /\ o \in Nat /\ pool.snap[o].of = d.of
    BY <2>1, <2>3, KeyIsOrigin
  <2>6. pool.fs[g].origin <= pool.fs[f].origin
    BY <2>3, <2>4, <2>5 DEF Less
  <2> QED BY <2>2, <2>4, <2>5, <2>6 DEF Shared, SnapsOf
<1> QED BY <1>1, SpecCInv, PTL
=============================================================================
