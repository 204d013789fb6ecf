----------------------- MODULE DestroyRecursiveProofs -----------------------
(***************************************************************************)
(* For every pool, every target and every bound: DestroyRecursive takes    *)
(* only the steps Destruction allows; a snapshot goes after the snapshots  *)
(* of its name below it; and without clones, failures and other clients    *)
(* the call succeeds.                                                      *)
(***************************************************************************)
EXTENDS DestroyRecursive, SequenceTheorems, TLAPS

USE BoundsAssumption

(* What was there when the target was opened is as it was; the rest is     *)
(* younger.                                                                *)
Kept(n) ==
  /\ \A i \in Ids(n) : (i \in Ids(view) /\ n.snap[i] = view.snap[i]) \/ i > FirstTxg
  /\ \A f \in FSet(n) : (f \in FSet(view) /\ n.fs[f] = view.fs[f]) \/ n.fs[f].born > FirstTxg

(* An activation is about a node in the target's scope; but for the        *)
(* outermost, about one below or beside the target.                        *)
InScope(d) == d \in Nodes /\ Under(d.of, target.of) /\ (IsSnap(target) => d.name = target.name)
Inner(d) == (IsSnap(d) /\ ~IsSnap(target)) \/ Len(d.of) > Len(target.of)
KidOf(d, e) ==
  /\ d \in Nodes
  /\ IF IsSnap(e) THEN d.name = e.name /\ IsChild(d.of, e.of)
     ELSE IF IsSnap(d) THEN d.of = e.of ELSE IsChild(d.of, e.of)

Frames == [node : Nodes, pc : {"enter", "children"}, kids : SUBSET Nodes]

StackOK ==
  /\ stack \in Seq(Frames)
  /\ status = "running" <=> stack # <<>>
  /\ stack # <<>> => stack[Len(stack)].node = target
  /\ \A k \in 1..Len(stack) : InScope(stack[k].node) /\ \A d \in stack[k].kids : KidOf(d, stack[k].node)
  /\ \A k \in 1..Len(stack) : k < Len(stack) => Inner(stack[k].node)

(* In namespace n, of the snapshots of the target's name the call can      *)
(* reach, none is left at f or below.                                      *)
Settled(n, f) ==
  \A j \in Ids(view) :
    DoomedSnap(j) /\ Chained(view.snap[j].of) /\ Under(view.snap[j].of, f) => j \notin Ids(n)

(* A snapshot goes after those below it.                                   *)
BottomUp(n) == \A i \in Ids(view) : DoomedSnap(i) /\ i \notin Ids(n) => Settled(n, view.snap[i].of)

(* Of the children of a node that an activation has entered, each is still *)
(* to be visited, being visited, or done with.                             *)
AllKids(d) == IF IsSnap(d) THEN {Snap(g, d.name) : g \in ChildFs(view, d.of)} ELSE TreeKids(d.of)
Done(n, d) == IF IsSnap(target) THEN Settled(n, d.of) ELSE ~Exists(n, d)
Visited(n, s, k) ==
  s[k].pc = "children" /\ (IsSnap(s[k].node) <=> IsSnap(target)) =>
    \A d \in AllKids(s[k].node) : d \in s[k].kids \/ (k > 1 /\ s[k - 1].node = d) \/ Done(n, d)

CloneFree == \A i \in Ids(view) : DoomedSnap(i) => ClonesOf(view, i) = {}

Progress(n, s, outcome) ==
  /\ IsSnap(target) => BottomUp(n)
  /\ \A k \in 1..Len(s) : Visited(n, s, k)
  /\ CloneFree => outcome # "error"
  /\ outcome = "nil" /\ IsSnap(target) => Settled(n, target.of)

IInv ==
  /\ view \in Pools /\ target \in Targets /\ Exists(view, target)
  /\ IsPool(ns) /\ UpTo(ns, txg) /\ Kept(ns)
  /\ txg \in Nat /\ FirstTxg <= txg /\ faults \in Nat
  /\ status \in {"running", "nil", "error"}
  /\ IsSnap(target) => FSet(view) \subseteq FSet(ns)
  /\ status = "running" => TheItem \in Still
  /\ StackOK
  /\ Alone => Progress(ns, stack, status)

-----------------------------------------------------------------------------
(* Paths.                                                                  *)
LEMMA UnderReflexive == ASSUME NEW a \in Seq(STRING) PROVE Under(a, a)
BY DEF Under

LEMMA UnderTransitive ==
  ASSUME NEW a \in Seq(STRING), NEW b \in Seq(STRING), NEW c \in Seq(STRING),
         Under(a, b), Under(b, c)
  PROVE  Under(a, c)
BY DEF Under

LEMMA UnderEqual ==
  ASSUME NEW a \in Seq(STRING), NEW b \in Seq(STRING), Under(a, b), ~(Len(b) < Len(a))
  PROVE  a = b
<1>1. Len(a) = Len(b) /\ \A i \in 1..Len(a) : a[i] = b[i]
  BY DEF Under
<1> QED BY <1>1, SeqEqual

(* On the way from a filesystem down to another there is a child.          *)
LEMMA ChildOnTheWay ==
  ASSUME NEW n, IsPool(n), NEW f \in FSet(n), NEW top \in Paths, Under(f, top), f # top
  PROVE  \E g \in ChildFs(n, top) : Under(f, g)
<1> DEFINE g == SubSeq(f, 1, Len(top) + 1)
<1>1. f \in Seq(STRING) /\ top \in Seq(STRING)
  BY NamesAssumption DEF IsPool
<1>2. Len(top) + 1 \in 1..Len(f)
  BY <1>1, UnderEqual DEF Under
<1>3. g \in FSet(n)
  BY <1>2 DEF IsPool
<1>4. Len(g) = Len(top) + 1 /\ \A i \in 1..Len(g) : g[i] = f[i]
  BY <1>1, <1>2
<1> HIDE DEF g
<1>5. g \in Seq(STRING)
  BY <1>3, NamesAssumption DEF IsPool
<1>6. Under(f, g) /\ IsChild(g, top)
  BY <1>1, <1>2, <1>4, <1>5 DEF Under, IsChild
<1> QED BY <1>3, <1>6 DEF ChildFs

-----------------------------------------------------------------------------
(* The kernel operations keep a pool a pool.                               *)
LEMMA CreateKeeps ==
  ASSUME NEW n, IsPool(n), NEW f \in Paths, CanCreate(n, f), NEW t \in Nat, NEW o \in Nat
  PROVE  /\ IsPool(Create(n, f, t, o))
         /\ FSet(Create(n, f, t, o)) = FSet(n) \cup {f}
         /\ Create(n, f, t, o).snap = n.snap
         /\ Create(n, f, t, o).fs[f].born = t
         /\ \A g \in FSet(n) : Create(n, f, t, o).fs[g] = n.fs[g]
<1> DEFINE m == Create(n, f, t, o)
<1>1. /\ m = [fs |-> m.fs, snap |-> m.snap]
      /\ m.fs = [g \in FSet(n) \cup {f} |-> IF g = f THEN [born |-> t, origin |-> o] ELSE n.fs[g]]
      /\ m.snap = n.snap
  BY DEF Create
<1>2. f \notin FSet(n) /\ \E q \in FSet(n) : IsChild(f, q)
  BY DEF CanCreate
<1> HIDE DEF m
<1>3. FSet(m) = FSet(n) \cup {f} /\ Ids(m) = Ids(n)
  BY <1>1 DEF FSet, Ids
<1>4. m.fs \in [FSet(m) -> [born : Nat, origin : Nat]]
  BY <1>1, <1>3 DEF IsPool
<1>5. m.snap \in [Ids(m) -> [of : FSet(m), name : SnapNames]]
  BY <1>1, <1>3 DEF IsPool
<1>6. ASSUME NEW g \in FSet(m), NEW k \in 1..Len(g) PROVE SubSeq(g, 1, k) \in FSet(m)
  <2>1. CASE g \in FSet(n)
    BY <1>3, <2>1 DEF IsPool
  <2>2. CASE g = f
    <3>1. PICK q \in FSet(n) : IsChild(f, q)
      BY <1>2
    <3>2. q \in Seq(STRING) /\ f \in Seq(STRING) /\ Len(f) = Len(q) + 1 /\ \A i \in 1..Len(q) : f[i] = q[i]
      BY <3>1, NamesAssumption DEF IsPool, IsChild, Under
    <3>3. CASE k = Len(f)
      <4>1. SubSeq(f, 1, Len(f)) = f
        BY <3>2
      <4> QED BY <1>3, <2>2, <3>3, <4>1
    <3>4. CASE k # Len(f)
      <4>1. k \in 1..Len(q)
        BY <2>2, <3>2, <3>4
      <4>2. SubSeq(f, 1, k) = SubSeq(q, 1, k)
        BY <3>2, <4>1
      <4> QED BY <1>3, <2>2, <4>1, <4>2 DEF IsPool
    <3> QED BY <3>3, <3>4
  <2> QED BY <1>3, <2>1, <2>2
<1>7. IsPool(m)
  BY <1>1, <1>3, <1>4, <1>5, <1>6 DEF IsPool
<1> QED BY <1>1, <1>2, <1>3, <1>7 DEF m

LEMMA SnapshotKeeps ==
  ASSUME NEW n, IsPool(n), NEW f \in FSet(n), NEW s \in SnapNames, CanSnapshot(n, f, s),
         NEW t \in Nat, t \notin Ids(n)
  PROVE  /\ IsPool(Snapshot(n, f, s, t))
         /\ Ids(Snapshot(n, f, s, t)) = Ids(n) \cup {t}
         /\ Snapshot(n, f, s, t).fs = n.fs
         /\ \A i \in Ids(n) : Snapshot(n, f, s, t).snap[i] = n.snap[i]
<1> DEFINE m == Snapshot(n, f, s, t)
<1>1. /\ m = [fs |-> m.fs, snap |-> m.snap]
      /\ m.snap = [i \in Ids(n) \cup {t} |-> IF i = t THEN [of |-> f, name |-> s] ELSE n.snap[i]]
      /\ m.fs = n.fs
  BY DEF Snapshot
<1> HIDE DEF m
<1>2. FSet(m) = FSet(n) /\ Ids(m) = Ids(n) \cup {t}
  BY <1>1 DEF FSet, Ids
<1>3. \A i \in Ids(n) : n.snap[i] \in [of : FSet(n), name : SnapNames] /\ n.snap[i] # [of |-> f, name |-> s]
  <2>1. \A i \in Ids(n) : n.snap[i] \in [of : FSet(n), name : SnapNames]
    BY DEF IsPool
  <2>2. \A i \in Ids(n) : ~(n.snap[i].of = f /\ n.snap[i].name = s)
    BY DEF CanSnapshot, Holding, SnapsOf
  <2> QED BY <2>1, <2>2
<1>4. m.snap \in [Ids(m) -> [of : FSet(m), name : SnapNames]]
  BY <1>1, <1>2, <1>3
<1>5. \A i, j \in Ids(m) : m.snap[i] = m.snap[j] => i = j
  BY <1>1, <1>2, <1>3 DEF IsPool
<1>6. IsPool(m)
  BY <1>1, <1>2, <1>4, <1>5 DEF IsPool
<1> QED BY <1>1, <1>2, <1>6 DEF m

LEMMA DestroyFsKeeps ==
  ASSUME NEW n, IsPool(n), NEW f \in Paths, CanDestroyFs(n, f)
  PROVE  /\ IsPool(DestroyFs(n, f))
         /\ FSet(DestroyFs(n, f)) = FSet(n) \ {f}
         /\ DestroyFs(n, f).snap = n.snap
         /\ \A g \in FSet(n) \ {f} : DestroyFs(n, f).fs[g] = n.fs[g]
<1> DEFINE m == DestroyFs(n, f)
<1>1. /\ m = [fs |-> m.fs, snap |-> m.snap]
      /\ m.fs = [g \in FSet(n) \ {f} |-> n.fs[g]]
      /\ m.snap = n.snap
  BY DEF DestroyFs
<1> HIDE DEF m
<1>2. FSet(m) = FSet(n) \ {f} /\ Ids(m) = Ids(n)
  BY <1>1 DEF FSet, Ids
<1>3. m.fs \in [FSet(m) -> [born : Nat, origin : Nat]]
  BY <1>1, <1>2 DEF IsPool
<1>4. \A i \in Ids(n) : n.snap[i] \in [of : FSet(m), name : SnapNames]
  BY <1>2 DEF IsPool, CanDestroyFs, SnapsOf
<1>5. m.snap \in [Ids(m) -> [of : FSet(m), name : SnapNames]]
  BY <1>1, <1>2, <1>4 DEF IsPool
<1>6. ASSUME NEW g \in FSet(m), NEW k \in 1..Len(g) PROVE SubSeq(g, 1, k) \in FSet(m)
  <2>1. SubSeq(g, 1, k) \in FSet(n) /\ g \in FSet(n) /\ g # f
    BY <1>2 DEF IsPool
  <2>2. g \in Seq(STRING)
    BY <2>1, NamesAssumption DEF IsPool
  <2>3. ASSUME SubSeq(g, 1, k) = f PROVE FALSE
    <3>1. Under(g, f)
      BY <2>2, <2>3 DEF Under
    <3>2. ChildFs(n, f) # {}
      BY <2>1, <3>1, ChildOnTheWay
    <3> QED BY <2>1, <2>3, <3>2 DEF CanDestroyFs
  <2> QED BY <1>2, <2>1, <2>3
<1>7. IsPool(m)
  BY <1>1, <1>2, <1>3, <1>5, <1>6 DEF IsPool
<1> QED BY <1>1, <1>2, <1>7 DEF m

LEMMA DestroySnapKeeps ==
  ASSUME NEW n, IsPool(n), NEW f, NEW s
  PROVE  /\ IsPool(DestroySnap(n, f, s))
         /\ Ids(DestroySnap(n, f, s)) = Ids(n) \ Holding(n, f, s)
         /\ DestroySnap(n, f, s).fs = n.fs
         /\ \A i \in Ids(n) \ Holding(n, f, s) : DestroySnap(n, f, s).snap[i] = n.snap[i]
<1> DEFINE m == DestroySnap(n, f, s)
<1>1. /\ m = [fs |-> m.fs, snap |-> m.snap]
      /\ m.snap = [i \in Ids(n) \ Holding(n, f, s) |-> n.snap[i]]
      /\ m.fs = n.fs
  BY DEF DestroySnap
<1> HIDE DEF m
<1>2. FSet(m) = FSet(n) /\ Ids(m) = Ids(n) \ Holding(n, f, s)
  BY <1>1 DEF FSet, Ids
<1>3. IsPool(m)
  BY <1>1, <1>2 DEF IsPool
<1> QED BY <1>1, <1>2, <1>3 DEF m

-----------------------------------------------------------------------------
(* The stack.                                                              *)
LEMMA Push ==
  ASSUME NEW S, NEW x \in S, NEW s \in Seq(S)
  PROVE  /\ <<x>> \o s \in Seq(S)
         /\ Len(<<x>> \o s) = Len(s) + 1
         /\ (<<x>> \o s)[1] = x
         /\ \A j \in 2..Len(s) + 1 : (<<x>> \o s)[j] = s[j - 1]
OBVIOUS

LEMMA Pop ==
  ASSUME NEW S, NEW s \in Seq(S), s # <<>>
  PROVE  /\ Tail(s) \in Seq(S)
         /\ Len(Tail(s)) = Len(s) - 1
         /\ \A j \in 1..Len(s) - 1 : Tail(s)[j] = s[j + 1]
OBVIOUS

LEMMA NonEmpty ==
  ASSUME NEW S, NEW s \in Seq(S)
  PROVE  /\ Len(s) \in Nat
         /\ s # <<>> <=> Len(s) >= 1
BY EmptySeq

LEMMA OneOrMore == ASSUME NEW m \in Nat, m >= 1 PROVE m > 1 \/ m = 1
OBVIOUS

LEMMA NotOne == ASSUME NEW m \in Nat, NEW k \in Nat, m = 1, k = m - 1 PROVE ~(k >= 1)
OBVIOUS

LEMMA Fixed == [Next]_vars => target' = target /\ view' = view
BY DEF Next, vars, Client, DatasetCreate, DatasetSnapshot, Clone, ClientActs, Step, EnterFs, OpenParent,
       OpenFails, Descend, SkipMissing, DestroyNode, DestroyFails, call

LEMMA NodeTypes ==
  ASSUME NEW d \in Nodes
  PROVE  d.of \in Seq(STRING) /\ d.of # <<>> /\ d.of \in Paths /\ d = [of |-> d.of, name |-> d.name]
BY NamesAssumption DEF Nodes

LEMMA KidInScope ==
  ASSUME NEW d \in Nodes, NEW e \in Nodes, target \in Nodes, InScope(e), KidOf(d, e)
  PROVE  InScope(d) /\ Inner(d)
<1>1. d.of \in Seq(STRING) /\ e.of \in Seq(STRING) /\ target.of \in Seq(STRING)
  BY NodeTypes
<1>2. Under(d.of, e.of)
  BY <1>1, UnderReflexive DEF KidOf, IsChild
<1>3. Under(d.of, target.of) /\ Len(e.of) >= Len(target.of)
  BY <1>1, <1>2, UnderTransitive DEF InScope, Under
<1>4. IsSnap(target) => d.name = target.name
  BY DEF InScope, KidOf, IsSnap
<1>5. Inner(d)
  BY <1>1, <1>3 DEF InScope, Inner, KidOf, IsSnap, IsChild
<1> QED BY <1>3, <1>4, <1>5 DEF InScope

(* The children an activation is to visit are children of its node.        *)
LEMMA TreeKidsAreKids ==
  ASSUME NEW e \in Nodes, IsPool(view), ~IsSnap(e), NEW d \in TreeKids(e.of)
  PROVE  KidOf(d, e)
<1>1. CASE \E g \in ChildFs(view, e.of) : d = Fs(g)
  BY <1>1 DEF KidOf, Nodes, Fs, IsSnap, ChildFs, IsPool
<1>2. CASE \E n \in NamesOf(view, e.of) : d = Snap(e.of, n)
  <2>1. PICK n \in NamesOf(view, e.of) : d = Snap(e.of, n)
    BY <1>2
  <2>2. n \in SnapNames
    BY DEF NamesOf, SnapsOf, IsPool
  <2> QED BY <2>1, <2>2, NamesAssumption DEF KidOf, Nodes, Snap, IsSnap
<1> QED BY <1>1, <1>2 DEF TreeKids

LEMMA SameNameAreKids ==
  ASSUME IsPool(ns), Node \in Nodes, IsSnap(Node), NEW d \in SameName
  PROVE  KidOf(d, Node)
<1>1. PICK g \in ChildFs(ns, Node.of) : d = Snap(g, Node.name)
  BY DEF SameName
<1>2. g \in Paths /\ IsChild(g, Node.of)
  BY DEF ChildFs, IsPool
<1> QED BY <1>1, <1>2 DEF KidOf, Nodes, Snap, IsSnap

(* What the steps make of the stack.                                       *)
Changed(frame) == stack' = [stack EXCEPT ![1] = frame]

LEMMA Tops ==
  ASSUME IInv, status = "running"
  PROVE  /\ Len(stack) \in Nat /\ Len(stack) >= 1
         /\ stack[1] \in Frames /\ Node \in Nodes /\ InScope(Node)
         /\ \A d \in stack[1].kids : KidOf(d, Node)
<1>1. stack \in Seq(Frames) /\ stack # <<>>
  BY DEF IInv, StackOK
<1>2. Len(stack) \in Nat /\ Len(stack) >= 1 /\ stack[1] \in Frames
  BY <1>1
<1>3. Node \in Nodes
  BY <1>2 DEF Frames, Node
<1> QED BY <1>2, <1>3 DEF IInv, StackOK, Node

LEMMA KidsExcept ==
  ASSUME NEW f \in Frames, NEW K
  PROVE  [f EXCEPT !.kids = K] = [node |-> f.node, pc |-> f.pc, kids |-> K]
<1>1. PICK d, q, C : f = [node |-> d, pc |-> q, kids |-> C]
  BY DEF Frames
<1> QED BY <1>1

LEMMA PcExcept ==
  ASSUME NEW f \in Frames, NEW g, g = [f EXCEPT !.pc = "children"]
  PROVE  g \in Frames /\ g.node = f.node /\ g.pc = "children"
BY DEF Frames

LEMMA EnteredForm ==
  ASSUME IInv, status = "running", NEW K, Entered(K)
  PROVE  Changed([node |-> Node, pc |-> "children", kids |-> K])
<1>1. stack \in Seq(Frames) /\ 1 \in DOMAIN stack /\ stack[1] \in Frames
  BY Tops DEF IInv, StackOK
<1> DEFINE new == [node |-> Node, pc |-> "children", kids |-> K]
           mid == [stack EXCEPT ![1].pc = "children"]
<1>3. stack' = [mid EXCEPT ![1].kids = K]
  BY DEF Entered
<1>4. DOMAIN mid = DOMAIN stack /\ mid[1] = [stack[1] EXCEPT !.pc = "children"]
      /\ \A j \in DOMAIN stack : j # 1 => mid[j] = stack[j]
  BY <1>1
<1> HIDE DEF mid
<1>5. [mid[1] EXCEPT !.kids = K] = new
  <2>1. mid[1] \in Frames /\ mid[1].node = Node /\ mid[1].pc = "children"
    BY <1>1, <1>4, PcExcept DEF Node
  <2> QED BY <2>1, KidsExcept
<1> HIDE DEF new
<1>6. stack' = [mid EXCEPT ![1] = new]
  BY <1>3, <1>5
<1>7. stack' = [stack EXCEPT ![1] = new]
  BY <1>1, <1>4, <1>6 DEF mid
<1> QED BY <1>7 DEF Changed, new

LEMMA RestForm ==
  ASSUME IInv, status = "running", NEW k
  PROVE  Rest(k) = [stack EXCEPT ![1] = [node |-> Node, pc |-> stack[1].pc, kids |-> stack[1].kids \ {k}]]
<1>1. [stack[1] EXCEPT !.kids = stack[1].kids \ {k}]
        = [node |-> Node, pc |-> stack[1].pc, kids |-> stack[1].kids \ {k}]
  BY Tops, KidsExcept DEF Node
<1> QED BY <1>1 DEF Rest

LEMMA ChangedShape ==
  ASSUME IInv, status = "running", NEW f \in Frames, Changed(f)
  PROVE  /\ stack' \in Seq(Frames) /\ Len(stack') = Len(stack) /\ stack' # <<>>
         /\ stack'[1] = f /\ \A k \in 1..Len(stack) : k # 1 => stack'[k] = stack[k]
<1>1. stack \in Seq(Frames) /\ 1 \in 1..Len(stack) /\ Len(stack) \in Nat
  BY Tops DEF IInv, StackOK
<1> QED BY <1>1 DEF Changed

LEMMA ReturnedShape ==
  ASSUME IInv, status = "running", stack' = Tail(stack)
  PROVE  /\ stack' \in Seq(Frames) /\ Len(stack') = Len(stack) - 1
         /\ \A j \in 1..Len(stack') : stack'[j] = stack[j + 1] /\ j + 1 \in 1..Len(stack)
<1>1. stack \in Seq(Frames) /\ stack # <<>> /\ Len(stack) \in Nat
  BY Tops DEF IInv, StackOK
<1>2. /\ Tail(stack) \in Seq(Frames) /\ Len(Tail(stack)) = Len(stack) - 1
      /\ \A j \in 1..Len(stack) - 1 : Tail(stack)[j] = stack[j + 1]
  BY <1>1, Pop
<1> QED BY <1>1, <1>2

LEMMA DescendedShape ==
  ASSUME IInv, status = "running", NEW d \in Nodes, stack' = <<Frame(d)>> \o Rest(d)
  PROVE  /\ stack' \in Seq(Frames) /\ Len(stack') = Len(stack) + 1
         /\ stack'[1] = Frame(d)
         /\ stack'[2] = [node |-> Node, pc |-> stack[1].pc, kids |-> stack[1].kids \ {d}]
         /\ \A j \in 3..Len(stack) + 1 : stack'[j] = stack[j - 1]
<1>1. stack \in Seq(Frames) /\ Len(stack) \in Nat /\ Len(stack) >= 1
  BY Tops DEF IInv, StackOK
<1> DEFINE top == [node |-> Node, pc |-> stack[1].pc, kids |-> stack[1].kids \ {d}]
           rest == Rest(d)
<1>2. Frame(d) \in Frames /\ top \in Frames
  BY Tops DEF Frames, Frame
<1>3. rest = [stack EXCEPT ![1] = top]
  BY RestForm
<1> HIDE DEF top, rest
<1>4. /\ rest \in Seq(Frames) /\ Len(rest) = Len(stack) /\ rest[1] = top
      /\ \A k \in 1..Len(stack) : k # 1 => rest[k] = stack[k]
  BY <1>1, <1>2, <1>3
<1>5. stack' = <<Frame(d)>> \o rest
  BY DEF rest
<1>6. /\ <<Frame(d)>> \o rest \in Seq(Frames)
      /\ Len(<<Frame(d)>> \o rest) = Len(rest) + 1
      /\ (<<Frame(d)>> \o rest)[1] = Frame(d)
      /\ \A j \in 2..Len(rest) + 1 : (<<Frame(d)>> \o rest)[j] = rest[j - 1]
  <2> HIDE DEF Frame
  <2> QED BY <1>2, <1>4, Push
<1>7. \A j \in 2..Len(stack) + 1 : stack'[j] = rest[j - 1]
  BY <1>4, <1>5, <1>6
<1>8. stack'[2] = top
  <2>1. 2 \in 2..Len(stack) + 1 /\ 2 - 1 = 1
    BY <1>1
  <2>2. stack'[2] = rest[2 - 1]
    BY <1>7, <2>1
  <2> QED BY <1>4, <2>1, <2>2
<1>9. ASSUME NEW j \in 3..Len(stack) + 1 PROVE stack'[j] = stack[j - 1]
  <2>1. j \in 2..Len(stack) + 1 /\ j - 1 \in 1..Len(stack) /\ j - 1 # 1
    BY <1>1
  <2> QED BY <1>4, <1>7, <2>1
<1> QED BY <1>4, <1>5, <1>6, <1>8, <1>9 DEF top

(* Each kind of change leaves the stack in order.                          *)
InOrder(s) ==
  /\ s \in Seq(Frames)
  /\ s # <<>> => s[Len(s)].node = target
  /\ \A k \in 1..Len(s) : InScope(s[k].node) /\ \A d \in s[k].kids : KidOf(d, s[k].node)
  /\ \A k \in 1..Len(s) : k < Len(s) => Inner(s[k].node)

LEMMA StackOrder ==
  /\ StackOK => InOrder(stack)
  /\ target' = target /\ InOrder(stack') /\ (status' = "running" <=> stack' # <<>>) => StackOK'
BY DEF StackOK, InOrder, InScope, Inner

LEMMA StackChanged ==
  ASSUME IInv, status = "running", status' = "running", target' = target,
         NEW f \in Frames, f.node = Node, \A d \in f.kids : KidOf(d, Node), Changed(f)
  PROVE  StackOK'
<1>1. InOrder(stack) /\ stack \in Seq(Frames) /\ 1 \in 1..Len(stack) /\ Len(stack) \in Nat
  BY Tops, StackOrder DEF IInv, InOrder
<1>2. /\ stack' \in Seq(Frames) /\ Len(stack') = Len(stack) /\ stack' # <<>>
      /\ stack'[1] = f /\ \A k \in 1..Len(stack) : k # 1 => stack'[k] = stack[k]
  BY ChangedShape
<1>3. \A k \in 1..Len(stack) : stack'[k].node = stack[k].node
  BY <1>2 DEF Node
<1>4. stack # <<>>
  BY <1>1
<1>5. stack'[Len(stack')].node = target
  BY <1>1, <1>2, <1>3, <1>4 DEF InOrder
<1>6. \A k \in 1..Len(stack') : \A d \in stack'[k].kids : KidOf(d, stack'[k].node)
  BY <1>1, <1>2 DEF InOrder
<1>7. InOrder(stack')
  BY <1>1, <1>2, <1>3, <1>5, <1>6 DEF InOrder
<1> QED BY <1>2, <1>7, StackOrder

LEMMA StackReturned ==
  ASSUME IInv, status = "running", target' = target, NEW o \in {"nil", "error"}, Return(o)
  PROVE  StackOK'
<1>1. /\ InOrder(stack) /\ stack \in Seq(Frames) /\ stack # <<>>
      /\ Len(stack) \in Nat /\ Len(stack) >= 1
  BY Tops, StackOrder DEF IInv, StackOK, InOrder
<1>2. /\ Tail(stack) \in Seq(Frames) /\ Len(Tail(stack)) = Len(stack) - 1
      /\ \A j \in 1..Len(stack) - 1 : Tail(stack)[j] = stack[j + 1]
  BY <1>1, Pop
<1>3. CASE stack' = <<>> /\ status' # "running"
  BY <1>3, StackOrder DEF InOrder
<1>4. CASE stack' = Tail(stack) /\ Len(stack) > 1 /\ status' = "running"
  <2>1. /\ stack' \in Seq(Frames) /\ Len(stack') = Len(stack) - 1
        /\ \A j \in 1..Len(stack') : stack'[j] = stack[j + 1] /\ j + 1 \in 1..Len(stack)
    BY <1>4, ReturnedShape
  <2>2. stack' # <<>>
    <3>1. Len(stack') >= 1
      BY <1>1, <1>4, <2>1
    <3> QED BY <2>1, <3>1, NonEmpty
  <2>3. stack'[Len(stack')].node = target
    BY <1>1, <1>4, <2>1 DEF InOrder
  <2>4. InOrder(stack')
    <3>1. \A k \in 1..Len(stack') : k < Len(stack') => k + 1 < Len(stack)
      BY <1>1, <2>1
    <3>2. \A k \in 1..Len(stack') : /\ InScope(stack'[k].node)
                                    /\ \A d \in stack'[k].kids : KidOf(d, stack'[k].node)
      BY <1>1, <2>1 DEF InOrder
    <3>3. \A k \in 1..Len(stack') : k < Len(stack') => Inner(stack'[k].node)
      BY <1>1, <2>1, <3>1 DEF InOrder
    <3> QED BY <2>1, <2>3, <3>2, <3>3 DEF InOrder
  <2> QED BY <1>4, <2>2, <2>4, StackOrder
<1>5. Len(stack) = 1 => Tail(stack) = <<>>
  <2>1. Len(Tail(stack)) = Len(stack) - 1
    BY <1>2
  <2>2. Len(stack) \in Nat /\ Len(Tail(stack)) \in Nat
    BY <1>1, <1>2, NonEmpty
  <2>3. Len(stack) = 1 => ~(Len(Tail(stack)) >= 1)
    BY <2>1, <2>2, NotOne
  <2> QED BY <1>2, <2>3, NonEmpty
<1>6. CASE o = "error"
  BY <1>3, <1>6 DEF Return
<1>7. CASE o = "nil" /\ Len(stack) > 1
  BY <1>4, <1>7 DEF Return
<1>8. CASE o = "nil" /\ Len(stack) = 1
  BY <1>3, <1>5, <1>8 DEF Return
<1>9. Len(stack) > 1 \/ Len(stack) = 1
  <2>1. Len(stack) \in Nat /\ Len(stack) >= 1
    BY Tops
  <2> QED BY <2>1, OneOrMore
<1> QED BY <1>6, <1>7, <1>8, <1>9

LEMMA StackDescended ==
  ASSUME IInv, status = "running", status' = "running", target' = target, target \in Nodes,
         NEW d \in stack[1].kids, stack' = <<Frame(d)>> \o Rest(d)
  PROVE  StackOK'
<1>1. /\ InOrder(stack) /\ stack \in Seq(Frames) /\ stack # <<>>
      /\ Len(stack) \in Nat /\ Len(stack) >= 1
  BY Tops, StackOrder DEF IInv, StackOK, InOrder
<1> DEFINE top == [node |-> Node, pc |-> stack[1].pc, kids |-> stack[1].kids \ {d}]
<1>2. d \in Nodes /\ InScope(d) /\ Inner(d)
  BY Tops, KidInScope DEF Frames
<1>3. Frame(d).node = d /\ Frame(d).kids = {}
  BY DEF Frame
<1>4. top.node = stack[1].node /\ top.kids \subseteq stack[1].kids
  BY DEF Node
<1> HIDE DEF top
<1>8. /\ stack' \in Seq(Frames) /\ Len(stack') = Len(stack) + 1
      /\ stack'[1] = Frame(d) /\ stack'[2] = top
      /\ \A j \in 3..Len(stack) + 1 : stack'[j] = stack[j - 1]
  BY <1>2, DescendedShape DEF top
<1>9. ASSUME NEW j \in 2..Len(stack) + 1
      PROVE  /\ j - 1 \in 1..Len(stack)
             /\ stack'[j].node = stack[j - 1].node
             /\ stack'[j].kids \subseteq stack[j - 1].kids
  <2>1. j - 1 \in 1..Len(stack)
    BY <1>1
  <2>2. CASE j = 2
    BY <1>4, <1>8, <2>1, <2>2
  <2>3. CASE j # 2
    <3>1. j \in 3..Len(stack) + 1
      BY <1>1, <2>3
    <3> QED BY <1>8, <2>1, <3>1
  <2> QED BY <2>1, <2>2, <2>3
<1>10. stack' # <<>>
  BY <1>1, <1>8
<1>11. stack'[Len(stack')].node = target
  BY <1>1, <1>8, <1>9 DEF InOrder
<1>12. ASSUME NEW k \in 1..Len(stack')
       PROVE  /\ InScope(stack'[k].node) /\ \A e \in stack'[k].kids : KidOf(e, stack'[k].node)
              /\ k < Len(stack') => Inner(stack'[k].node)
  <2>1. CASE k = 1
    BY <1>2, <1>3, <1>8, <2>1
  <2>2. CASE k # 1
    <3>1. k \in 2..Len(stack) + 1 /\ (k < Len(stack') => k - 1 < Len(stack))
      BY <1>1, <1>8, <2>2
    <3> QED BY <1>1, <1>9, <3>1 DEF InOrder
  <2> QED BY <2>1, <2>2
<1>13. InOrder(stack')
  BY <1>8, <1>11, <1>12 DEF InOrder
<1> QED BY <1>10, <1>13, StackOrder

LEMMA StackStep == IInv /\ [Next]_vars => StackOK'
<1> SUFFICES ASSUME IInv, [Next]_vars PROVE StackOK'
  OBVIOUS
<1>1. target' = target /\ target \in Nodes /\ IsPool(ns) /\ IsPool(view)
  BY Fixed, NamesAssumption, PoolsAssumption DEF IInv
<1>2. CASE UNCHANGED <<stack, status>>
  BY <1>1, <1>2 DEF IInv, StackOK, InScope, Inner
<1>3. CASE Client \/ UNCHANGED vars
  BY <1>2, <1>3 DEF Client, DatasetCreate, DatasetSnapshot, Clone, ClientActs, vars
<1>4. CASE status = "running" /\ Step
  <2> USE <1>4
  <2>1. CASE EnterFs
    <3>1. ~IsSnap(Node) /\ Entered(TreeKids(Node.of)) /\ status' = "running"
      BY <2>1 DEF EnterFs
    <3>2. \A d \in TreeKids(Node.of) : KidOf(d, Node) /\ d \in Nodes
      BY <1>1, <3>1, Tops, TreeKidsAreKids DEF KidOf
    <3> DEFINE f == [node |-> Node, pc |-> "children", kids |-> TreeKids(Node.of)]
    <3>3. f \in Frames /\ f.node = Node /\ f.kids = TreeKids(Node.of)
      BY <3>2, Tops DEF Frames
    <3>4. Changed(f)
      BY <3>1, EnteredForm
    <3> HIDE DEF f
    <3> QED BY <1>1, <3>1, <3>2, <3>3, <3>4, StackChanged
  <2>2. CASE OpenParent
    <3>1. IsSnap(Node) /\ Entered(SameName) /\ status' = "running"
      BY <2>2 DEF OpenParent
    <3>2. \A d \in SameName : KidOf(d, Node) /\ d \in Nodes
      BY <1>1, <3>1, Tops, SameNameAreKids DEF KidOf
    <3> DEFINE f == [node |-> Node, pc |-> "children", kids |-> SameName]
    <3>3. f \in Frames /\ f.node = Node /\ f.kids = SameName
      BY <3>2, Tops DEF Frames
    <3>4. Changed(f)
      BY <3>1, EnteredForm
    <3> HIDE DEF f
    <3> QED BY <1>1, <3>1, <3>2, <3>3, <3>4, StackChanged
  <2>3. CASE OpenFails \/ DestroyNode \/ DestroyFails
    BY <1>1, <2>3, StackReturned DEF OpenFails, DestroyNode, DestroyFails
  <2>4. ASSUME NEW d \in stack[1].kids, Descend(d) PROVE StackOK'
    BY <1>1, <2>4, StackDescended DEF Descend
  <2>5. ASSUME NEW d \in stack[1].kids, SkipMissing(d) PROVE StackOK'
    <3> DEFINE f == [node |-> Node, pc |-> stack[1].pc, kids |-> stack[1].kids \ {d}]
    <3>1. f \in Frames /\ f.node = Node /\ \A e \in f.kids : KidOf(e, Node)
      BY Tops DEF Frames
    <3>2. Changed(f) /\ status' = "running"
      BY <2>5, RestForm DEF Changed, SkipMissing
    <3> HIDE DEF f
    <3> QED BY <1>1, <3>1, <3>2, StackChanged
  <2> QED BY <2>1, <2>2, <2>3, <2>4, <2>5 DEF Step
<1> QED BY <1>3, <1>4 DEF Next

-----------------------------------------------------------------------------
(* What a change of the namespace leaves of the datasets of the view.      *)
StillOf(n) ==
  {FsItem(f) : f \in {g \in FSet(view) \cap FSet(n) : n.fs[g] = view.fs[g]}}
  \cup {SnapItem(i) : i \in Ids(view) \cap Ids(n)}

LEMMA StillIs == Still = StillOf(ns)
BY DEF Still, StillOf

LEMMA StillNext == view' = view => Still' = StillOf(ns')
BY DEF Still, StillOf, FsItem, SnapItem

LEMMA Items ==
  /\ \A f, g : FsItem(f) = FsItem(g) => f = g
  /\ \A i, j : SnapItem(i) = SnapItem(j) => i = j
  /\ \A f \in Paths : \A i : FsItem(f) # SnapItem(i)
BY NamesAssumption DEF FsItem, SnapItem, NoName

LEMMA ViewFacts ==
  ASSUME IInv
  PROVE  IsPool(view) /\ UpTo(view, FirstTxg) /\ target \in Nodes /\ target.of \in FSet(view)
BY PoolsAssumption, NamesAssumption DEF IInv, Exists

(* A snapshot of the view that exists is as it was.                        *)
LEMMA KeptSnap ==
  ASSUME IInv
  PROVE  \A i \in Ids(view) \cap Ids(ns) : ns.snap[i] = view.snap[i]
<1>1. Kept(ns) /\ \A i \in Ids(view) : i \in Nat /\ i <= FirstTxg
  BY ViewFacts DEF IInv, UpTo, IsPool
<1> QED BY <1>1 DEF Kept

(* What a client adds is younger than the view.                            *)
LEMMA ClientStep ==
  ASSUME IInv, Client
  PROVE  /\ IsPool(ns') /\ UpTo(ns', txg') /\ Kept(ns)'
         /\ txg' \in Nat /\ FirstTxg < txg'
         /\ FSet(ns) \subseteq FSet(ns')
         /\ Still' = Still
         /\ UNCHANGED <<target, view, status, stack, faults>>
<1>1. /\ IsPool(ns) /\ UpTo(ns, txg) /\ Kept(ns) /\ txg \in Nat /\ FirstTxg <= txg
      /\ IsPool(view) /\ UpTo(view, FirstTxg)
  BY ViewFacts DEF IInv
<1>2. txg' = txg + 1 /\ UNCHANGED <<target, view, status, stack, faults>>
  BY DEF Client, DatasetCreate, DatasetSnapshot, Clone, ClientActs
<1>3. txg' \in Nat /\ FirstTxg < txg'
  BY <1>1, <1>2
<1>4. \A f \in FSet(view) : view.fs[f].born \in Nat /\ view.fs[f].born <= FirstTxg
  BY <1>1 DEF UpTo, IsPool
<1>5. \A i \in Ids(view) : i \in Nat /\ i <= FirstTxg
  BY <1>1 DEF UpTo, IsPool
<1>6. \A f \in FSet(ns) : ns.fs[f].born \in Nat /\ ns.fs[f].born <= txg
  BY <1>1 DEF UpTo, IsPool
<1>7. \A i \in Ids(ns) : i \in Nat /\ i <= txg
  BY <1>1 DEF UpTo, IsPool
<1>8. ASSUME NEW f \in Paths, NEW o \in Nat, CanCreate(ns, f), ns' = Create(ns, f, txg + 1, o)
      PROVE  IsPool(ns') /\ UpTo(ns', txg') /\ Kept(ns)' /\ FSet(ns) \subseteq FSet(ns') /\ Still' = Still
  <2>1. /\ IsPool(ns') /\ FSet(ns') = FSet(ns) \cup {f} /\ ns'.snap = ns.snap
        /\ ns'.fs[f].born = txg' /\ \A g \in FSet(ns) : ns'.fs[g] = ns.fs[g]
    BY <1>1, <1>2, <1>3, <1>8, CreateKeeps
  <2>2. f \notin FSet(ns)
    BY <1>8 DEF CanCreate
  <2>3. Ids(ns') = Ids(ns)
    BY <2>1 DEF Ids
  <2>4. UpTo(ns', txg')
    BY <1>1, <1>2, <1>6, <1>7, <2>1, <2>3 DEF UpTo
  <2>5. Kept(ns)'
    BY <1>1, <1>2, <1>3, <2>1, <2>3 DEF Kept
  <2>6. f \in FSet(view) => ns'.fs[f] # view.fs[f]
    BY <1>3, <1>4, <2>1
  <2>7. {g \in FSet(view) \cap FSet(ns') : ns'.fs[g] = view.fs[g]}
          = {g \in FSet(view) \cap FSet(ns) : ns.fs[g] = view.fs[g]}
    BY <2>1, <2>2, <2>6
  <2>8. StillOf(ns') = StillOf(ns)
    BY <2>3, <2>7 DEF StillOf
  <2> QED BY <1>2, <2>1, <2>4, <2>5, <2>8, StillIs, StillNext
<1>9. ASSUME NEW f \in FSet(ns), NEW n \in SnapNames, DatasetSnapshot(f, n)
      PROVE  IsPool(ns') /\ UpTo(ns', txg') /\ Kept(ns)' /\ FSet(ns) \subseteq FSet(ns') /\ Still' = Still
  <2>1. CanSnapshot(ns, f, n) /\ ns' = Snapshot(ns, f, n, txg') /\ txg' \notin Ids(ns)
    BY <1>1, <1>2, <1>7, <1>9 DEF DatasetSnapshot, ClientActs
  <2>2. /\ IsPool(ns') /\ Ids(ns') = Ids(ns) \cup {txg'} /\ ns'.fs = ns.fs
        /\ \A i \in Ids(ns) : ns'.snap[i] = ns.snap[i]
    BY <1>1, <1>3, <2>1, SnapshotKeeps
  <2>3. FSet(ns') = FSet(ns)
    BY <2>2 DEF FSet
  <2>4. UpTo(ns', txg')
    BY <1>1, <1>2, <1>6, <1>7, <2>2, <2>3 DEF UpTo
  <2>5. Kept(ns)'
    BY <1>1, <1>2, <1>3, <2>2, <2>3 DEF Kept
  <2>6. Ids(view) \cap Ids(ns') = Ids(view) \cap Ids(ns)
    BY <1>3, <1>5, <2>2
  <2>7. StillOf(ns') = StillOf(ns)
    BY <2>2, <2>3, <2>6 DEF StillOf
  <2> QED BY <1>2, <2>2, <2>3, <2>4, <2>5, <2>7, StillIs, StillNext
<1>10. CASE \E f \in Paths : DatasetCreate(f)
  BY <1>2, <1>3, <1>8, <1>10 DEF DatasetCreate, ClientActs, NoSnap
<1>11. CASE \E f \in FSet(ns), n \in SnapNames : DatasetSnapshot(f, n)
  BY <1>2, <1>3, <1>9, <1>11
<1>12. CASE \E i \in Ids(ns), f \in Paths : Clone(i, f)
  BY <1>2, <1>3, <1>7, <1>8, <1>12 DEF Clone, ClientActs
<1> QED BY <1>10, <1>11, <1>12 DEF Client

(* What the destruction of a node takes away, and that it takes nothing    *)
(* else.                                                                   *)
Removed(d) ==
  IF IsSnap(d) THEN {SnapItem(i) : i \in Holding(ns, d.of, d.name)} ELSE {FsItem(d.of)}

LEMMA DestroyStep ==
  ASSUME IInv, status = "running", DestroyNode
  PROVE  /\ IsPool(ns') /\ UpTo(ns', txg') /\ Kept(ns)' /\ (IsSnap(target) => FSet(ns') = FSet(ns))
         /\ FSet(ns') \subseteq FSet(ns) /\ Ids(ns') \subseteq Ids(ns)
         /\ \A f \in FSet(ns') : ns'.fs[f] = ns.fs[f]
         /\ \A i \in Ids(ns') : ns'.snap[i] = ns.snap[i]
         /\ ~IsSnap(Node) => FSet(ns') = FSet(ns) \ {Node.of}
         /\ IsSnap(Node) => Ids(ns') = Ids(ns) \ Holding(ns, Node.of, Node.name)
         /\ Still' = Still \ Removed(Node)
         /\ UNCHANGED <<target, view, txg, faults>>
<1>1. /\ IsPool(ns) /\ UpTo(ns, txg) /\ Kept(ns) /\ Node \in Nodes /\ InScope(Node)
  BY Tops DEF IInv
<1>2. UNCHANGED <<target, view, txg, faults>>
  BY DEF DestroyNode, call
<1>3. CASE IsSnap(Node)
  <2>1. ns' = DestroySnap(ns, Node.of, Node.name)
    BY <1>3 DEF DestroyNode
  <2>2. /\ IsPool(ns') /\ Ids(ns') = Ids(ns) \ Holding(ns, Node.of, Node.name) /\ ns'.fs = ns.fs
        /\ \A i \in Ids(ns') : ns'.snap[i] = ns.snap[i]
    BY <1>1, <2>1, DestroySnapKeeps
  <2>3. FSet(ns') = FSet(ns)
    BY <2>2 DEF FSet
  <2>4. UpTo(ns', txg') /\ Kept(ns)'
    BY <1>1, <1>2, <2>2, <2>3 DEF UpTo, Kept
  <2>5. StillOf(ns') = StillOf(ns) \ {SnapItem(i) : i \in Holding(ns, Node.of, Node.name)}
    <3>1. \A f \in FSet(view) : \A i : FsItem(f) # SnapItem(i)
      BY Items, ViewFacts DEF IsPool
    <3> QED BY <2>2, <2>3, <3>1, Items DEF StillOf
  <2> QED BY <1>2, <1>3, <2>2, <2>3, <2>4, <2>5, StillIs, StillNext DEF Removed
<1>4. CASE ~IsSnap(Node)
  <2>1. ns' = DestroyFs(ns, Node.of) /\ CanDestroyFs(ns, Node.of) /\ Node.of \in Paths
    BY <1>1, <1>4, NodeTypes DEF DestroyNode, Destroyable
  <2>2. /\ IsPool(ns') /\ FSet(ns') = FSet(ns) \ {Node.of} /\ ns'.snap = ns.snap
        /\ \A f \in FSet(ns') : ns'.fs[f] = ns.fs[f]
    BY <1>1, <2>1, DestroyFsKeeps
  <2>3. Ids(ns') = Ids(ns)
    BY <2>2 DEF Ids
  <2>4. UpTo(ns', txg') /\ Kept(ns)'
    BY <1>1, <1>2, <2>2, <2>3 DEF UpTo, Kept
  <2>5. StillOf(ns') = StillOf(ns) \ {FsItem(Node.of)}
    BY <2>1, <2>2, <2>3, Items DEF StillOf
  <2>6. ~IsSnap(target)
    BY <1>1, <1>4 DEF InScope, IsSnap
  <2> QED BY <1>2, <1>4, <2>2, <2>3, <2>4, <2>5, <2>6, StillIs, StillNext DEF Removed
<1> QED BY <1>3, <1>4

LEMMA UniqueName ==
  ASSUME NEW n, IsPool(n), NEW f, NEW s
  PROVE  \A i, j \in Holding(n, f, s) : i = j
<1> TAKE i, j \in Holding(n, f, s)
<1>1. /\ i \in Ids(n) /\ j \in Ids(n)
      /\ n.snap[i].of = n.snap[j].of /\ n.snap[i].name = n.snap[j].name
  BY DEF Holding, SnapsOf
<1>2. n.snap[i] \in [of : FSet(n), name : SnapNames] /\ n.snap[j] \in [of : FSet(n), name : SnapNames]
  BY <1>1 DEF IsPool
<1>3. n.snap[i] = n.snap[j]
  BY <1>1, <1>2
<1> QED BY <1>1, <1>3 DEF IsPool

(* An inner activation takes at most one dataset, of the scope and not the *)
(* root.                                                                   *)
LEMMA InnerTakes ==
  ASSUME IInv, status = "running", InScope(Node), Inner(Node)
  PROVE  \/ Still \cap Removed(Node) = {}
         \/ \E x \in (Still \cap Concerned) \ {TheItem} : Still \cap Removed(Node) = {x}
<1>1. /\ IsPool(ns) /\ IsPool(view) /\ Node \in Nodes /\ target \in Nodes /\ Exists(view, target)
  BY Tops, ViewFacts DEF IInv
<1>2. CASE ~IsSnap(Node)
  <2>1. ~IsSnap(target) /\ Len(Node.of) > Len(target.of)
    BY <1>2 DEF InScope, Inner, IsSnap
  <2>2. Removed(Node) = {FsItem(Node.of)} /\ TheItem = FsItem(target.of)
    BY <1>2, <2>1 DEF Removed, TheItem
  <2>3. FsItem(Node.of) # FsItem(target.of)
    <3>1. Len(Node.of) \in Nat /\ Len(target.of) \in Nat
      BY <1>1, NodeTypes
    <3>2. Node.of # target.of
      BY <2>1, <3>1
    <3> QED BY <3>2, Items
  <2>4. ASSUME FsItem(Node.of) \in Still PROVE FsItem(Node.of) \in Concerned
    <3>1. Node.of \in FSet(view)
      BY <1>1, <2>4, NodeTypes, StillIs, Items DEF StillOf
    <3> QED BY <2>1, <3>1 DEF Concerned, Doomed, InScope
  <2> QED BY <2>2, <2>3, <2>4
<1>3. CASE IsSnap(Node)
  <2>1. Removed(Node) = {SnapItem(i) : i \in Holding(ns, Node.of, Node.name)}
    BY <1>3 DEF Removed
  <2>2. \A i, j \in Holding(ns, Node.of, Node.name) : i = j
    BY <1>1, UniqueName
  <2>3. ASSUME NEW i \in Holding(ns, Node.of, Node.name), SnapItem(i) \in Still
        PROVE  SnapItem(i) \in Concerned \ {TheItem}
    <3>1. i \in Ids(view)
      <4>1. \A f \in FSet(view) : FsItem(f) # SnapItem(i)
        BY <1>1, Items DEF IsPool
      <4> QED BY <2>3, <4>1, StillIs, Items DEF StillOf
    <3>2. i \in Ids(ns) /\ ns.snap[i].of = Node.of /\ ns.snap[i].name = Node.name
      BY DEF Holding, SnapsOf
    <3>3. view.snap[i].of = Node.of /\ view.snap[i].name = Node.name
      BY <3>1, <3>2, KeptSnap
    <3>4. SnapItem(i) \in Concerned
      BY <3>1, <3>3 DEF Concerned, DoomedSnap, InScope
    <3>5. CASE ~IsSnap(target)
      <4>1. TheItem = FsItem(target.of) /\ target.of \in Paths
        BY <1>1, <3>5, NodeTypes DEF TheItem
      <4> QED BY <3>4, <4>1, Items
    <3>6. CASE IsSnap(target)
      <4>1. PICK j \in Holding(view, target.of, target.name) : TheItem = SnapItem(j)
        BY <1>1, <3>6 DEF TheItem, Exists
      <4>2. view.snap[j].of = target.of
        BY <4>1 DEF Holding, SnapsOf
      <4>3. Len(Node.of) > Len(target.of) /\ Len(Node.of) \in Nat /\ Len(target.of) \in Nat
        BY <1>1, <3>6, NodeTypes DEF Inner
      <4>4. Node.of # target.of
        BY <4>3
      <4> QED BY <3>3, <3>4, <4>1, <4>2, <4>4, Items
    <3> QED BY <3>5, <3>6
  <2> QED BY <2>1, <2>2, <2>3
<1> QED BY <1>2, <1>3

(* The outermost activation takes the root, and, of a filesystem, last of  *)
(* all: a filesystem with something below it is not destroyed.             *)
LEMMA OuterTakes ==
  ASSUME IInv, status = "running", Len(stack) = 1, DestroyNode
  PROVE  /\ Still \cap Removed(Node) = {TheItem}
         /\ ~IsSnap(target) => Still \cap Concerned = {TheItem}
<1>1. /\ IsPool(ns) /\ IsPool(view) /\ target \in Nodes /\ Exists(view, target) /\ target.of \in Paths
      /\ TheItem \in Still
  BY ViewFacts, NodeTypes DEF IInv
<1>2. Node = target
  <2>1. stack # <<>> /\ stack[Len(stack)].node = target
    BY DEF IInv, StackOK
  <2> QED BY <2>1 DEF Node
<1>3. CASE IsSnap(target)
  <2>1. PICK j \in Holding(view, target.of, target.name) : TheItem = SnapItem(j)
    BY <1>1, <1>3 DEF TheItem, Exists
  <2>2. j \in Ids(view) /\ view.snap[j].of = target.of /\ view.snap[j].name = target.name
    BY <2>1 DEF Holding, SnapsOf
  <2>3. j \in Ids(ns)
    <3>1. \A f \in FSet(view) : FsItem(f) # SnapItem(j)
      BY <1>1, Items DEF IsPool
    <3> QED BY <1>1, <2>1, <3>1, StillIs, Items DEF StillOf
  <2>4. j \in Holding(ns, target.of, target.name)
    BY <2>2, <2>3, KeptSnap DEF Holding, SnapsOf
  <2>5. Holding(ns, target.of, target.name) = {j}
    BY <1>1, <2>4, UniqueName
  <2>6. Removed(Node) = {TheItem}
    BY <1>2, <1>3, <2>1, <2>5 DEF Removed
  <2> QED BY <1>1, <1>3, <2>6
<1>4. CASE ~IsSnap(target)
  <2>1. TheItem = FsItem(target.of) /\ Removed(Node) = {TheItem}
    BY <1>2, <1>4 DEF TheItem, Removed
  <2>2. target.of \in FSet(ns)
    BY <1>1, <2>1, StillIs, Items DEF StillOf
  <2>3. ChildFs(ns, target.of) = {} /\ SnapsOf(ns, target.of) = {}
    BY <1>2, <1>4, <2>2 DEF DestroyNode, Destroyable, CanDestroyFs
  <2>4. ASSUME NEW f \in FSet(ns), Under(f, target.of) PROVE f = target.of
    BY <1>1, <2>3, <2>4, ChildOnTheWay
  <2>5. ASSUME NEW f \in FSet(view), f \in FSet(ns), FsItem(f) \in Concerned PROVE FsItem(f) = TheItem
    <3>1. \A i : FsItem(f) # SnapItem(i)
      BY <1>1, Items DEF IsPool
    <3>2. Doomed(f)
      BY <2>5, <3>1, Items DEF Concerned
    <3> QED BY <2>1, <2>4, <2>5, <3>2 DEF Doomed
  <2>6. ASSUME NEW i \in Ids(view), i \in Ids(ns) PROVE SnapItem(i) \notin Concerned
    <3>1. \A f \in FSet(view) : FsItem(f) # SnapItem(i)
      BY <1>1, Items DEF IsPool
    <3>2. ns.snap[i] = view.snap[i] /\ ns.snap[i].of \in FSet(ns)
      BY <1>1, <2>6, KeptSnap DEF IsPool
    <3>3. ~DoomedSnap(i)
      BY <2>3, <2>4, <2>6, <3>2 DEF DoomedSnap, SnapsOf
    <3> QED BY <3>1, <3>3, Items DEF Concerned
  <2>7. TheItem \in Concerned
    <3>1. Doomed(target.of)
      BY <1>1, <1>4, NodeTypes, UnderReflexive DEF Doomed
    <3> QED BY <1>1, <2>1, <3>1, ViewFacts DEF Concerned
  <2>8. \A x \in Still \cap Concerned : x = TheItem
    BY <2>5, <2>6, StillIs DEF StillOf
  <2> QED BY <1>1, <2>1, <2>7, <2>8
<1> QED BY <1>3, <1>4

LEMMA SameScope ==
  target' = target /\ view' = view =>
    Concerned' = Concerned /\ TheItem' = TheItem /\ IsSnap(target)' = IsSnap(target)
BY DEF Concerned, TheItem, Doomed, DoomedSnap, FsItem, SnapItem

(* A step of the call or of a client is a step of the promise, or none.    *)
LEMMA PromiseStep ==
  ASSUME IInv, [Next]_vars
  PROVE  /\ [Abstract!Next]_(Abstract!vars)
         /\ status' = "running" => TheItem' \in Still'
<1>1. /\ target' = target /\ view' = view
      /\ Concerned' = Concerned /\ TheItem' = TheItem /\ IsSnap(target)' = IsSnap(target)
      /\ status = "running" => TheItem \in Still
  BY Fixed, SameScope DEF IInv
<1>2. CASE Still' = Still /\ status' = status
  BY <1>1, <1>2 DEF Abstract!vars
<1>3. CASE UNCHANGED <<ns, status>>
  BY <1>1, <1>2, <1>3, StillIs, StillNext DEF StillOf
<1>4. CASE Client
  BY <1>2, <1>4, ClientStep
<1>5. CASE UNCHANGED vars
  BY <1>3, <1>5 DEF vars
<1>6. CASE status = "running" /\ UNCHANGED ns /\ Return("error")
  <2>1. status' = "error" /\ Still' = Still
    BY <1>1, <1>6, StillIs, StillNext DEF Return, StillOf
  <2>2. Abstract!Fail
    BY <1>1, <1>6, <2>1 DEF Abstract!Fail
  <2> QED BY <2>1, <2>2 DEF Abstract!Next
<1>7. CASE status = "running" /\ DestroyNode
  <2>1. Still' = Still \ Removed(Node) /\ Return("nil")
    BY <1>7, DestroyStep DEF DestroyNode
  <2>2. CASE Len(stack) = 1
    <3>1. status' = "nil" /\ Still' = Still \ {TheItem}
      BY <1>7, <2>1, <2>2, OuterTakes DEF Return
    <3>2. ~IsSnap(target) => Still \cap Concerned = {TheItem}
      BY <1>7, <2>2, OuterTakes
    <3>3. Abstract!Succeed
      BY <1>1, <1>7, <3>1, <3>2 DEF Abstract!Succeed
    <3> QED BY <3>1, <3>3 DEF Abstract!Next
  <2>3. CASE Len(stack) > 1
    <3>1. status' = "running"
      BY <1>7, <2>1, <2>3 DEF Return
    <3>2. InScope(Node) /\ Inner(Node)
      <4>1. 1 \in 1..Len(stack)
        BY <1>7, Tops
      <4> QED BY <1>7, <2>3, <4>1, Tops DEF IInv, StackOK, Node
    <3>3. CASE Still \cap Removed(Node) = {}
      BY <1>2, <1>7, <2>1, <3>1, <3>3
    <3>4. CASE \E x \in (Still \cap Concerned) \ {TheItem} : Still \cap Removed(Node) = {x}
      <4>1. PICK x \in (Still \cap Concerned) \ {TheItem} : Still \cap Removed(Node) = {x}
        BY <3>4
      <4>2. Still' = Still \ {x}
        BY <2>1, <4>1
      <4>3. Abstract!Vanish(x)
        BY <1>1, <1>7, <3>1, <4>1, <4>2 DEF Abstract!Vanish
      <4> QED BY <1>1, <1>7, <4>1, <4>2, <4>3 DEF Abstract!Next
    <3> QED BY <1>7, <3>2, <3>3, <3>4, InnerTakes
  <2>4. Len(stack) > 1 \/ Len(stack) = 1
    BY <1>7, Tops, OneOrMore
  <2> QED BY <2>2, <2>3, <2>4
<1> QED BY <1>3, <1>4, <1>5, <1>6, <1>7
        DEF Next, Step, EnterFs, OpenParent, OpenFails, Descend, SkipMissing, DestroyFails

-----------------------------------------------------------------------------
(* The call by itself: no failure, no other client.                        *)
LEMMA AloneBefore ==
  ASSUME IInv, [Next]_vars, Alone'
  PROVE  /\ Alone /\ faults' = faults
         /\ ~Client /\ (status = "running" => ~OpenFails)
<1>1. txg \in Nat /\ FirstTxg <= txg /\ faults \in Nat /\ txg' = FirstTxg /\ faults' = 0
  BY DEF IInv, Alone
<1>2. ~Client
  BY <1>1, ClientStep
<1>3. txg' = txg /\ (faults' = faults \/ faults' = faults + 1)
  BY <1>2 DEF Next, vars, Step, EnterFs, OpenParent, OpenFails, Descend, SkipMissing, DestroyNode,
              DestroyFails, call
<1>4. faults = 0 /\ faults' = faults
  BY <1>1, <1>3
<1> QED BY <1>1, <1>2, <1>3, <1>4 DEF Alone, OpenFails

LEMMA AloneShrinks ==
  ASSUME IInv, Alone
  PROVE  /\ FSet(ns) \subseteq FSet(view) /\ Ids(ns) \subseteq Ids(view)
         /\ \A f \in FSet(ns) : ns.fs[f] = view.fs[f]
         /\ \A i \in Ids(ns) : ns.snap[i] = view.snap[i]
<1>1. Kept(ns) /\ UpTo(ns, FirstTxg) /\ IsPool(ns)
  BY DEF IInv, Alone
<1>2. \A i \in Ids(ns) : i \in Nat /\ ~(i > FirstTxg)
  BY <1>1 DEF UpTo, IsPool
<1>3. \A f \in FSet(ns) : ns.fs[f].born \in Nat /\ ~(ns.fs[f].born > FirstTxg)
  BY <1>1 DEF UpTo, IsPool
<1> QED BY <1>1, <1>2, <1>3 DEF Kept

LEMMA ProgressNext ==
  target' = target /\ view' = view /\ Progress(ns', stack', status') => Progress(ns, stack, status)'
BY DEF Progress, BottomUp, Visited, AllKids, Done, Settled, CloneFree, DoomedSnap, Chained, TreeKids

(* What is done with stays so while datasets only go.                      *)
LEMMA DoneStays ==
  ASSUME NEW n, NEW m, FSet(m) \subseteq FSet(n), Ids(m) \subseteq Ids(n), \A i \in Ids(m) : m.snap[i] = n.snap[i]
  PROVE  /\ \A f : Settled(n, f) => Settled(m, f)
         /\ \A d : Done(n, d) => Done(m, d)
<1>1. \A f : Settled(n, f) => Settled(m, f)
  BY DEF Settled
<1>2. \A d : Exists(m, d) => Exists(n, d)
  BY DEF Exists, Holding, SnapsOf
<1> QED BY <1>1, <1>2 DEF Done

(* A node is done with when its children were and it is destroyed.         *)
LEMMA NodeDone ==
  ASSUME IInv, Alone, status = "running", DestroyNode
  PROVE  Done(ns', Node)
<1>1. /\ Visited(ns, stack, 1) /\ stack[1].pc = "children" /\ stack[1].kids = {}
      /\ IsPool(ns) /\ IsPool(ns') /\ IsPool(view) /\ Node \in Nodes /\ InScope(Node) /\ Node.of \in Paths
  BY Tops, NodeTypes, DestroyStep, ViewFacts DEF IInv, Progress, DestroyNode, Running
<1>2. CASE IsSnap(target)
  <2>1. IsSnap(Node) /\ Node.name = target.name /\ Ids(ns') = Ids(ns) \ Holding(ns, Node.of, Node.name)
    BY <1>1, <1>2, DestroyStep DEF InScope, IsSnap
  <2>2. ASSUME NEW j \in Ids(view), DoomedSnap(j), Chained(view.snap[j].of), Under(view.snap[j].of, Node.of)
        PROVE  j \notin Ids(ns')
    <3>1. view.snap[j].of \in FSet(view) /\ view.snap[j].name = target.name
      BY <1>1, <1>2, <2>2 DEF IsPool, DoomedSnap
    <3>2. CASE view.snap[j].of = Node.of
      BY <2>1, <3>1, <3>2, KeptSnap DEF Holding, SnapsOf
    <3>3. CASE view.snap[j].of # Node.of
      <4>1. PICK g \in ChildFs(view, Node.of) : Under(view.snap[j].of, g)
        BY <1>1, <2>2, <3>1, <3>3, ChildOnTheWay
      <4>2. Snap(g, Node.name) \in AllKids(Node)
        BY <2>1 DEF AllKids
      <4>3. Settled(ns, g)
        <5>1. Done(ns, Snap(g, Node.name))
          BY <1>1, <1>2, <2>1, <4>2 DEF Visited, Node
        <5> QED BY <1>2, <5>1 DEF Done, Snap
      <4> QED BY <2>1, <2>2, <4>1, <4>3 DEF Settled
    <3> QED BY <3>2, <3>3
  <2> QED BY <1>2, <2>2 DEF Done, Settled
<1>3. CASE ~IsSnap(target)
  <2>1. CASE IsSnap(Node)
    <3>1. Holding(ns', Node.of, Node.name) = {}
      BY <2>1, DestroyStep DEF Holding, SnapsOf
    <3> QED BY <1>3, <2>1, <3>1 DEF Done, Exists
  <2>2. CASE ~IsSnap(Node)
    BY <1>3, <2>2, DestroyStep DEF Done, Exists
  <2> QED BY <2>1, <2>2
<1> QED BY <1>2, <1>3

(* Below a snapshot that is not there, nothing is left to reach.           *)
LEMMA MissingDone ==
  ASSUME IInv, Alone, status = "running", IsSnap(Node), IsSnap(target),
         NEW d \in AllKids(Node), ~Exists(ns, d)
  PROVE  Done(ns, d)
<1>1. /\ BottomUp(ns) /\ IsPool(view) /\ FSet(view) \subseteq FSet(ns) /\ Node \in Nodes /\ InScope(Node)
      /\ target \in Nodes
  BY Tops, ViewFacts DEF IInv, Progress
<1>2. PICK g \in ChildFs(view, Node.of) : d = Snap(g, target.name)
  BY <1>1 DEF AllKids, InScope
<1>3. d.of = g /\ g \in FSet(view) /\ Holding(ns, g, target.name) = {}
  BY <1>1, <1>2 DEF Exists, Snap, IsSnap, ChildFs
<1>4. Under(g, target.of)
  <2>1. g \in Seq(STRING) /\ Node.of \in Seq(STRING) /\ target.of \in Seq(STRING)
    BY <1>1, <1>3, NodeTypes, NamesAssumption DEF IsPool
  <2>2. Under(g, Node.of) /\ Under(Node.of, target.of)
    BY <1>1, <1>2 DEF ChildFs, IsChild, InScope
  <2> QED BY <2>1, <2>2, UnderTransitive
<1>5. CASE Holding(view, g, target.name) = {}
  <2>1. \A j \in Ids(view) : Under(view.snap[j].of, g) => ~Chained(view.snap[j].of)
    BY <1>3, <1>4, <1>5 DEF Chained
  <2> QED BY <1>3, <2>1 DEF Done, Settled
<1>6. CASE Holding(view, g, target.name) # {}
  <2>1. PICK i \in Ids(view) : view.snap[i].of = g /\ view.snap[i].name = target.name
    BY <1>6 DEF Holding, SnapsOf
  <2>2. i \notin Ids(ns)
    BY <1>3, <2>1, KeptSnap DEF Holding, SnapsOf
  <2>3. DoomedSnap(i)
    BY <1>4, <2>1 DEF DoomedSnap
  <2> QED BY <1>1, <1>3, <2>1, <2>2, <2>3 DEF BottomUp, Done
<1> QED BY <1>5, <1>6

(* Without clones, what an activation has come to destroy, it can.         *)
LEMMA CanDestroy ==
  ASSUME IInv, Alone, status = "running", Running("children"), stack[1].kids = {}, CloneFree
  PROVE  Destroyable(Node)
<1>1. /\ Visited(ns, stack, 1) /\ stack[1].pc = "children"
      /\ IsPool(ns) /\ IsPool(view) /\ Node \in Nodes /\ InScope(Node)
  BY Tops, ViewFacts DEF IInv, Progress, Running
<1>2. CASE IsSnap(Node)
  <2>1. ASSUME NEW i \in Holding(ns, Node.of, Node.name) PROVE ClonesOf(ns, i) = {}
    <3>1. i \in Ids(view) /\ view.snap[i].of = Node.of /\ view.snap[i].name = Node.name
      BY AloneShrinks DEF Holding, SnapsOf
    <3>2. DoomedSnap(i)
      BY <1>1, <3>1 DEF DoomedSnap, InScope
    <3>3. ClonesOf(view, i) = {}
      BY <3>1, <3>2 DEF CloneFree
    <3> QED BY <3>3, AloneShrinks DEF ClonesOf
  <2> QED BY <1>2, <2>1 DEF Destroyable, CanDestroySnap
<1>3. CASE ~IsSnap(Node)
  <2>1. ~IsSnap(target)
    BY <1>1, <1>3 DEF InScope, IsSnap
  <2>2. \A d \in TreeKids(Node.of) : ~Exists(ns, d)
    BY <1>1, <1>3, <2>1 DEF Visited, AllKids, Done, Node
  <2>3. ChildFs(ns, Node.of) = {}
    <3>1. ASSUME NEW g \in ChildFs(ns, Node.of) PROVE FALSE
      <4>1. g \in ChildFs(view, Node.of) /\ g \in FSet(ns)
        BY AloneShrinks DEF ChildFs
      <4>2. Fs(g) \in TreeKids(Node.of)
        BY <4>1 DEF TreeKids
      <4> QED BY <2>2, <4>1, <4>2 DEF Exists, Fs, IsSnap
    <3> QED BY <3>1
  <2>4. Node.of \in FSet(ns) => SnapsOf(ns, Node.of) = {}
    <3>1. ASSUME NEW i \in SnapsOf(ns, Node.of), Node.of \in FSet(ns) PROVE FALSE
      <4>1. i \in Ids(view) /\ view.snap[i] = ns.snap[i] /\ ns.snap[i].of = Node.of
        BY AloneShrinks DEF SnapsOf
      <4>2. Snap(Node.of, ns.snap[i].name) \in TreeKids(Node.of)
        BY <4>1 DEF TreeKids, NamesOf, SnapsOf
      <4>3. i \in Holding(ns, Node.of, ns.snap[i].name)
        BY DEF Holding
      <4> QED BY <2>2, <3>1, <4>2, <4>3 DEF Exists, Snap
    <3> QED BY <3>1
  <2> QED BY <1>3, <2>3, <2>4 DEF Destroyable, CanDestroyFs
<1> QED BY <1>2, <1>3

(* The children of the activations are accounted for.                      *)
LEMMA VisitedStep ==
  ASSUME IInv, [Next]_vars, Alone', NEW k \in 1..Len(stack')
  PROVE  Visited(ns', stack', k)
<1>1. /\ Alone /\ ~Client /\ (status = "running" => ~OpenFails) /\ faults' = faults /\ faults \in Nat
      /\ \A j \in 1..Len(stack) : Visited(ns, stack, j)
      /\ IsPool(ns) /\ IsPool(view)
  BY AloneBefore, ViewFacts DEF IInv, Progress
<1>2. CASE UNCHANGED vars
  BY <1>1, <1>2 DEF vars
<1>3. CASE status = "running" /\ Step
  <2> USE <1>3
  <2>0. /\ Len(stack) \in Nat /\ Len(stack) >= 1 /\ 1 \in 1..Len(stack)
        /\ Node \in Nodes /\ InScope(Node)
        /\ stack[1] \in Frames /\ Visited(ns, stack, 1)
    BY <1>1, Tops
  <2>1. ASSUME ns' = ns, NEW f \in Frames, f.node = Node, Changed(f), Visited(ns, <<f>>, 1)
        PROVE  Visited(ns', stack', k)
    <3>1. /\ Len(stack') = Len(stack) /\ stack'[1] = f
          /\ \A j \in 1..Len(stack) : j # 1 => stack'[j] = stack[j]
      BY <2>1, ChangedShape
    <3>2. CASE k = 1
      BY <2>1, <3>1, <3>2 DEF Visited
    <3>3. CASE k # 1
      <4>1. k \in 1..Len(stack) /\ k - 1 \in 1..Len(stack) /\ stack'[k] = stack[k]
        BY <2>0, <3>1, <3>3
      <4>2. stack'[k - 1].node = stack[k - 1].node
        BY <2>1, <3>1, <4>1 DEF Node
      <4> QED BY <1>1, <2>1, <4>1, <4>2 DEF Visited
    <3> QED BY <3>2, <3>3
  <2>2. CASE EnterFs
    <3> DEFINE f == [node |-> Node, pc |-> "children", kids |-> TreeKids(Node.of)]
    <3>1. ~IsSnap(Node) /\ Changed(f) /\ ns' = ns
      BY <2>2, EnteredForm DEF EnterFs
    <3>2. f \in Frames
      BY <1>1, <2>0, <3>1, TreeKidsAreKids DEF Frames, KidOf
    <3>3. f.node = Node /\ AllKids(f.node) = f.kids
      BY <3>1 DEF AllKids
    <3> HIDE DEF f
    <3> QED BY <2>1, <3>1, <3>2, <3>3 DEF Visited
  <2>3. CASE OpenParent
    <3> DEFINE f == [node |-> Node, pc |-> "children", kids |-> SameName]
    <3>1. IsSnap(Node) /\ Changed(f) /\ ns' = ns
      BY <2>3, EnteredForm DEF OpenParent
    <3>2. f \in Frames
      BY <1>1, <2>0, <3>1, SameNameAreKids DEF Frames, KidOf
    <3>3. f.node = Node /\ (IsSnap(target) => AllKids(f.node) \subseteq f.kids)
      BY <3>1 DEF AllKids, SameName, ChildFs, IInv
    <3> HIDE DEF f
    <3> QED BY <2>1, <3>1, <3>2, <3>3 DEF Visited
  <2>4. ASSUME NEW d \in stack[1].kids, Descend(d) PROVE Visited(ns', stack', k)
    <3>1. d \in Nodes /\ ns' = ns
      BY <2>0, <2>4 DEF Frames, Descend
    <3> DEFINE top == [node |-> Node, pc |-> stack[1].pc, kids |-> stack[1].kids \ {d}]
    <3>2. /\ Len(stack') = Len(stack) + 1 /\ stack'[1] = Frame(d) /\ stack'[2] = top
          /\ \A j \in 3..Len(stack) + 1 : stack'[j] = stack[j - 1]
      BY <2>4, <3>1, DescendedShape DEF Descend
    <3>3. CASE k = 1
      BY <3>2, <3>3 DEF Visited, Frame
    <3>4. CASE k = 2
      <4>1. top.node = stack[1].node /\ top.pc = stack[1].pc /\ top.kids = stack[1].kids \ {d} /\ Frame(d).node = d
        BY DEF Node, Frame
      <4> HIDE DEF top
      <4>2. ASSUME NEW e \in AllKids(top.node), top.pc = "children", IsSnap(top.node) <=> IsSnap(target)
            PROVE  e \in top.kids \/ stack'[1].node = e \/ Done(ns, e)
        BY <2>0, <3>2, <4>1, <4>2 DEF Visited
      <4> QED BY <3>1, <3>2, <3>4, <4>2 DEF Visited
    <3>5. CASE k > 2
      <4>1. k \in 3..Len(stack) + 1 /\ k - 1 \in 2..Len(stack) /\ stack'[k] = stack[k - 1]
        BY <2>0, <3>2, <3>5
      <4>2. stack'[k - 1].node = stack[k - 1 - 1].node
        <5>1. CASE k = 3
          BY <3>2, <5>1 DEF Node
        <5>2. CASE k # 3
          <6>1. k - 1 \in 3..Len(stack) + 1
            BY <2>0, <4>1, <5>2
          <6> QED BY <3>2, <6>1
        <5> QED BY <5>1, <5>2
      <4>3. Visited(ns, stack, k - 1) /\ k - 1 > 1
        BY <1>1, <2>0, <4>1
      <4> QED BY <3>1, <3>5, <4>1, <4>2, <4>3 DEF Visited
    <3>6. k = 1 \/ k = 2 \/ k > 2
      OBVIOUS
    <3> QED BY <3>3, <3>4, <3>5, <3>6
  <2>5. ASSUME NEW d \in stack[1].kids, SkipMissing(d) PROVE Visited(ns', stack', k)
    <3> DEFINE f == [node |-> Node, pc |-> stack[1].pc, kids |-> stack[1].kids \ {d}]
    <3>1. /\ f \in Frames /\ f.node = Node /\ f.node = stack[1].node /\ f.pc = stack[1].pc
          /\ f.kids = stack[1].kids \ {d}
      BY <2>0 DEF Frames, Node
    <3>2. Changed(f) /\ ns' = ns /\ IsSnap(Node) /\ ~Exists(ns, d)
      BY <1>1, <2>5, RestForm DEF Changed, SkipMissing
    <3> HIDE DEF f
    <3>3. IsSnap(target) /\ d \in AllKids(Node) => Done(ns, d)
      BY <1>1, <3>2, MissingDone
    <3>4. Visited(ns, <<f>>, 1)
      BY <2>0, <3>1, <3>2, <3>3 DEF Visited
    <3> QED BY <2>1, <3>1, <3>2, <3>4
  <2>6. CASE DestroyNode
    <3>1. stack' = Tail(stack) /\ Done(ns', Node)
      BY <1>1, <2>6, NodeDone DEF DestroyNode, Return
    <3>2. \A d : Done(ns, d) => Done(ns', d)
      BY <2>6, DestroyStep, DoneStays
    <3>3. stack'[k] = stack[k + 1] /\ k + 1 \in 1..Len(stack) /\ k \in 1..Len(stack)
      BY <2>0, <3>1, ReturnedShape
    <3>4. k > 1 => stack'[k - 1] = stack[k]
      <4>1. k > 1 => k - 1 \in 1..Len(stack')
        BY <2>0, <3>1, ReturnedShape
      <4> QED BY <3>1, <4>1, ReturnedShape
    <3>5. Visited(ns, stack, k + 1) /\ k + 1 - 1 = k
      BY <1>1, <3>3
    <3>6. k = 1 => stack[k].node = Node
      BY DEF Node
    <3> QED BY <3>1, <3>2, <3>3, <3>4, <3>5, <3>6 DEF Visited
  <2>7. CASE DestroyFails
    <3>1. stack' = <<>>
      BY <2>7 DEF DestroyFails, Return
    <3> QED BY <3>1
  <2> QED BY <1>1, <2>2, <2>3, <2>4, <2>5, <2>6, <2>7 DEF Step
<1> QED BY <1>1, <1>2, <1>3 DEF Next

LEMMA ProgressStep ==
  ASSUME IInv, [Next]_vars, Alone'
  PROVE  Progress(ns, stack, status)'
<1>1. /\ Alone /\ faults' = faults /\ ~Client /\ (status = "running" => ~OpenFails)
      /\ Progress(ns, stack, status) /\ target' = target /\ view' = view /\ faults \in Nat
  BY AloneBefore, Fixed DEF IInv
<1>2. \A k \in 1..Len(stack') : Visited(ns', stack', k)
  BY VisitedStep
<1>3. IsSnap(target) => BottomUp(ns')
  <2>1. CASE ns' = ns
    BY <1>1, <2>1 DEF Progress
  <2>2. CASE status = "running" /\ DestroyNode
    <3> SUFFICES ASSUME IsSnap(target), NEW i \in Ids(view), DoomedSnap(i), i \notin Ids(ns')
                 PROVE  Settled(ns', view.snap[i].of)
      BY DEF BottomUp
    <3>1. CASE i \notin Ids(ns)
      <4>1. Settled(ns, view.snap[i].of)
        BY <1>1, <3>1 DEF Progress, BottomUp
      <4> QED BY <2>2, <4>1, DestroyStep, DoneStays
    <3>2. CASE i \in Ids(ns)
      <4>1. IsSnap(Node)
        BY <2>2, Tops DEF InScope, IsSnap
      <4>2. i \in Holding(ns, Node.of, Node.name)
        BY <2>2, <3>2, <4>1, DestroyStep
      <4>3. view.snap[i].of = Node.of
        BY <3>2, <4>2, KeptSnap DEF Holding, SnapsOf
      <4> QED BY <1>1, <2>2, <4>3, NodeDone DEF Done
    <3> QED BY <3>1, <3>2
  <2> QED BY <1>1, <2>1, <2>2
          DEF Next, Step, EnterFs, OpenParent, OpenFails, Descend, SkipMissing, DestroyFails, vars
<1>4. CloneFree => status' # "error"
  <2>1. CASE status' = status \/ status' = "running" \/ status' = "nil"
    BY <1>1, <2>1 DEF Progress
  <2>2. CASE status = "running" /\ DestroyFails
    <3>1. ~Destroyable(Node)
      BY <1>1, <2>2 DEF DestroyFails
    <3> QED BY <1>1, <2>2, <3>1, CanDestroy DEF DestroyFails
  <2>3. status = "running" /\ DestroyNode => status' = "running" \/ status' = "nil"
    BY DEF DestroyNode, Return
  <2> QED BY <1>1, <2>1, <2>2, <2>3 DEF Next, Step, EnterFs, OpenParent, Descend, SkipMissing, vars
<1>5. status' = "nil" /\ IsSnap(target) => Settled(ns', target.of)
  <2>1. CASE ns' = ns /\ (status' = status \/ status' = "error")
    BY <1>1, <2>1 DEF Progress
  <2>2. CASE status = "running" /\ DestroyNode /\ status' = "nil" /\ IsSnap(target)
    <3>1. ~(Len(stack) > 1)
      BY <2>2 DEF DestroyNode, Return
    <3>2. Len(stack) = 1
      BY <2>2, <3>1, Tops, OneOrMore
    <3>3. Node = target
      <4>1. stack # <<>> /\ stack[Len(stack)].node = target
        BY <2>2 DEF IInv, StackOK
      <4> QED BY <3>2, <4>1 DEF Node
    <3> QED BY <1>1, <2>2, <3>3, NodeDone DEF Done
  <2>3. DestroyFails => ns' = ns /\ status' = "error"
    BY DEF DestroyFails, Return
  <2> QED BY <1>1, <2>1, <2>2, <2>3 DEF Next, Step, EnterFs, OpenParent, Descend, SkipMissing, vars
<1>6. Progress(ns', stack', status')
  BY <1>2, <1>3, <1>4, <1>5 DEF Progress
<1> QED BY <1>1, <1>6, ProgressNext

-----------------------------------------------------------------------------
LEMMA InitIInv == Init => IInv
<1> SUFFICES ASSUME Init PROVE IInv
  OBVIOUS
<1>1. /\ ns \in Pools /\ view = ns /\ txg = FirstTxg /\ target \in Targets /\ Exists(ns, target)
      /\ status = "running" /\ faults = 0 /\ stack = <<Frame(target)>>
  BY DEF Init
<1>2. IsPool(ns) /\ UpTo(ns, FirstTxg) /\ target \in Nodes
  BY <1>1, PoolsAssumption, NamesAssumption
<1>3. Kept(ns)
  BY <1>1 DEF Kept
<1>4. Frame(target) \in Frames /\ Frame(target).node = target /\ Frame(target).kids = {}
      /\ Frame(target).pc = "enter"
  BY <1>2 DEF Frames, Frame
<1>5. InScope(target)
  BY <1>2, NodeTypes, UnderReflexive DEF InScope
<1>6. stack \in Seq(Frames) /\ Len(stack) = 1 /\ stack # <<>> /\ stack[1] = Frame(target)
  <2> HIDE DEF Frame
  <2> QED BY <1>1, <1>4
<1>7. StackOK
  BY <1>1, <1>4, <1>5, <1>6 DEF StackOK
<1>8. TheItem \in Still
  <2>1. CASE IsSnap(target)
    <3>1. Holding(ns, target.of, target.name) # {}
      BY <1>1, <2>1 DEF Exists
    <3>2. PICK j \in Holding(view, target.of, target.name) : TheItem = SnapItem(j)
      BY <1>1, <2>1, <3>1 DEF TheItem
    <3> QED BY <1>1, <3>2 DEF Still, Holding, SnapsOf
  <2>2. CASE ~IsSnap(target)
    BY <1>1, <2>2 DEF TheItem, Still, Exists
  <2> QED BY <2>1, <2>2
<1>9. Progress(ns, stack, status)
  BY <1>1, <1>4, <1>6 DEF Progress, BottomUp, Visited
<1> QED BY <1>1, <1>2, <1>3, <1>7, <1>8, <1>9 DEF IInv

LEMMA NextIInv == IInv /\ [Next]_vars => IInv'
<1> SUFFICES ASSUME IInv, [Next]_vars PROVE IInv'
  OBVIOUS
<1>1. target' = target /\ view' = view
  BY Fixed
<1>2. StackOK' /\ (status' = "running" => TheItem' \in Still') /\ (Alone' => Progress(ns, stack, status)')
  BY StackStep, PromiseStep, ProgressStep
<1>3. (view \in Pools /\ target \in Targets /\ Exists(view, target))'
  BY <1>1 DEF IInv, Exists
<1>4. /\ IsPool(ns') /\ UpTo(ns', txg') /\ Kept(ns)' /\ txg' \in Nat /\ FirstTxg <= txg'
      /\ faults' \in Nat /\ status' \in {"running", "nil", "error"}
      /\ (IsSnap(target) => FSet(view) \subseteq FSet(ns))'
  <2>1. CASE Client
    <3>1. FirstTxg < txg' => FirstTxg <= txg'
      BY <2>1, ClientStep
    <3> QED BY <1>1, <2>1, <3>1, ClientStep DEF IInv
  <2>2. CASE status = "running" /\ DestroyNode
    BY <1>1, <2>2, DestroyStep DEF IInv, DestroyNode, Return
  <2>3. CASE /\ ns' = ns /\ txg' = txg /\ faults' \in {faults, faults + 1}
             /\ status' \in {status, "error"}
    BY <1>1, <2>3 DEF IInv, Kept
  <2>4. status = "running" /\ (OpenFails \/ DestroyFails) => ns' = ns /\ txg' = txg /\ status' = "error"
    BY DEF OpenFails, DestroyFails, Return, call
  <2>5. status = "running" /\ Step => faults' \in {faults, faults + 1}
    BY DEF Step, EnterFs, OpenParent, OpenFails, Descend, SkipMissing, DestroyNode, DestroyFails
  <2> QED BY <2>1, <2>2, <2>3, <2>4, <2>5
          DEF Next, Step, EnterFs, OpenParent, OpenFails, Descend, SkipMissing, DestroyFails, vars, call
<1> QED BY <1>2, <1>3, <1>4 DEF IInv

LEMMA Invariance == Spec => []IInv
BY InitIInv, NextIInv, PTL DEF Spec

-----------------------------------------------------------------------------
(* With no clone of a snapshot concerned, no failure and no other client,  *)
(* the call does not fail, in whatever order the children come             *)
(* (zfs.go:252-259).                                                       *)
THEOREM SpecCloneFreeSucceeds == Spec => []CloneFreeSucceeds
<1>1. IInv => CloneFreeSucceeds
  BY DEF IInv, Progress, CloneFree, CloneFreeSucceeds
<1> QED BY <1>1, Invariance, PTL

(* A call on a snapshot that succeeds has destroyed the snapshots of its   *)
(* name of all filesystems that a chain of such snapshots leads to         *)
(* (zfs.go:274-291).                                                       *)
THEOREM SpecChainGone == Spec => []ChainGone
<1>1. IInv => ChainGone
  BY DEF IInv, Progress, Settled, ChainGone, DoomedSnap
<1> QED BY <1>1, Invariance, PTL

(* Whatever its clients do meanwhile and whatever fails, the call takes    *)
(* only steps that a recursive destroy may take: it destroys nothing but   *)
(* the datasets of its scope, one at a time and the root last, and a       *)
(* filesystem only when nothing of the scope is left (zfs.go:246).         *)
THEOREM ImplementsSafe == Spec => Abstract!Safe
<1>1. Init => Abstract!Init
  <2> SUFFICES ASSUME Init PROVE Abstract!Init
    OBVIOUS
  <2>1. IInv /\ view = ns /\ status = "running"
    BY InitIInv DEF Init
  <2>2. Concerned \subseteq Still
    BY <2>1 DEF Concerned, Still
  <2>3. TheItem \in Concerned
    <3>1. target \in Nodes /\ Exists(view, target) /\ Under(target.of, target.of)
      BY <2>1, ViewFacts, NodeTypes, UnderReflexive DEF IInv
    <3>2. CASE IsSnap(target)
      <4>1. PICK j \in Holding(view, target.of, target.name) : TheItem = SnapItem(j)
        BY <3>1, <3>2 DEF TheItem, Exists
      <4> QED BY <3>1, <4>1 DEF Concerned, DoomedSnap, Holding, SnapsOf
    <3>3. CASE ~IsSnap(target)
      BY <3>1, <3>3 DEF TheItem, Concerned, Doomed, Exists
    <3> QED BY <3>2, <3>3
  <2> QED BY <2>1, <2>2, <2>3 DEF Abstract!Init
<1>2. IInv /\ [Next]_vars => [Abstract!Next]_(Abstract!vars)
  BY PromiseStep
<1> QED BY <1>1, <1>2, Invariance, PTL DEF Spec, Abstract!Safe
=============================================================================
