------------------------ MODULE DestroyPromoteProofs ------------------------
(***************************************************************************)
(* For every pool, every set of clients' names and every bound: the types  *)
(* of DestroyPromote are right, it destroys no filesystem outside the      *)
(* subtree it was called on, a nil error means that all of the subtree has *)
(* gone, and the error of a call that was left alone that its target has   *)
(* not.  A call during which no client acts destroys no snapshot that was  *)
(* not the target's, and on a plain pool (PlainCall) it leaves no snapshot *)
(* over and returns no error.                                              *)
(*                                                                         *)
(* IInv, GInv and EInv are the invariants of the first four; those of the  *)
(* last three are stated further below.                                    *)
(***************************************************************************)
EXTENDS DestroyPromote, SequenceTheorems, TLAPS

USE PathsAssumption, BoundsAssumption

(* A path below a path below top is below top.                             *)
LEMMA UnderTransitive ==
  ASSUME NEW a \in Seq(STRING), NEW b \in Seq(STRING), NEW c \in Seq(STRING),
         Under(a, b), Under(b, c)
  PROVE  Under(a, c)
  BY DEF Under

LEMMA UnderReflexive ==
  ASSUME NEW a \in Seq(STRING)
  PROVE  Under(a, a)
  BY DEF Under

-----------------------------------------------------------------------------
(* The kernel operations keep a namespace well formed.                     *)
WellFormed(n) == IsNamespace(n) /\ Anchored(n)

LEMMA CreateWellFormed ==
  ASSUME NEW n, WellFormed(n), NEW f \in Paths, NEW t \in 0..MaxTxg,
         NEW o \in Ids(n) \cup {NoSnap}
  PROVE  WellFormed(Create(n, f, t, o))
<1> DEFINE m == Create(n, f, t, o)
<1>1. /\ m.fs = [g \in FSet(n) \cup {f} |->
                   IF g = f THEN [born |-> t, origin |-> o] ELSE n.fs[g]]
      /\ m.snap = n.snap
      /\ m = [fs |-> m.fs, snap |-> m.snap]
  BY DEF Create, WellFormed, IsNamespace
<1>2. FSet(m) = FSet(n) \cup {f} /\ Ids(m) = Ids(n)
  BY <1>1 DEF FSet, Ids
<1>3. o \in 0..MaxTxg
  BY DEF WellFormed, IsNamespace, Txgs, NoSnap
<1>4. IsNamespace(m)
  BY <1>1, <1>2, <1>3 DEF WellFormed, IsNamespace
<1>5. Anchored(m)
  BY <1>1, <1>2 DEF WellFormed, Anchored
<1> QED BY <1>4, <1>5 DEF WellFormed

LEMMA SnapshotWellFormed ==
  ASSUME NEW n, WellFormed(n), NEW f \in FSet(n), NEW s \in Names, NEW t \in Txgs
  PROVE  WellFormed(Snapshot(n, f, s, t))
<1> DEFINE m == Snapshot(n, f, s, t)
<1>1. /\ m.snap = [i \in Ids(n) \cup {t} |->
                     IF i = t THEN [of |-> f, name |-> s] ELSE n.snap[i]]
      /\ m.fs = n.fs
      /\ m = [fs |-> m.fs, snap |-> m.snap]
  BY DEF Snapshot, WellFormed, IsNamespace
<1>2. FSet(m) = FSet(n) /\ Ids(m) = Ids(n) \cup {t}
  BY <1>1 DEF FSet, Ids
<1>3. IsNamespace(m)
  BY <1>1, <1>2 DEF WellFormed, IsNamespace
<1>4. Anchored(m)
  BY <1>1, <1>2 DEF WellFormed, Anchored
<1> QED BY <1>3, <1>4 DEF WellFormed

LEMMA PromoteWellFormed ==
  ASSUME NEW n, WellFormed(n), NEW c, CanPromote(n, c)
  PROVE  WellFormed(Promote(n, c))
<1> DEFINE m == Promote(n, c)
           o == n.fs[c].origin
           p == n.snap[o].of
<1>1. c \in FSet(n) /\ o \in Ids(n) /\ p \in FSet(n)
  BY DEF CanPromote, WellFormed, Anchored
<1>2. /\ m.fs = [g \in FSet(n) |->
                   [born   |-> n.fs[g].born,
                    origin |-> IF g = c THEN n.fs[p].origin
                               ELSE IF g = p THEN o ELSE n.fs[g].origin]]
      /\ m.snap = [i \in Ids(n) |->
                     IF i \in Shared(n, c)
                     THEN [of |-> c, name |-> n.snap[i].name]
                     ELSE n.snap[i]]
      /\ m = [fs |-> m.fs, snap |-> m.snap]
  BY DEF Promote
<1>3. FSet(m) = FSet(n) /\ Ids(m) = Ids(n)
  BY <1>2 DEF FSet, Ids
<1> HIDE DEF m, o, p
<1>4. o \in 0..MaxTxg /\ c \in Paths /\ p \in Paths /\ n.fs[p].origin \in 0..MaxTxg
  BY <1>1 DEF WellFormed, IsNamespace, Txgs
<1>5. ASSUME NEW g \in FSet(n)
      PROVE  /\ m.fs[g] \in [born : 0..MaxTxg, origin : 0..MaxTxg]
             /\ m.fs[g].origin \in {n.fs[p].origin, o, n.fs[g].origin}
  <2>1. n.fs[g].born \in 0..MaxTxg /\ n.fs[g].origin \in 0..MaxTxg
    BY DEF WellFormed, IsNamespace
  <2>2. m.fs[g] = [born   |-> n.fs[g].born,
                   origin |-> IF g = c THEN n.fs[p].origin
                              ELSE IF g = p THEN o ELSE n.fs[g].origin]
    BY <1>2
  <2> QED BY <1>4, <2>1, <2>2
<1>6. ASSUME NEW i \in Ids(n)
      PROVE  /\ m.snap[i] \in [of : Paths, name : Names]
             /\ m.snap[i].of \in {c, n.snap[i].of}
  <2>1. n.snap[i] \in [of : Paths, name : Names]
    BY DEF WellFormed, IsNamespace
  <2>2. m.snap[i] = IF i \in Shared(n, c) THEN [of |-> c, name |-> n.snap[i].name]
                    ELSE n.snap[i]
    BY <1>2
  <2> QED BY <1>4, <2>1, <2>2
<1>7. IsNamespace(m)
  <2>1. m.fs \in [FSet(m) -> [born : 0..MaxTxg, origin : 0..MaxTxg]]
    BY <1>2, <1>3, <1>5
  <2>2. m.snap \in [Ids(m) -> [of : Paths, name : Names]]
    BY <1>2, <1>3, <1>6
  <2> QED BY <1>2, <1>3, <2>1, <2>2 DEF WellFormed, IsNamespace
<1>8. Anchored(m)
  BY <1>1, <1>3, <1>5, <1>6 DEF WellFormed, Anchored
<1> QED BY <1>7, <1>8 DEF WellFormed, m

LEMMA RenameWellFormed ==
  ASSUME NEW n, WellFormed(n), NEW f \in Paths, NEW s, NEW t \in Names
  PROVE  WellFormed(RenameSnap(n, f, s, t))
<1> DEFINE m == RenameSnap(n, f, s, t)
<1>1. /\ m.snap = [i \in Ids(n) |->
                     IF i \in Holding(n, f, s) THEN [of |-> f, name |-> t] ELSE n.snap[i]]
      /\ m.fs = n.fs
      /\ m = [fs |-> m.fs, snap |-> m.snap]
  BY DEF RenameSnap, WellFormed, IsNamespace
<1>2. FSet(m) = FSet(n) /\ Ids(m) = Ids(n)
  BY <1>1 DEF FSet, Ids
<1>3. IsNamespace(m)
  BY <1>1, <1>2 DEF WellFormed, IsNamespace
<1>4. \A i \in Holding(n, f, s) : n.snap[i].of = f /\ i \in Ids(n)
  BY DEF Holding, SnapsOf
<1>5. Anchored(m)
  BY <1>1, <1>2, <1>4 DEF WellFormed, Anchored
<1> QED BY <1>3, <1>5 DEF WellFormed

LEMMA DestroyFsWellFormed ==
  ASSUME NEW n, WellFormed(n), NEW f, CanDestroyFs(n, f)
  PROVE  WellFormed(DestroyFs(n, f))
<1> DEFINE m == DestroyFs(n, f)
<1>1. /\ m.fs = [g \in FSet(n) \ {f} |-> n.fs[g]]
      /\ m.snap = n.snap
      /\ m = [fs |-> m.fs, snap |-> m.snap]
  BY DEF DestroyFs, WellFormed, IsNamespace
<1>2. FSet(m) = FSet(n) \ {f} /\ Ids(m) = Ids(n)
  BY <1>1 DEF FSet, Ids
<1>3. IsNamespace(m)
  BY <1>1, <1>2 DEF WellFormed, IsNamespace
<1>4. \A i \in Ids(n) : n.snap[i].of # f
  BY DEF CanDestroyFs, SnapsOf, WellFormed, Anchored
<1>5. Anchored(m)
  BY <1>1, <1>2, <1>4 DEF WellFormed, Anchored
<1> QED BY <1>3, <1>5 DEF WellFormed

LEMMA DestroySnapWellFormed ==
  ASSUME NEW n, WellFormed(n), NEW f, NEW s, CanDestroySnap(n, f, s)
  PROVE  WellFormed(DestroySnap(n, f, s))
<1> DEFINE m == DestroySnap(n, f, s)
<1>1. /\ m.snap = [i \in Ids(n) \ Holding(n, f, s) |-> n.snap[i]]
      /\ m.fs = n.fs
      /\ m = [fs |-> m.fs, snap |-> m.snap]
  BY DEF DestroySnap, WellFormed, IsNamespace
<1>2. FSet(m) = FSet(n) /\ Ids(m) = Ids(n) \ Holding(n, f, s)
  BY <1>1 DEF FSet, Ids
<1>3. IsNamespace(m)
  BY <1>1, <1>2 DEF WellFormed, IsNamespace
<1>4. \A i \in Holding(n, f, s), g \in FSet(n) : n.fs[g].origin # i
  BY DEF CanDestroySnap, ClonesOf
<1>5. Anchored(m)
  BY <1>1, <1>2, <1>4 DEF WellFormed, Anchored
<1> QED BY <1>3, <1>5 DEF WellFormed

-----------------------------------------------------------------------------
(* TypeOK and FramesInside together are inductive, and carry               *)
(* OutsideUntouched.                                                       *)
IInv == TypeOK /\ FramesInside /\ OutsideUntouched

(* What a running call's innermost frame is.                               *)
LEMMA TopFrame ==
  ASSUME IInv, status = "running"
  PROVE  /\ stack \in Seq(Frames) /\ stack # <<>> /\ 1 \in 1..Len(stack)
         /\ Top \in Frames /\ Node \in Nodes /\ Node.of \in Paths
         /\ Under(Node.of, target)
         /\ FrameInside(Top)
<1>1. stack \in Seq(Frames) /\ stack # <<>> /\ 1 \in 1..Len(stack)
  BY DEF IInv, TypeOK
<1>2. Top \in Frames
  BY <1>1 DEF Top
<1>3. FrameInside(Top)
  BY <1>1 DEF IInv, FramesInside, Top
<1> QED BY <1>1, <1>2, <1>3 DEF FrameInside, InTree, Node, Frames, Nodes

(* The names that conflict resolution keeps or makes are names.            *)
LEMMA NewNames ==
  ASSUME IInv, status = "running", NEW i \in Top.todo
  PROVE  view.snap[i].name \in Names /\ NewName(i) \in Names
<1>1. i \in Ids(view) /\ Node.of \in Paths
  BY TopFrame DEF FrameInside
<1>2. view.snap[i].name \in Names
  BY <1>1 DEF IInv, TypeOK, IsNamespace
<1>3. Base(Node.of) \in STRING
  <2>1. Node.of \in Seq(STRING) /\ Len(Node.of) \in 1..Len(Node.of)
    BY <1>1
  <2> QED BY <2>1 DEF Base
<1> QED BY <1>2, <1>3 DEF NewName, Names

(* What a step does to the namespace: it stays well formed, and only a     *)
(* running call takes a filesystem away, one at or below its target.       *)
LEMMA NamespaceStep ==
  ASSUME IInv, [Next]_vars
  PROVE  /\ WellFormed(ns')
         /\ \A f \in FSet(ns) :
              \/ f \in FSet(ns') /\ ns'.fs[f].born = ns.fs[f].born
              \/ status = "running" /\ Under(f, target)
<1> DEFINE Keeps == \A f \in FSet(ns) : f \in FSet(ns') /\ ns'.fs[f].born = ns.fs[f].born
<1>0. WellFormed(ns) /\ txg \in 0..MaxTxg
  BY DEF IInv, TypeOK, WellFormed
<1>1. ASSUME NEW f \in Paths, DatasetCreate(f)
      PROVE  WellFormed(ns') /\ Keeps
  <2>1. f \notin FSet(ns) /\ ns' = Create(ns, f, txg + 1, NoSnap) /\ txg + 1 \in 0..MaxTxg
    BY <1>0, <1>1 DEF DatasetCreate, CanCreate, ClientMayAct
  <2>2. WellFormed(ns')
    BY <1>0, <2>1, CreateWellFormed
  <2>3. Keeps
    BY <2>1 DEF Create, FSet
  <2> QED BY <2>2, <2>3
<1>2. ASSUME NEW f \in FSet(ns), NEW n \in SnapNames, DatasetSnapshot(f, n)
      PROVE  WellFormed(ns') /\ Keeps
  <2>1. ns' = Snapshot(ns, f, n, txg + 1) /\ txg + 1 \in Txgs /\ n \in Names
    BY <1>0, <1>2 DEF DatasetSnapshot, ClientMayAct, Txgs, Names
  <2>2. WellFormed(ns')
    BY <1>0, <2>1, SnapshotWellFormed
  <2>3. Keeps
    BY <2>1 DEF Snapshot, FSet
  <2> QED BY <2>2, <2>3
<1>3. ASSUME NEW i \in Ids(ns), NEW f \in Paths, Clone(i, f)
      PROVE  WellFormed(ns') /\ Keeps
  <2>1. f \notin FSet(ns) /\ ns' = Create(ns, f, txg + 1, i) /\ txg + 1 \in 0..MaxTxg
    BY <1>0, <1>3 DEF Clone, CanCreate, ClientMayAct
  <2>2. WellFormed(ns')
    BY <1>0, <2>1, CreateWellFormed
  <2>3. Keeps
    BY <2>1 DEF Create, FSet
  <2> QED BY <2>2, <2>3
<1>4. ASSUME NEW c, CanPromote(ns, c), ns' = Promote(ns, c)
      PROVE  WellFormed(ns') /\ Keeps
  <2>1. WellFormed(ns')
    BY <1>0, <1>4, PromoteWellFormed
  <2>2. Keeps
    BY <1>4 DEF Promote, FSet
  <2> QED BY <2>1, <2>2
<1>5. ASSUME status = "running", NEW i \in Top.todo, RenameConflict(i)
      PROVE  WellFormed(ns') /\ Keeps
  <2>1. /\ ns' = RenameSnap(ns, Node.of, view.snap[i].name, NewName(i))
        /\ Node.of \in Paths /\ NewName(i) \in Names
    BY <1>5, TopFrame, NewNames DEF RenameConflict
  <2>2. WellFormed(ns')
    BY <1>0, <2>1, RenameWellFormed
  <2>3. Keeps
    BY <2>1 DEF RenameSnap, FSet
  <2> QED BY <2>2, <2>3
<1>6. ASSUME NEW f, NEW n, CanDestroySnap(ns, f, n), ns' = DestroySnap(ns, f, n)
      PROVE  WellFormed(ns') /\ Keeps
  <2>1. WellFormed(ns')
    BY <1>0, <1>6, DestroySnapWellFormed
  <2>2. Keeps
    BY <1>6 DEF DestroySnap, FSet
  <2> QED BY <2>1, <2>2
<1>7. ASSUME status = "running", ~IsSnapshot(Node), CanDestroyFs(ns, Node.of),
             ns' = DestroyFs(ns, Node.of)
      PROVE  /\ WellFormed(ns')
             /\ \A f \in FSet(ns) :
                  \/ f \in FSet(ns') /\ ns'.fs[f].born = ns.fs[f].born
                  \/ Under(f, target)
  <2>1. WellFormed(ns')
    BY <1>0, <1>7, DestroyFsWellFormed
  <2>2. Under(Node.of, target)
    BY <1>7, TopFrame
  <2>3. \A f \in FSet(ns) \ {Node.of} : f \in FSet(ns') /\ ns'.fs[f].born = ns.fs[f].born
    BY <1>7 DEF DestroyFs, FSet
  <2> QED BY <2>1, <2>2, <2>3
<1>8. ASSUME UNCHANGED ns
      PROVE  WellFormed(ns') /\ Keeps
  BY <1>0, <1>8
<1>9. ASSUME Client
      PROVE  WellFormed(ns') /\ Keeps
  BY <1>1, <1>2, <1>3, <1>4, <1>9 DEF Client, ClientPromote
<1>10. ASSUME status = "running", DestroyNode
       PROVE  /\ WellFormed(ns')
              /\ \A f \in FSet(ns) :
                   \/ f \in FSet(ns') /\ ns'.fs[f].born = ns.fs[f].born
                   \/ Under(f, target)
  <2>1. CASE IsSnapshot(Node)
    BY <1>6, <1>10, <2>1 DEF DestroyNode, CanDestroyNode
  <2>2. CASE ~IsSnapshot(Node)
    BY <1>7, <1>10, <2>2 DEF DestroyNode, CanDestroyNode
  <2> QED BY <2>1, <2>2
<1>11. ASSUME status = "running", NEW n \in Top.psnaps, Sweep(n)
       PROVE  WellFormed(ns') /\ Keeps
  BY <1>6, <1>8, <1>11 DEF Sweep
<1>12. ASSUME status = "running", PromoteClone
       PROVE  WellFormed(ns') /\ Keeps
  BY <1>4, <1>12 DEF PromoteClone
<1>13. ASSUME status = "running", Step
       PROVE  /\ WellFormed(ns')
              /\ \A f \in FSet(ns) :
                   \/ f \in FSet(ns') /\ ns'.fs[f].born = ns.fs[f].born
                   \/ Under(f, target)
  <2>1. CASE \E i \in Top.todo : RenameConflict(i)
    BY <1>5, <1>13, <2>1
  <2>2. CASE PromoteClone
    BY <1>12, <1>13, <2>2
  <2>3. CASE DestroyNode
    BY <1>10, <1>13, <2>3
  <2>4. CASE \E n \in Top.psnaps : Sweep(n)
    BY <1>11, <1>13, <2>4
  <2>5. CASE \/ Search \/ OpenClone \/ \E i \in Top.todo : KeepName(i)
             \/ \E k \in Top.kids : Descend(k)
             \/ ReopenClone \/ SweepDone \/ FailRefused \/ FailFault
    BY <1>8, <2>5 DEF Search, OpenClone, KeepName, Descend, ReopenClone, SweepDone,
                      FailRefused, FailFault
  <2> QED BY <1>13, <2>1, <2>2, <2>3, <2>4, <2>5 DEF Step
<1>14. CASE Client
  BY <1>9, <1>14
<1>15. CASE status = "running" /\ Step
  BY <1>13, <1>15
<1>16. CASE \/ \E f \in Targets : Begin(f)
            \/ Collect
            \/ UNCHANGED vars
  BY <1>8, <1>16 DEF Begin, Collect, vars
<1> QED BY <1>14, <1>15, <1>16 DEF Next

-----------------------------------------------------------------------------
(* What a step does to the stack.  Three shapes: the innermost frame is    *)
(* replaced, a frame is pushed on it, or it is popped.                     *)
LEMMA GotoInside ==
  ASSUME IInv, status = "running", NEW fr \in Frames, FrameInside(fr),
         NEW pc \in Pcs, Goto(pc, fr), UNCHANGED <<view, target>>
  PROVE  stack' \in Seq(Frames) /\ stack' # <<>> /\ FramesInside'
<1> DEFINE new == [fr EXCEPT !.pc = pc]
<1>1. /\ new \in Frames /\ new.node = fr.node /\ new.todo = fr.todo
      /\ new.kids = fr.kids
  BY DEF Frames
<1>2. FrameInside(new)
  BY <1>1 DEF FrameInside
<1>3. stack' = [stack EXCEPT ![1] = new]
  BY DEF Goto
<1> HIDE DEF new
<1>4. stack \in Seq(Frames) /\ 1 \in 1..Len(stack)
  BY TopFrame
<1>5. /\ stack' \in Seq(Frames) /\ Len(stack') = Len(stack) /\ stack'[1] = new
      /\ \A k \in 1..Len(stack) : k # 1 => stack'[k] = stack[k]
  BY <1>1, <1>3, <1>4
<1>6. ASSUME NEW k \in 1..Len(stack')
      PROVE  FrameInside(stack'[k])
  BY <1>2, <1>5 DEF IInv, FramesInside
<1>7. FramesInside'
  BY <1>6 DEF FramesInside, FrameInside, InTree
<1> QED BY <1>4, <1>5, <1>7

LEMMA ChildrenInside ==
  ASSUME IInv, status = "running"
  PROVE  /\ Children(view, Node) \subseteq Nodes
         /\ \A d \in Children(view, Node) : InTree(d)
<1>1. /\ Node.of \in Paths /\ Under(Node.of, target) /\ target \in Paths
      /\ FSet(view) \subseteq Paths /\ Ids(view) \subseteq Txgs
  BY TopFrame DEF IInv, TypeOK, IsNamespace
<1>2. ASSUME NEW g \in ChildFs(view, Node.of)
      PROVE  FsNode(g) \in Nodes /\ InTree(FsNode(g))
  <2>1. g \in Paths /\ Under(g, Node.of)
    BY <1>1 DEF ChildFs, IsChild
  <2>2. Under(g, target)
    BY <1>1, <2>1, UnderTransitive
  <2> QED BY <2>1, <2>2 DEF FsNode, Nodes, InTree, IsSnapshot, NoSnap
<1>3. ASSUME NEW i \in SnapsOf(view, Node.of)
      PROVE  SnapNode(Node.of, i) \in Nodes /\ InTree(SnapNode(Node.of, i))
  BY <1>1 DEF SnapsOf, SnapNode, Nodes, InTree, IsSnapshot, NoSnap, Txgs
<1> QED BY <1>2, <1>3 DEF Children

LEMMA EnterChildrenInside ==
  ASSUME IInv, status = "running", EnterChildren(Top), UNCHANGED <<view, target>>
  PROVE  stack' \in Seq(Frames) /\ stack' # <<>> /\ FramesInside'
<1> DEFINE fr == [Top EXCEPT !.kids = Children(view, Node)]
<1>1. Top \in Frames /\ FrameInside(Top)
  BY TopFrame
<1>2. Children(view, Node) \subseteq Nodes /\ \A d \in Children(view, Node) : InTree(d)
  BY ChildrenInside
<1>3. fr \in Frames /\ fr.node = Top.node /\ fr.todo = Top.todo
      /\ fr.kids = Children(view, Node)
  BY <1>1, <1>2 DEF Frames
<1>4. FrameInside(fr)
  BY <1>1, <1>2, <1>3 DEF FrameInside
<1>5. Goto("children", fr) /\ "children" \in Pcs
  BY DEF EnterChildren, Pcs
<1> HIDE DEF fr
<1> QED BY <1>3, <1>4, <1>5, GotoInside

LEMMA ReturnInside ==
  ASSUME IInv, status = "running", ReturnNil
  PROVE  /\ stack' \in Seq(Frames) /\ FramesInside'
         /\ status' \in {"running", "nil"}
         /\ (status' = "running") <=> (stack' # <<>>)
<1>1. stack \in Seq(Frames) /\ stack # <<>> /\ stack' = Tail(stack)
  BY TopFrame DEF ReturnNil
<1>2. /\ stack' \in Seq(Frames) /\ Len(stack') = Len(stack) - 1
      /\ \A k \in 1..Len(stack') : stack'[k] = stack[k + 1] /\ k + 1 \in 1..Len(stack)
  BY <1>1
<1>3. FramesInside'
  BY <1>2 DEF IInv, FramesInside, FrameInside, InTree, ReturnNil
<1>4. (stack' = <<>>) <=> (Len(stack) = 1)
  BY <1>1, <1>2, SMTT(30)
<1> QED BY <1>2, <1>3, <1>4 DEF ReturnNil

(* Every step leaves the call's own state in order.                        *)
CallOK ==
  /\ stack \in Seq(Frames) /\ FramesInside
  /\ status \in {"idle", "running", "nil", "error"}
  /\ (status = "running") <=> (stack # <<>>)

LEMMA StepKeepsCall ==
  ASSUME IInv, status = "running", Step
  PROVE  CallOK' /\ UNCHANGED <<target, view, foreign, quiet, calls, txg>>
<1> DEFINE Same == UNCHANGED <<target, view, foreign, quiet, calls, txg>>
<1>0. /\ Top \in Frames /\ FrameInside(Top) /\ Node.of \in Paths /\ Node \in Nodes
      /\ stack \in Seq(Frames) /\ stack # <<>>
      /\ FSet(ns) \subseteq Paths
      /\ \A i \in Ids(ns) : ns.snap[i].name \in Names
      /\ Ids(view) \subseteq Txgs
  BY TopFrame DEF IInv, TypeOK, IsNamespace
<1>a. ASSUME NEW fr \in Frames, FrameInside(fr), NEW pc \in Pcs, Goto(pc, fr),
             UNCHANGED callVars
      PROVE  CallOK' /\ Same
  <2>1. stack' \in Seq(Frames) /\ stack' # <<>> /\ FramesInside'
    BY <1>a, GotoInside DEF callVars
  <2> QED BY <1>a, <2>1 DEF CallOK, callVars
<1>b. ASSUME ReturnNil
      PROVE  CallOK' /\ Same
  BY <1>b, ReturnInside DEF CallOK, ReturnNil
<1>c. ASSUME EnterChildren(Top), UNCHANGED callVars
      PROVE  CallOK' /\ Same
  BY <1>c, EnterChildrenInside DEF CallOK, callVars
<1>d. ASSUME Abort
      PROVE  CallOK' /\ Same
  <2>1. stack' \in Seq(Frames) /\ Len(stack') = 0
    BY <1>d DEF Abort
  <2> QED BY <1>d, <2>1 DEF Abort, CallOK, FramesInside
<1>1. CASE Search
  <2>1. CASE EnterChildren(Top)
    BY <1>1, <1>c, <2>1 DEF Search
  <2>2. ASSUME NEW c \in FSet(ns), Goto("open", [Top EXCEPT !.clone = c])
        PROVE  CallOK' /\ Same
    <3> DEFINE fr == [Top EXCEPT !.clone = c]
    <3>1. fr \in Frames /\ fr.node = Top.node /\ fr.todo = Top.todo /\ fr.kids = Top.kids
      BY <1>0 DEF Frames
    <3>2. FrameInside(fr)
      BY <1>0, <3>1 DEF FrameInside
    <3>3. "open" \in Pcs
      BY DEF Pcs
    <3>4. UNCHANGED callVars
      BY <1>1 DEF Search
    <3> HIDE DEF fr
    <3> QED BY <1>a, <2>2, <3>1, <3>2, <3>3, <3>4 DEF fr
  <2> QED BY <1>1, <2>1, <2>2 DEF Search
<1>2. CASE OpenClone
  <2> DEFINE fr == [Top EXCEPT !.names = NamesOf(ns, Top.clone), !.todo = Snapshots(view, Node)]
  <2>1. NamesOf(ns, Top.clone) \subseteq Names
    BY <1>0 DEF NamesOf, SnapsOf
  <2>2. Snapshots(view, Node) \subseteq Ids(view)
    BY DEF Snapshots, SnapsOf
  <2>3. fr \in Frames /\ fr.node = Top.node /\ fr.todo = Snapshots(view, Node)
        /\ fr.kids = Top.kids
    BY <1>0, <2>1, <2>2 DEF Frames
  <2>4. FrameInside(fr)
    BY <1>0, <2>2, <2>3 DEF FrameInside
  <2>5. "resolve" \in Pcs
    BY DEF Pcs
  <2>6. Goto("resolve", fr) /\ UNCHANGED callVars
    BY <1>2 DEF OpenClone
  <2> HIDE DEF fr
  <2> QED BY <1>a, <2>3, <2>4, <2>5, <2>6
<1>3. ASSUME NEW i \in Top.todo, NEW n \in Names, Listed(i, n), UNCHANGED callVars
      PROVE  CallOK' /\ Same
  <2> DEFINE fr == [Top EXCEPT !.todo = @ \ {i}, !.psnaps = @ \cup {n}]
  <2>1. fr \in Frames /\ fr.node = Top.node /\ fr.todo \subseteq Top.todo
        /\ fr.kids = Top.kids
    BY <1>0 DEF Frames
  <2>2. FrameInside(fr)
    BY <1>0, <2>1 DEF FrameInside
  <2>3. "resolve" \in Pcs
    BY DEF Pcs
  <2>4. Goto("resolve", fr)
    BY <1>3 DEF Listed
  <2> HIDE DEF fr
  <2> QED BY <1>3, <1>a, <2>1, <2>2, <2>3, <2>4
<1>4. ASSUME NEW i \in Top.todo, KeepName(i) \/ RenameConflict(i)
      PROVE  CallOK' /\ Same
  BY <1>3, <1>4, NewNames DEF KeepName, RenameConflict
<1>5. CASE PromoteClone
  BY <1>c, <1>5 DEF PromoteClone
<1>6. ASSUME NEW k \in Top.kids, Descend(k)
      PROVE  CallOK' /\ Same
  <2> DEFINE low == [Top EXCEPT !.kids = @ \ {k}]
             rest == [stack EXCEPT ![1] = low]
  <2>1. k \in Nodes /\ InTree(k)
    BY <1>0 DEF Frames, FrameInside
  <2>2. Frame(k) \in Frames /\ FrameInside(Frame(k))
    BY <2>1 DEF Frame, Frames, FrameInside, Pcs
  <2>3. low \in Frames /\ low.node = Top.node /\ low.todo = Top.todo
        /\ low.kids = Top.kids \ {k}
    BY <1>0 DEF Frames
  <2>4. FrameInside(low)
    BY <1>0, <2>3 DEF FrameInside
  <2>5. stack' = <<Frame(k)>> \o rest
    BY <1>6 DEF Descend
  <2> HIDE DEF low
  <2>6. /\ rest \in Seq(Frames) /\ Len(rest) = Len(stack) /\ rest[1] = low
        /\ \A j \in 1..Len(stack) : j # 1 => rest[j] = stack[j]
    BY <1>0, <2>3
  <2> HIDE DEF rest
  <2>7. /\ stack' \in Seq(Frames) /\ Len(stack') = Len(stack) + 1
        /\ stack'[1] = Frame(k)
        /\ \A j \in 2..Len(stack') : stack'[j] = rest[j - 1] /\ j - 1 \in 1..Len(stack)
    BY <1>0, <2>2, <2>5, <2>6
  <2>8. ASSUME NEW j \in 1..Len(stack')
        PROVE  FrameInside(stack'[j])
    <3>1. CASE j = 1
      BY <2>2, <2>7, <3>1
    <3>2. CASE j # 1
      <4>1. j \in 2..Len(stack')
        BY <1>0, <2>7, <3>2
      <4> QED BY <2>4, <2>6, <2>7, <4>1 DEF IInv, FramesInside
    <3> QED BY <3>1, <3>2
  <2>9. UNCHANGED callVars
    BY <1>6 DEF Descend
  <2>10. FramesInside'
    BY <2>8, <2>9 DEF FramesInside, FrameInside, InTree, callVars
  <2>11. stack' # <<>>
    BY <1>0, <2>7
  <2> QED BY <2>7, <2>9, <2>10, <2>11 DEF CallOK, callVars
<1>7. CASE DestroyNode
  <2>1. CASE Goto("reopen", Top) /\ UNCHANGED callVars
    BY <1>0, <1>a, <2>1 DEF Pcs
  <2> QED BY <1>7, <1>b, <2>1 DEF DestroyNode
<1>8. CASE ReopenClone
  <2> DEFINE fr == [Top EXCEPT !.names = NamesOf(ns, Top.clone)]
  <2>1. NamesOf(ns, Top.clone) \subseteq Names
    BY <1>0 DEF NamesOf, SnapsOf
  <2>2. fr \in Frames /\ fr.node = Top.node /\ fr.todo = Top.todo /\ fr.kids = Top.kids
    BY <1>0, <2>1 DEF Frames
  <2>3. FrameInside(fr)
    BY <1>0, <2>2 DEF FrameInside
  <2>4. "sweep" \in Pcs
    BY DEF Pcs
  <2>5. Goto("sweep", fr) /\ UNCHANGED callVars
    BY <1>8 DEF ReopenClone
  <2> HIDE DEF fr
  <2> QED BY <1>a, <2>2, <2>3, <2>4, <2>5
<1>9. ASSUME NEW n \in Top.psnaps, Sweep(n)
      PROVE  CallOK' /\ Same
  <2> DEFINE fr == [Top EXCEPT !.psnaps = @ \ {n}]
  <2>1. fr \in Frames /\ fr.node = Top.node /\ fr.todo = Top.todo /\ fr.kids = Top.kids
    BY <1>0 DEF Frames
  <2>2. FrameInside(fr)
    BY <1>0, <2>1 DEF FrameInside
  <2>3. "sweep" \in Pcs
    BY DEF Pcs
  <2>4. Goto("sweep", fr) /\ UNCHANGED callVars
    BY <1>9 DEF Sweep
  <2> HIDE DEF fr
  <2> QED BY <1>a, <2>1, <2>2, <2>3, <2>4
<1>10. CASE SweepDone
  BY <1>b, <1>10 DEF SweepDone
<1>11. CASE FailRefused \/ FailFault
  BY <1>d, <1>11 DEF FailRefused, FailFault
<1> QED BY <1>1, <1>2, <1>4, <1>5, <1>6, <1>7, <1>8, <1>9, <1>10, <1>11 DEF Step

LEMMA InitIInv == Init => IInv
<1> SUFFICES ASSUME Init PROVE IInv
  OBVIOUS
<1>1. WellFormed(Empty)
  BY DEF WellFormed, Empty, IsNamespace, Anchored, FSet, Ids
<1>2. WellFormed(ns)
  <2>1. /\ ns.fs = [p \in {Pool} |-> [born |-> 0, origin |-> NoSnap]]
        /\ ns.snap = [i \in {} |-> 0]
        /\ ns = [fs |-> ns.fs, snap |-> ns.snap]
    BY DEF Init
  <2>2. FSet(ns) = {Pool} /\ Ids(ns) = {}
    BY <2>1 DEF FSet, Ids
  <2> QED BY <2>1, <2>2 DEF WellFormed, IsNamespace, Anchored, NoSnap
<1>3. stack = <<>> /\ stack \in Seq(Frames) /\ Len(stack) = 0
  BY DEF Init
<1>4. TypeOK
  BY <1>1, <1>2, <1>3 DEF Init, TypeOK, WellFormed
<1>5. FramesInside
  BY <1>3 DEF FramesInside
<1>6. OutsideUntouched
  BY DEF Init, OutsideUntouched, Empty, FSet
<1> QED BY <1>4, <1>5, <1>6 DEF IInv

LEMMA NextIInv == IInv /\ [Next]_vars => IInv'
<1> SUFFICES ASSUME IInv, [Next]_vars PROVE IInv'
  OBVIOUS
<1>0. WellFormed(Empty)
  BY DEF WellFormed, Empty, IsNamespace, Anchored, FSet, Ids
<1>1. /\ WellFormed(ns')
      /\ \A f \in FSet(ns) :
           \/ f \in FSet(ns') /\ ns'.fs[f].born = ns.fs[f].born
           \/ status = "running" /\ Under(f, target)
  BY NamespaceStep
<1>3. ASSUME UNCHANGED <<target, view>>
      PROVE  OutsideUntouched'
  BY <1>1, <1>3 DEF IInv, OutsideUntouched, Survives
<1>4. CASE Client
  <2>1. UNCHANGED clientVars /\ txg' \in 0..MaxTxg /\ foreign' \subseteq Txgs
    <3>0. txg \in 0..MaxTxg /\ foreign \subseteq Txgs
      BY DEF IInv, TypeOK
    <3>1. ASSUME NEW f, DatasetCreate(f) \/ \E i \in Ids(ns) : Clone(i, f)
          PROVE  UNCHANGED <<clientVars, foreign>> /\ txg' \in 0..MaxTxg
      BY <3>0, <3>1 DEF DatasetCreate, Clone, ClientMayAct
    <3>2. ASSUME NEW f, NEW n, DatasetSnapshot(f, n)
          PROVE  /\ UNCHANGED clientVars /\ txg' \in 0..MaxTxg
                 /\ foreign' \subseteq foreign \cup {txg + 1} /\ txg + 1 \in Txgs
      BY <3>0, <3>2 DEF DatasetSnapshot, ClientMayAct, Txgs
    <3>3. ASSUME NEW c, ClientPromote(c)
          PROVE  UNCHANGED <<clientVars, foreign, txg>>
      BY <3>3 DEF ClientPromote
    <3> QED BY <1>4, <3>0, <3>1, <3>2, <3>3 DEF Client
  <2>2. FramesInside'
    BY <2>1 DEF clientVars, IInv, FramesInside, FrameInside, InTree
  <2>3. OutsideUntouched'
    BY <1>3, <2>1 DEF clientVars
  <2>4. quiet' \in BOOLEAN
    <3>1. quiet \in BOOLEAN
      BY DEF IInv, TypeOK
    <3>2. Noticed \/ quiet' = quiet
      BY <1>4 DEF Client, DatasetCreate, DatasetSnapshot, Clone, ClientPromote
    <3>3. Noticed => quiet' \in BOOLEAN
      BY DEF Noticed
    <3> QED BY <3>1, <3>2, <3>3
  <2>5. TypeOK'
    BY <1>1, <2>1, <2>4 DEF clientVars, IInv, TypeOK, WellFormed
  <2> QED BY <2>2, <2>3, <2>5 DEF IInv
<1>5. ASSUME NEW f \in Targets, Begin(f)
      PROVE  IInv'
  <2>1. /\ status' = "running" /\ target' = f /\ f \in Paths /\ view' = ns /\ ns' = ns
        /\ stack' = <<Frame(FsNode(f))>> /\ calls' \in 0..MaxCalls
        /\ UNCHANGED <<ns, txg, faults>> /\ quiet' = TRUE
    BY <1>5 DEF Begin, IInv, TypeOK
  <2>2. foreign' \subseteq Txgs
    BY <1>5, <1>1, <2>1 DEF Begin, WellFormed, IsNamespace
  <2>3. FsNode(f) \in Nodes /\ Under(f, f) /\ ~IsSnapshot(FsNode(f))
    BY <2>1, UnderReflexive DEF FsNode, Nodes, IsSnapshot, NoSnap
  <2>4. /\ Frame(FsNode(f)) \in Frames /\ Frame(FsNode(f)).node = FsNode(f)
        /\ Frame(FsNode(f)).todo = {} /\ Frame(FsNode(f)).kids = {}
    BY <2>3 DEF Frame, Frames, Pcs
  <2>5. /\ stack' \in Seq(Frames) /\ Len(stack') = 1 /\ stack' # <<>>
        /\ stack'[1] = Frame(FsNode(f))
    BY <2>1, <2>4
  <2>6. FramesInside'
    BY <2>1, <2>3, <2>4, <2>5 DEF FramesInside, FrameInside, InTree, FsNode
  <2>7. OutsideUntouched'
    BY <2>1 DEF OutsideUntouched, Survives
  <2>8. TypeOK'
    BY <1>1, <2>1, <2>2, <2>5 DEF IInv, TypeOK, WellFormed
  <2> QED BY <2>6, <2>7, <2>8 DEF IInv
<1>6. CASE status = "running" /\ Step
  <2>1. CallOK' /\ UNCHANGED <<target, view, foreign, quiet, calls, txg>>
    BY <1>6, StepKeepsCall
  <2>2. faults' \in 0..MaxFaults
    <3>1. faults' = faults \/ (faults < MaxFaults /\ faults' = faults + 1)
      BY <1>6 DEF Step, Search, OpenClone, KeepName, RenameConflict, PromoteClone,
                  Descend, DestroyNode, ReopenClone, Sweep, SweepDone, FailRefused,
                  FailFault
    <3> QED BY <3>1 DEF IInv, TypeOK
  <2>3. OutsideUntouched'
    BY <1>3, <2>1
  <2>4. TypeOK'
    BY <1>1, <2>1, <2>2 DEF IInv, TypeOK, WellFormed, CallOK
  <2> QED BY <2>1, <2>3, <2>4 DEF IInv, CallOK
<1>7. CASE Collect
  <2>1. /\ status' = "idle" /\ view' = Empty /\ foreign' = {} /\ target' = Pool /\ quiet' = TRUE
        /\ stack = <<>> /\ Len(stack) = 0
        /\ UNCHANGED <<ns, txg, stack, calls, faults>>
    BY <1>7 DEF Collect, IInv, TypeOK
  <2>2. FramesInside'
    BY <2>1 DEF FramesInside
  <2>3. OutsideUntouched'
    BY <2>1 DEF OutsideUntouched, Empty, FSet
  <2>4. TypeOK'
    BY <1>0, <1>1, <2>1 DEF IInv, TypeOK, WellFormed
  <2> QED BY <2>2, <2>3, <2>4 DEF IInv
<1>8. CASE UNCHANGED vars
  BY <1>8 DEF vars, IInv, TypeOK, FramesInside, FrameInside, InTree, OutsideUntouched,
              Survives
<1> QED BY <1>4, <1>5, <1>6, <1>7, <1>8 DEF Next

(* The variables of a DestroyPromote call stay in their ranges and the     *)
(* namespace it works on stays anchored, for every pool and every bound.   *)
THEOREM TypeCorrect == Spec => []TypeOK
<1>1. IInv => TypeOK
  BY DEF IInv
<1> QED BY InitIInv, NextIInv, <1>1, PTL DEF Spec

(* Every activation works on a node of the tree opened for the target.     *)
THEOREM StaysInside == Spec => []FramesInside
<1>1. IInv => FramesInside
  BY DEF IInv
<1> QED BY InitIInv, NextIInv, <1>1, PTL DEF Spec

(* DestroyPromote "will not destroy any dependent clones" (zfs.go:693-694) *)
(* nor any other filesystem outside its target, whatever the clients do    *)
(* and whatever libzfs calls fail meanwhile.                               *)
THEOREM NothingOutsideDestroyed == Spec => []OutsideUntouched
<1>1. IInv => OutsideUntouched
  BY DEF IInv
<1> QED BY InitIInv, NextIInv, <1>1, PTL DEF Spec

-----------------------------------------------------------------------------
(* A nil error means that nothing opened at or below the target is left.   *)
(* The kernel destroys no filesystem that has one below it, every          *)
(* filesystem hangs from the pool's root by filesystems, and the outermost *)
(* activation destroys the target itself: when it has, the subtree is      *)
(* empty, and what clients make there later is younger than what was       *)
(* opened.                                                                 *)
Rooted(n) ==
  \A f \in FSet(n) :
    Under(f, Pool) /\ \A k \in Len(Pool)..Len(f) : SubSeq(f, 1, k) \in FSet(n)

Gone == \A f \in FSet(view) : Under(f, target) => ~Survives(f)

Outermost == stack[Len(stack)]

Fate ==
  /\ stack # <<>> => Outermost.node = FsNode(target)
  /\ (stack # <<>> /\ Outermost.pc \in {"reopen", "sweep"}) => Gone
  /\ NilMeansGone

GInv ==
  /\ Rooted(ns) /\ Under(target, Pool)
  /\ \A f \in FSet(ns) : ns.fs[f].born <= txg
  /\ \A f \in FSet(view) : view.fs[f].born <= txg
  /\ Fate

LEMMA UnderEqual ==
  ASSUME NEW a \in Seq(STRING), NEW b \in Seq(STRING), Under(a, b), ~(Len(b) < Len(a))
  PROVE  a = b
<1>1. Len(a) = Len(b) /\ \A i \in 1..Len(a) : a[i] = b[i]
  BY DEF Under
<1> QED BY <1>1, SeqEqual

(* On the way from a filesystem down to another there is a child.          *)
LEMMA ChildOnTheWay ==
  ASSUME NEW n, FSet(n) \subseteq Paths, Rooted(n), NEW f \in FSet(n), NEW top \in Paths,
         Under(top, Pool), Under(f, top), f # top
  PROVE  ChildFs(n, top) # {}
<1> DEFINE g == SubSeq(f, 1, Len(top) + 1)
<1>1. f \in Seq(STRING) /\ top \in Seq(STRING) /\ Pool \in Seq(STRING) /\ top # <<>>
  OBVIOUS
<1>2. Len(top) + 1 \in 1..Len(f) /\ Len(top) + 1 \in Len(Pool)..Len(f)
  BY <1>1, UnderEqual DEF Under
<1>3. g \in FSet(n)
  BY <1>2 DEF Rooted
<1>4. g \in Seq(STRING) /\ Len(g) = Len(top) + 1 /\ \A i \in 1..Len(g) : g[i] = f[i]
  BY <1>1, <1>2
<1> HIDE DEF g
<1>5. IsChild(g, top)
  BY <1>1, <1>2, <1>4 DEF Under, IsChild
<1> QED BY <1>3, <1>5 DEF ChildFs

(* A new filesystem has its parent, a destroyed one had no child.          *)
LEMMA AddKeepsRooted ==
  ASSUME NEW n, NEW m, FSet(n) \subseteq Paths, Rooted(n), NEW f \in Paths, CanCreate(n, f),
         FSet(m) = FSet(n) \cup {f}
  PROVE  Rooted(m)
<1>1. PICK q \in FSet(n) : IsChild(f, q)
  BY DEF CanCreate
<1>2. /\ q \in Seq(STRING) /\ f \in Seq(STRING) /\ Pool \in Seq(STRING)
      /\ Len(f) = Len(q) + 1 /\ \A i \in 1..Len(q) : f[i] = q[i]
      /\ Under(f, q) /\ Under(q, Pool)
  BY <1>1 DEF IsChild, Under, Rooted
<1>3. Under(f, Pool)
  BY <1>2, UnderTransitive
<1>4. ASSUME NEW k \in Len(Pool)..Len(f) PROVE SubSeq(f, 1, k) \in FSet(m)
  <2>1. CASE k = Len(f)
    BY <1>2, <2>1
  <2>2. CASE k # Len(f)
    <3>1. k \in Len(Pool)..Len(q) /\ k \in Nat
      BY <1>2, <2>2
    <3>2. SubSeq(f, 1, k) = SubSeq(q, 1, k)
      BY <1>2, <3>1
    <3> QED BY <3>1, <3>2 DEF Rooted
  <2> QED BY <2>1, <2>2
<1> QED BY <1>3, <1>4 DEF Rooted

LEMMA DropKeepsRooted ==
  ASSUME NEW n, NEW m, FSet(n) \subseteq Paths, Rooted(n), NEW f \in Paths, Under(f, Pool),
         CanDestroyFs(n, f), FSet(m) = FSet(n) \ {f}
  PROVE  Rooted(m)
<1>1. ASSUME NEW g \in FSet(m), NEW k \in Len(Pool)..Len(g), SubSeq(g, 1, k) = f
      PROVE  FALSE
  <2>1. g \in FSet(n) /\ g # f /\ g \in Seq(STRING) /\ Pool \in Seq(STRING) /\ Pool # <<>>
    OBVIOUS
  <2>2. Under(g, f)
    BY <1>1, <2>1 DEF Under
  <2>3. f \in FSet(n)
    BY <1>1, <2>1 DEF Rooted
  <2> QED BY <2>1, <2>2, <2>3, ChildOnTheWay DEF CanDestroyFs
<1> QED BY <1>1 DEF Rooted

(* With the filesystem gone, nothing is left below it.                     *)
LEMMA DropEmpties ==
  ASSUME NEW n, FSet(n) \subseteq Paths, Rooted(n), NEW f \in Paths, Under(f, Pool),
         CanDestroyFs(n, f), NEW g \in FSet(n), Under(g, f)
  PROVE  g = f
<1>1. SUFFICES ASSUME g # f PROVE FALSE
  OBVIOUS
<1>2. ChildFs(n, f) # {}
  BY <1>1, ChildOnTheWay
<1>3. f \notin FSet(n)
  BY <1>2 DEF CanDestroyFs
<1>4. f \in Seq(STRING) /\ g \in Seq(STRING) /\ Pool \in Seq(STRING)
  OBVIOUS
<1>5. Len(f) \in Len(Pool)..Len(g)
  BY <1>4 DEF Under
<1>6. SubSeq(g, 1, Len(f)) = f
  <2> DEFINE h == SubSeq(g, 1, Len(f))
  <2>1. h \in Seq(STRING) /\ Len(h) = Len(f) /\ \A i \in 1..Len(h) : h[i] = g[i]
    BY <1>4, <1>5
  <2>2. \A i \in 1..Len(f) : h[i] = f[i]
    BY <2>1 DEF Under
  <2> HIDE DEF h
  <2>3. h = f
    BY <1>4, <2>1, <2>2, SeqEqual
  <2> QED BY <2>3 DEF h
<1> QED BY <1>3, <1>5, <1>6 DEF Rooted

(* A step adds one filesystem, younger than all, or takes the one the      *)
(* innermost activation is about, or leaves them as they are.              *)
SameFs == FSet(ns') = FSet(ns) /\ \A f \in FSet(ns) : ns'.fs[f].born = ns.fs[f].born

Added(f) ==
  /\ CanCreate(ns, f) /\ FSet(ns') = FSet(ns) \cup {f} /\ txg' = txg + 1
  /\ ns'.fs[f].born = txg + 1
  /\ \A g \in FSet(ns) : ns'.fs[g].born = ns.fs[g].born

Dropped ==
  /\ status = "running" /\ DestroyNode /\ ~IsSnapshot(Node) /\ CanDestroyFs(ns, Node.of)
  /\ FSet(ns') = FSet(ns) \ {Node.of} /\ txg' = txg
  /\ \A g \in FSet(ns) \ {Node.of} : ns'.fs[g].born = ns.fs[g].born

LEMMA FsStep ==
  ASSUME IInv, [Next]_vars
  PROVE  \/ SameFs /\ txg' \in {txg, txg + 1}
         \/ \E f \in Paths : Added(f)
         \/ Dropped
<1> DEFINE Same == SameFs /\ txg' \in {txg, txg + 1}
<1>1. ASSUME NEW f \in Paths, NEW o, CanCreate(ns, f), ns' = Create(ns, f, txg + 1, o),
             txg' = txg + 1
      PROVE  Added(f)
  <2>1. f \notin FSet(ns)
    BY <1>1 DEF CanCreate
  <2>2. ns'.fs = [g \in FSet(ns) \cup {f} |->
                    IF g = f THEN [born |-> txg + 1, origin |-> o] ELSE ns.fs[g]]
    BY <1>1 DEF Create
  <2>3. FSet(ns') = FSet(ns) \cup {f}
    BY <2>2 DEF FSet
  <2> QED BY <1>1, <2>1, <2>2, <2>3 DEF Added
<1>2. ASSUME NEW f, NEW n, NEW t, ns' = Snapshot(ns, f, n, t)
      PROVE  SameFs
  BY <1>2 DEF Snapshot, FSet, SameFs
<1>3. ASSUME NEW c, ns' = Promote(ns, c)
      PROVE  SameFs
  BY <1>3 DEF Promote, FSet, SameFs
<1>4. ASSUME NEW f, NEW n, NEW m, ns' = RenameSnap(ns, f, n, m)
      PROVE  SameFs
  BY <1>4 DEF RenameSnap, FSet, SameFs
<1>5. ASSUME NEW f, NEW n, ns' = DestroySnap(ns, f, n)
      PROVE  SameFs
  BY <1>5 DEF DestroySnap, FSet, SameFs
<1>6. ASSUME UNCHANGED ns
      PROVE  SameFs
  BY <1>6 DEF SameFs
<1>7. CASE Client
  BY <1>1, <1>2, <1>3, <1>7 DEF Client, DatasetCreate, DatasetSnapshot, Clone, ClientPromote
<1>8. CASE status = "running" /\ Step
  <2>1. txg' = txg
    BY <1>8, StepKeepsCall
  <2>2. CASE DestroyNode
    <3>1. CASE IsSnapshot(Node)
      BY <1>5, <2>1, <2>2, <3>1 DEF DestroyNode
    <3>2. CASE ~IsSnapshot(Node)
      <4>1. CanDestroyFs(ns, Node.of) /\ ns' = DestroyFs(ns, Node.of)
        BY <2>2, <3>2 DEF DestroyNode, CanDestroyNode
      <4>2. ns'.fs = [g \in FSet(ns) \ {Node.of} |-> ns.fs[g]]
        BY <4>1 DEF DestroyFs
      <4>3. FSet(ns') = FSet(ns) \ {Node.of}
        BY <4>2 DEF FSet
      <4> QED BY <1>8, <2>1, <2>2, <3>2, <4>1, <4>2, <4>3 DEF Dropped
    <3> QED BY <3>1, <3>2
  <2>3. CASE \E i \in Top.todo : KeepName(i) \/ RenameConflict(i)
    BY <1>4, <1>6, <2>1, <2>3 DEF KeepName, RenameConflict
  <2>4. CASE PromoteClone
    BY <1>3, <2>1, <2>4 DEF PromoteClone
  <2>5. CASE \E n \in Top.psnaps : Sweep(n)
    BY <1>5, <1>6, <2>1, <2>5 DEF Sweep
  <2>6. CASE Search \/ OpenClone \/ ReopenClone \/ SweepDone \/ FailRefused \/ FailFault
             \/ \E k \in Top.kids : Descend(k)
    BY <1>6, <2>1, <2>6 DEF Search, OpenClone, ReopenClone, SweepDone, FailRefused, FailFault, Descend
  <2> QED BY <1>8, <2>2, <2>3, <2>4, <2>5, <2>6 DEF Step
<1>9. CASE (\E f \in Targets : Begin(f)) \/ Collect \/ UNCHANGED vars
  BY <1>6, <1>9 DEF Begin, Collect, vars
<1> QED BY <1>7, <1>8, <1>9 DEF Next

(* What was opened and is gone stays gone, whoever creates it anew.        *)
LEMMA StaysGone ==
  ASSUME IInv, GInv, [Next]_vars, UNCHANGED <<view, target>>, Gone
  PROVE  Gone'
<1>1. txg \in Nat /\ \A f \in FSet(view) : view.fs[f].born \in Nat
  BY DEF IInv, TypeOK, IsNamespace
<1>2. \A f \in FSet(view) : view.fs[f].born <= txg
  BY DEF GInv
<1>3. ASSUME NEW f \in FSet(view), Under(f, target), f \in FSet(ns'),
             ns'.fs[f].born = view.fs[f].born
      PROVE  FALSE
  <2>1. f \notin FSet(ns) \/ ns.fs[f].born # view.fs[f].born
    BY <1>3 DEF Gone, Survives
  <2>2. CASE SameFs
    BY <1>3, <2>1, <2>2 DEF SameFs
  <2>3. ASSUME NEW g \in Paths, Added(g) PROVE FALSE
    <3>1. CASE f = g
      BY <1>1, <1>2, <1>3, <2>3, <3>1 DEF Added
    <3>2. CASE f # g
      BY <1>3, <2>1, <2>3, <3>2 DEF Added
    <3> QED BY <3>1, <3>2
  <2>4. CASE Dropped
    BY <1>3, <2>1, <2>4 DEF Dropped
  <2> QED BY <2>2, <2>3, <2>4, FsStep
<1> QED BY <1>3 DEF Gone, Survives

(* The namespace's half of the invariant.                                  *)
LEMMA SpaceStep ==
  ASSUME IInv, GInv, [Next]_vars
  PROVE  /\ Rooted(ns')
         /\ txg \in Nat /\ txg' \in Nat /\ txg <= txg'
         /\ \A f \in FSet(ns') : ns'.fs[f].born <= txg'
<1>1. /\ txg \in Nat /\ FSet(ns) \subseteq Paths /\ Rooted(ns)
      /\ \A f \in FSet(ns) : ns.fs[f].born \in Nat /\ ns.fs[f].born <= txg
  BY DEF IInv, GInv, TypeOK, IsNamespace
<1>2. CASE SameFs /\ txg' \in {txg, txg + 1}
  BY <1>1, <1>2 DEF SameFs, Rooted
<1>3. ASSUME NEW f \in Paths, Added(f)
      PROVE  Rooted(ns') /\ txg' = txg + 1 /\ \A g \in FSet(ns') : ns'.fs[g].born <= txg'
  <2>1. Rooted(ns')
    BY <1>1, <1>3, AddKeepsRooted DEF Added
  <2> QED BY <1>1, <1>3, <2>1 DEF Added
<1>4. CASE Dropped
  <2>1. Node.of \in Paths /\ Under(Node.of, target) /\ Under(target, Pool) /\ target \in Paths
    BY <1>4, TopFrame DEF Dropped, GInv, IInv, TypeOK
  <2>2. Under(Node.of, Pool)
    BY <2>1, UnderTransitive
  <2>3. Rooted(ns')
    BY <1>1, <1>4, <2>1, <2>2, DropKeepsRooted DEF Dropped
  <2> QED BY <1>1, <1>4, <2>3 DEF Dropped
<1> QED BY <1>1, <1>2, <1>3, <1>4, FsStep

(* The outermost activation is the innermost one when it is alone, and     *)
(* only then can a step touch it.                                          *)
LEMMA OutermostTop ==
  ASSUME IInv, status = "running"
  PROVE  /\ Len(stack) \in Nat /\ Len(stack) >= 1 /\ Outermost \in Frames
         /\ Len(stack) = 1 => Outermost = Top
<1>1. stack \in Seq(Frames) /\ stack # <<>>
  BY DEF IInv, TypeOK
<1>2. Len(stack) \in Nat /\ Len(stack) >= 1
  BY <1>1
<1> QED BY <1>1, <1>2 DEF Outermost, Top

LEMMA Several == ASSUME NEW m \in Nat, m >= 1, m # 1 PROVE 1 < m /\ 1 \in 1..m
OBVIOUS

LEMMA GotoOutermost ==
  ASSUME IInv, status = "running", NEW fr \in Frames, fr.node = Top.node, NEW pc \in Pcs,
         Goto(pc, fr)
  PROVE  /\ stack' # <<>>
         /\ Len(stack') = Len(stack)
         /\ \A k \in 1..Len(stack) : k # 1 => stack'[k] = stack[k]
         /\ Outermost'.node = Outermost.node
         /\ IF Len(stack) = 1 THEN Outermost'.pc = pc /\ Outermost'.clone = fr.clone
                              ELSE Outermost' = Outermost
         /\ stack'[1].node = fr.node /\ stack'[1].kids = fr.kids
<1> DEFINE new == [fr EXCEPT !.pc = pc]
<1>1. new \in Frames /\ new.node = fr.node /\ new.pc = pc /\ new.kids = fr.kids /\ new.clone = fr.clone
  BY DEF Frames
<1>2. stack' = [stack EXCEPT ![1] = new]
  BY DEF Goto
<1> HIDE DEF new
<1>3. stack \in Seq(Frames) /\ Len(stack) \in Nat /\ Len(stack) >= 1
  BY OutermostTop DEF IInv, TypeOK
<1>4. /\ stack' # <<>> /\ Len(stack') = Len(stack) /\ stack'[1] = new
      /\ \A k \in 1..Len(stack) : k # 1 => stack'[k] = stack[k]
  BY <1>1, <1>2, <1>3
<1>5. CASE Len(stack) = 1
  BY <1>1, <1>4, <1>5 DEF Outermost, Top
<1>6. CASE Len(stack) # 1
  <2>1. Len(stack) \in 1..Len(stack)
    BY <1>3
  <2> QED BY <1>1, <1>4, <1>6, <2>1 DEF Outermost
<1> QED BY <1>1, <1>4, <1>5, <1>6

(* How a step of the call changes the stack.                               *)
Moved(pc) ==
  \E fr \in Frames :
    /\ fr.node = Top.node
    /\ fr.kids \subseteq Top.kids \cup Children(view, Node)
    /\ fr.clone = Top.clone \/ (Top.pc = "search" /\ IsFirstClone(view, Node, ns, fr.clone))
    /\ Goto(pc, fr)

LEMMA StackStep ==
  ASSUME IInv, status = "running", Step
  PROVE  \/ /\ status' = "running" /\ SameFs /\ Top.pc \in {"search", "open", "resolve"}
            /\ \E pc \in {"open", "resolve", "children"} : Moved(pc)
         \/ status' = "running" /\ Moved("reopen") /\ DestroyNode /\ Top.clone # NoClone
         \/ status' = "running" /\ Moved("sweep") /\ Top.pc \in {"reopen", "sweep"}
         \/ status' = "running" /\ UNCHANGED ns /\ \E k \in Top.kids : Descend(k)
         \/ ReturnNil /\ (DestroyNode \/ Top.pc = "sweep")
         \/ Abort /\ UNCHANGED ns /\ (Refused \/ faults' # 0)
<1>1. /\ Top \in Frames /\ ns.snap \in [Ids(ns) -> [of : Paths, name : Names]]
      /\ Ids(view) \subseteq Txgs
  BY TopFrame DEF IInv, TypeOK, IsNamespace
<1>2. \A f : NamesOf(ns, f) \subseteq Names
  BY <1>1 DEF NamesOf, SnapsOf
<1>3. UNCHANGED ns => SameFs
  BY DEF SameFs
<1>4. ASSUME EnterChildren(Top) PROVE Moved("children")
  <2> DEFINE fr == [Top EXCEPT !.kids = Children(view, Node)]
  <2>1. /\ fr \in Frames /\ fr.node = Top.node /\ fr.clone = Top.clone
        /\ fr.kids = Children(view, Node)
    BY <1>1, ChildrenInside DEF Frames
  <2>2. Goto("children", fr)
    BY <1>4 DEF EnterChildren
  <2> HIDE DEF fr
  <2> QED BY <2>1, <2>2 DEF Moved
<1>5. CASE Search
  <2>1. status' = "running" /\ SameFs /\ Top.pc = "search"
    BY <1>3, <1>5 DEF Search, At, callVars
  <2>2. ASSUME NEW c \in FSet(ns), IsFirstClone(view, Node, ns, c), Goto("open", [Top EXCEPT !.clone = c])
        PROVE  Moved("open")
    <3> DEFINE fr == [Top EXCEPT !.clone = c]
    <3>1. c \in Paths /\ Top.pc = "search"
      BY <1>5 DEF IInv, TypeOK, IsNamespace, Search, At
    <3>2. fr \in Frames /\ fr.node = Top.node /\ fr.kids = Top.kids /\ fr.clone = c
      BY <1>1, <3>1 DEF Frames
    <3> HIDE DEF fr
    <3>3. Goto("open", fr)
      BY <2>2 DEF fr
    <3> QED BY <2>2, <3>1, <3>2, <3>3 DEF Moved
  <2> QED BY <1>4, <1>5, <2>1, <2>2 DEF Search
<1>6. CASE OpenClone
  <2> DEFINE fr == [Top EXCEPT !.names = NamesOf(ns, Top.clone), !.todo = Snapshots(view, Node)]
  <2>1. Snapshots(view, Node) \subseteq Txgs
    BY <1>1 DEF Snapshots, SnapsOf
  <2>2. fr \in Frames /\ fr.node = Top.node /\ fr.kids = Top.kids /\ fr.clone = Top.clone
    BY <1>1, <1>2, <2>1 DEF Frames
  <2>3. Goto("resolve", fr) /\ status' = "running" /\ SameFs /\ Top.pc = "open"
    BY <1>3, <1>6 DEF OpenClone, At, callVars
  <2> HIDE DEF fr
  <2> QED BY <2>2, <2>3 DEF Moved
<1>7. ASSUME NEW i \in Top.todo, NEW n \in Names, Listed(i, n)
      PROVE  Moved("resolve")
  <2> DEFINE fr == [Top EXCEPT !.todo = @ \ {i}, !.psnaps = @ \cup {n}]
  <2>1. fr \in Frames /\ fr.node = Top.node /\ fr.kids = Top.kids /\ fr.clone = Top.clone
    BY <1>1 DEF Frames
  <2>2. Goto("resolve", fr)
    BY <1>7 DEF Listed
  <2> HIDE DEF fr
  <2> QED BY <2>1, <2>2 DEF Moved
<1>8. ASSUME NEW i \in Top.todo, KeepName(i) \/ RenameConflict(i)
      PROVE  status' = "running" /\ SameFs /\ Moved("resolve") /\ Top.pc = "resolve"
  <2>1. status' = "running" /\ Moved("resolve") /\ Top.pc = "resolve"
    BY <1>7, <1>8, NewNames DEF KeepName, RenameConflict, At, callVars
  <2>2. SameFs
    BY <1>3, <1>8 DEF KeepName, RenameConflict, RenameSnap, FSet, SameFs
  <2> QED BY <2>1, <2>2
<1>9. CASE PromoteClone
  <2>1. SameFs
    BY <1>9 DEF PromoteClone, Promote, FSet, SameFs
  <2> QED BY <1>4, <1>9, <2>1 DEF PromoteClone, At, callVars
<1>10. ASSUME NEW k \in Top.kids, Descend(k)
       PROVE  status' = "running" /\ UNCHANGED ns
  BY <1>10 DEF Descend, At, callVars
<1>11. CASE DestroyNode
  <2>1. CASE Top.clone # NoClone /\ Goto("reopen", Top) /\ UNCHANGED callVars
    BY <1>1, <1>11, <2>1 DEF Moved, callVars
  <2> QED BY <1>11, <2>1 DEF DestroyNode
<1>12. CASE ReopenClone
  <2> DEFINE fr == [Top EXCEPT !.names = NamesOf(ns, Top.clone)]
  <2>1. fr \in Frames /\ fr.node = Top.node /\ fr.kids = Top.kids /\ fr.clone = Top.clone
    BY <1>1, <1>2 DEF Frames
  <2>2. Goto("sweep", fr) /\ status' = "running" /\ Top.pc = "reopen"
    BY <1>12 DEF ReopenClone, At, callVars
  <2> HIDE DEF fr
  <2> QED BY <2>1, <2>2 DEF Moved
<1>13. ASSUME NEW n \in Top.psnaps, Sweep(n)
       PROVE  status' = "running" /\ Moved("sweep") /\ Top.pc = "sweep"
  <2> DEFINE fr == [Top EXCEPT !.psnaps = @ \ {n}]
  <2>1. fr \in Frames /\ fr.node = Top.node /\ fr.kids = Top.kids /\ fr.clone = Top.clone
    BY <1>1 DEF Frames
  <2>2. Goto("sweep", fr) /\ status' = "running" /\ Top.pc = "sweep"
    BY <1>13 DEF Sweep, At, callVars
  <2> HIDE DEF fr
  <2> QED BY <2>1, <2>2 DEF Moved
<1>14. CASE SweepDone
  BY <1>14 DEF SweepDone, At
<1>15. CASE FailRefused
  BY <1>15 DEF FailRefused
<1>16. CASE FailFault
  <2>1. faults \in Nat /\ faults' = faults + 1
    BY <1>16 DEF FailFault, IInv, TypeOK
  <2> QED BY <1>16, <2>1 DEF FailFault
<1> QED BY <1>5, <1>6, <1>8, <1>9, <1>10, <1>11, <1>12, <1>13, <1>14, <1>15, <1>16 DEF Step

(* When the outermost activation has destroyed its node, all is gone.      *)
LEMMA DestroysAll ==
  ASSUME IInv, GInv, [Next]_vars, status = "running", Step, DestroyNode, Len(stack) = 1
  PROVE  Gone'
<1>1. Node = FsNode(target) /\ stack # <<>>
  BY OutermostTop, TopFrame DEF GInv, Fate, Node
<1>2. Node.of = target /\ ~IsSnapshot(Node)
  BY <1>1 DEF FsNode, IsSnapshot
<1>3. CanDestroyFs(ns, target) /\ ns' = DestroyFs(ns, target)
  BY <1>2 DEF DestroyNode, CanDestroyNode
<1>4. FSet(ns') = FSet(ns) \ {target}
  BY <1>3 DEF DestroyFs, FSet
<1>5. FSet(ns) \subseteq Paths /\ Rooted(ns) /\ target \in Paths /\ Under(target, Pool)
  BY DEF IInv, GInv, TypeOK, IsNamespace
<1>6. \A f \in FSet(ns') : ~Under(f, target)
  BY <1>3, <1>4, <1>5, DropEmpties
<1>7. UNCHANGED <<target, view>>
  BY StepKeepsCall
<1> QED BY <1>6, <1>7 DEF Gone, Survives

LEMMA InitGInv == Init => GInv
<1> SUFFICES ASSUME Init PROVE GInv
  OBVIOUS
<1>1. ns.fs = [p \in {Pool} |-> [born |-> 0, origin |-> NoSnap]] /\ FSet(ns) = {Pool}
  BY DEF Init, FSet
<1>2. Pool \in Seq(STRING) /\ Under(Pool, Pool)
  BY UnderReflexive
<1>3. Rooted(ns)
  <2>1. \A k \in Len(Pool)..Len(Pool) : SubSeq(Pool, 1, k) = Pool
    BY <1>2
  <2> QED BY <1>1, <1>2, <2>1 DEF Rooted
<1>4. FSet(view) = {} /\ txg = 0 /\ stack = <<>> /\ status = "idle" /\ target = Pool
  BY DEF Init, Empty, FSet
<1> QED BY <1>1, <1>2, <1>3, <1>4 DEF GInv, Fate, NilMeansGone

LEMMA NextGInv == IInv /\ GInv /\ [Next]_vars => GInv'
<1> SUFFICES ASSUME IInv, GInv, [Next]_vars PROVE GInv'
  OBVIOUS
<1>1. /\ Rooted(ns') /\ txg \in Nat /\ txg' \in Nat /\ txg <= txg'
      /\ \A f \in FSet(ns') : ns'.fs[f].born <= txg'
  BY SpaceStep
<1>2. Fate /\ Under(target, Pool) /\ \A f \in FSet(view) : view.fs[f].born <= txg /\ view.fs[f].born \in Nat
  BY DEF GInv, IInv, TypeOK, IsNamespace
<1>3. ASSUME UNCHANGED <<view, target>>, Fate'
      PROVE  GInv'
  BY <1>1, <1>2, <1>3 DEF GInv
<1>4. ASSUME UNCHANGED <<view, target, stack, status>>
      PROVE  GInv'
  <2>1. Gone => Gone'
    BY <1>4, StaysGone
  <2>2. NilMeansGone'
    BY <1>2, <1>4, <2>1 DEF Fate, NilMeansGone, Gone
  <2>3. UNCHANGED Outermost
    BY <1>4 DEF Outermost
  <2>4. Fate'
    BY <1>2, <1>4, <2>1, <2>2, <2>3 DEF Fate
  <2> QED BY <1>3, <1>4, <2>4
<1>5. CASE Client
  BY <1>4, <1>5 DEF Client, DatasetCreate, DatasetSnapshot, Clone, ClientPromote, clientVars
<1>6. CASE UNCHANGED vars
  BY <1>4, <1>6 DEF vars
<1>7. ASSUME NEW f \in Targets, Begin(f)
      PROVE  GInv'
  <2>1. /\ status' = "running" /\ target' = f /\ f \in FSet(ns) /\ view' = ns /\ UNCHANGED <<ns, txg>>
        /\ stack' = <<Frame(FsNode(f))>>
    BY <1>7 DEF Begin
  <2>2. Len(stack') = 1 /\ stack'[1] = Frame(FsNode(f))
    BY <2>1
  <2>3. Frame(FsNode(f)).node = FsNode(f) /\ Frame(FsNode(f)).pc = "search"
    BY DEF Frame
  <2>4. Outermost'.node = FsNode(f) /\ Outermost'.pc = "search"
    BY <2>2, <2>3 DEF Outermost
  <2>5. Fate'
    BY <2>1, <2>4 DEF Fate, NilMeansGone
  <2>6. Under(f, Pool)
    BY <2>1 DEF GInv, Rooted
  <2> QED BY <1>1, <2>1, <2>5, <2>6 DEF GInv
<1>8. CASE Collect
  <2>1. /\ status' = "idle" /\ view' = Empty /\ target' = Pool /\ stack' = <<>>
        /\ UNCHANGED <<ns, txg>>
    BY <1>8 DEF Collect, IInv, TypeOK
  <2>2. FSet(Empty) = {} /\ Under(Pool, Pool)
    BY UnderReflexive DEF Empty, FSet
  <2> QED BY <1>1, <2>1, <2>2 DEF GInv, Fate, NilMeansGone
<1>9. CASE status = "running" /\ Step
  <2>1. UNCHANGED <<view, target>> /\ (Gone => Gone')
    BY <1>9, StepKeepsCall, StaysGone
  <2>2. stack # <<>> /\ stack \in Seq(Frames)
    BY <1>9, TopFrame
  <2>3. ASSUME NEW pc \in Pcs, Moved(pc), status' = "running",
               Len(stack) = 1 /\ pc \in {"reopen", "sweep"} => Gone'
        PROVE  Fate'
    <3>1. /\ Outermost'.node = Outermost.node
          /\ Outermost'.pc = Outermost.pc \/ (Len(stack) = 1 /\ Outermost'.pc = pc)
      BY <1>9, <2>3, GotoOutermost DEF Moved
    <3> QED BY <1>2, <2>1, <2>2, <2>3, <3>1 DEF Fate, NilMeansGone
  <2>4. ASSUME /\ status' = "running" /\ SameFs /\ Top.pc \in {"search", "open", "resolve"}
               /\ \E pc \in {"open", "resolve", "children"} : Moved(pc)
        PROVE  Fate'
    BY <2>3, <2>4 DEF Pcs
  <2>5. ASSUME status' = "running" /\ Moved("reopen") /\ DestroyNode /\ Top.clone # NoClone
        PROVE  Fate'
    BY <1>9, <2>3, <2>5, DestroysAll DEF Pcs
  <2>6. ASSUME status' = "running" /\ Moved("sweep") /\ Top.pc \in {"reopen", "sweep"}
        PROVE  Fate'
    <3>1. Len(stack) = 1 => Gone'
      BY <1>2, <1>9, <2>1, <2>2, <2>6, OutermostTop DEF Fate
    <3> QED BY <2>3, <2>6, <3>1 DEF Pcs
  <2>7. ASSUME status' = "running", UNCHANGED ns, NEW k \in Top.kids, Descend(k)
        PROVE  Fate'
    <3> DEFINE rest == [stack EXCEPT ![1] = [Top EXCEPT !.kids = @ \ {k}]]
    <3>1. Frame(k) \in Frames /\ [Top EXCEPT !.kids = @ \ {k}] \in Frames
      BY <1>9, TopFrame DEF Frame, Frames, Pcs
    <3>2. stack' = <<Frame(k)>> \o rest
      BY <2>7 DEF Descend
    <3>3. /\ rest \in Seq(Frames) /\ Len(rest) = Len(stack)
          /\ rest[1] = [Top EXCEPT !.kids = @ \ {k}]
          /\ \A j \in 1..Len(stack) : j # 1 => rest[j] = stack[j]
      BY <2>2, <3>1
    <3>4. rest[1].node = Top.node /\ rest[1].pc = Top.pc
      BY <1>9, <3>3, TopFrame DEF Frames
    <3>5. rest[Len(rest)].node = Outermost.node /\ rest[Len(rest)].pc = Outermost.pc
      BY <1>9, <3>3, <3>4, OutermostTop DEF Outermost
    <3> HIDE DEF rest
    <3>6. Len(stack') = Len(rest) + 1 /\ stack'[Len(rest) + 1] = rest[Len(rest)]
      BY <1>9, <3>1, <3>2, <3>3, OutermostTop
    <3>7. Outermost' = rest[Len(rest)]
      BY <3>6 DEF Outermost
    <3> QED BY <1>2, <2>1, <2>2, <2>7, <3>5, <3>7 DEF Fate, NilMeansGone
  <2>8. ASSUME ReturnNil /\ (DestroyNode \/ Top.pc = "sweep")
        PROVE  Fate'
    <3>1. stack' = Tail(stack)
      BY <2>8 DEF ReturnNil
    <3>2. CASE Len(stack) = 1
      <4>1. Gone'
        BY <1>2, <1>9, <2>1, <2>2, <2>8, <3>2, DestroysAll, OutermostTop DEF Fate
      <4>2. stack' = <<>>
        BY <2>2, <3>1, <3>2
      <4> QED BY <4>1, <4>2 DEF Fate, NilMeansGone, Gone
    <3>3. CASE Len(stack) # 1
      <4>1. /\ Len(stack') = Len(stack) - 1
            /\ \A j \in 1..Len(stack') : stack'[j] = stack[j + 1]
        BY <2>2, <3>1
      <4>2. Len(stack) - 1 \in 1..Len(stack') /\ (Len(stack) - 1) + 1 = Len(stack)
        BY <1>9, <3>3, <4>1, OutermostTop
      <4>3. Outermost' = Outermost
        BY <4>1, <4>2 DEF Outermost
      <4>4. status' = "running"
        BY <2>8, <3>3 DEF ReturnNil
      <4> QED BY <1>2, <2>1, <2>2, <4>3, <4>4 DEF Fate, NilMeansGone
    <3> QED BY <3>2, <3>3
  <2>9. ASSUME Abort /\ UNCHANGED ns /\ (Refused \/ faults' # 0)
        PROVE  Fate'
    BY <2>9 DEF Abort, Fate, NilMeansGone
  <2> QED BY <1>3, <1>9, <2>1, <2>4, <2>5, <2>6, <2>7, <2>8, <2>9, StackStep
<1> QED BY <1>5, <1>6, <1>7, <1>8, <1>9 DEF Next

(* A nil error from DestroyPromote (zfs.go:703-768) means that the target  *)
(* and everything that was opened below it is gone, whatever clients make, *)
(* clone and promote while the call runs and whatever fails in its sweeps. *)
THEOREM NilMeansDestroyed == Spec => []NilMeansGone
<1>1. GInv => NilMeansGone
  BY DEF GInv, Fate
<1> QED BY InitIInv, NextIInv, InitGInv, NextGInv, <1>1, PTL DEF Spec

-----------------------------------------------------------------------------
(* An error that no fault explains leaves the target there, when no client *)
(* acts and no clone of the subtree lies in the subtree.  Only the         *)
(* outermost activation destroys the target; after that it can only fail   *)
(* to open its clone again, which it found in the pool as it was opened,   *)
(* outside the subtree, where the call destroys nothing.                   *)
Deeper(d) == IsSnapshot(d) \/ Len(d.of) > Len(target)

StackBelow ==
  /\ \A k \in 1..Len(stack) : \A d \in stack[k].kids : Deeper(d)
  /\ \A k \in 1..Len(stack) : k < Len(stack) => Deeper(stack[k].node)
  /\ Len(stack) > 1 => Outermost.pc = "children"

OutsideClone == Outermost.clone \in FSet(view) /\ ~Under(Outermost.clone, target)

TargetKept ==
  stack # <<>> =>
    /\ Outermost.pc = "search" => ns = view
    /\ Outermost.pc \notin {"reopen", "sweep"} => target \in FSet(ns)
    /\ Outermost.clone # NoClone /\ ~InnerClone => OutsideClone
    /\ Outermost.pc = "reopen" => Outermost.clone # NoClone

EInv ==
  /\ StackBelow
  /\ quiet => TargetKept
  /\ QuietErrorLeavesTarget

(* The children of a node are deeper than the target.                      *)
LEMMA ChildrenDeeper ==
  ASSUME IInv, status = "running", NEW d \in Children(view, Node)
  PROVE  Deeper(d)
<1>1. /\ Node.of \in Seq(STRING) /\ target \in Seq(STRING) /\ Len(Node.of) >= Len(target)
      /\ FSet(view) \subseteq Paths /\ Ids(view) \subseteq Txgs
  BY TopFrame DEF IInv, TypeOK, IsNamespace, Under
<1>2. CASE \E g \in ChildFs(view, Node.of) : d = FsNode(g)
  BY <1>1, <1>2 DEF ChildFs, IsChild, FsNode, Deeper
<1>3. CASE \E i \in SnapsOf(view, Node.of) : d = SnapNode(Node.of, i)
  BY <1>1, <1>3 DEF SnapsOf, SnapNode, Deeper, IsSnapshot, NoSnap, Txgs
<1> QED BY <1>2, <1>3 DEF Children

LEMMA MovedBelow ==
  ASSUME IInv, GInv, StackBelow, status = "running", Step, NEW pc \in Pcs, Moved(pc)
  PROVE  StackBelow'
<1>1. PICK fr \in Frames :
        /\ fr.node = Top.node /\ fr.kids \subseteq Top.kids \cup Children(view, Node)
        /\ Goto(pc, fr)
  BY DEF Moved
<1>2. /\ Len(stack') = Len(stack) /\ stack'[1].node = Top.node /\ stack'[1].kids = fr.kids
      /\ \A k \in 1..Len(stack) : k # 1 => stack'[k] = stack[k]
      /\ Len(stack) # 1 => Outermost' = Outermost
  BY <1>1, GotoOutermost
<1>3. Len(stack) \in Nat /\ Len(stack) >= 1
  BY OutermostTop
<1>4. UNCHANGED target
  BY StepKeepsCall
<1>5. \A d \in fr.kids : Deeper(d)
  BY <1>1, <1>3, ChildrenDeeper DEF StackBelow, Top
<1>6. \A k \in 1..Len(stack') : \A d \in stack'[k].kids : Deeper(d)
  BY <1>2, <1>5 DEF StackBelow
<1>7. \A k \in 1..Len(stack') : k < Len(stack') => Deeper(stack'[k].node)
  BY <1>2 DEF StackBelow, Top
<1>8. Len(stack') > 1 => Outermost'.pc = "children"
  BY <1>2, <1>3 DEF StackBelow
<1> QED BY <1>4, <1>6, <1>7, <1>8 DEF StackBelow, Deeper

LEMMA DescendBelow ==
  ASSUME IInv, StackBelow, status = "running", Step, NEW k \in Top.kids, Descend(k)
  PROVE  /\ StackBelow' /\ stack' # <<>>
         /\ Outermost'.pc = "children" /\ Outermost'.clone = Outermost.clone
         /\ Outermost.pc = "children"
<1> DEFINE low == [Top EXCEPT !.kids = @ \ {k}]
           rest == [stack EXCEPT ![1] = low]
<1>1. Frame(k) \in Frames /\ Frame(k).node = k /\ Frame(k).kids = {}
  BY TopFrame DEF Frame, Frames, Pcs
<1>2. low \in Frames /\ low.node = Top.node /\ low.kids \subseteq Top.kids /\ low.pc = Top.pc /\ low.clone = Top.clone
  BY TopFrame DEF Frames
<1>3. stack' = <<Frame(k)>> \o rest /\ Top.pc = "children"
  BY DEF Descend, At
<1>4. stack \in Seq(Frames) /\ Len(stack) \in Nat /\ Len(stack) >= 1
  BY TopFrame, OutermostTop
<1> HIDE DEF low
<1>5. /\ rest \in Seq(Frames) /\ Len(rest) = Len(stack) /\ rest[1] = low
      /\ \A j \in 1..Len(stack) : j # 1 => rest[j] = stack[j]
  BY <1>2, <1>4
<1> HIDE DEF rest
<1>6. /\ Len(stack') = Len(stack) + 1 /\ stack'[1] = Frame(k) /\ stack' # <<>>
      /\ \A j \in 1..Len(stack) : stack'[j + 1] = rest[j]
      /\ \A j \in 1..Len(stack') : j # 1 => stack'[j] = rest[j - 1] /\ j - 1 \in 1..Len(stack)
  BY <1>1, <1>3, <1>4, <1>5
<1>7. Outermost' = rest[Len(stack)]
  BY <1>4, <1>6 DEF Outermost
<1>8. Outermost'.pc = "children" /\ Outermost'.clone = Outermost.clone /\ Outermost.pc = "children"
  <2>1. CASE Len(stack) = 1
    BY <1>2, <1>3, <1>5, <1>7, <2>1, OutermostTop
  <2>2. CASE Len(stack) # 1
    BY <1>4, <1>5, <1>7, <2>2 DEF Outermost, StackBelow
  <2> QED BY <2>1, <2>2
<1>9. UNCHANGED target
  BY StepKeepsCall
<1>10. \A j \in 1..Len(rest) : /\ \A d \in rest[j].kids : Deeper(d)
                               /\ j < Len(rest) => Deeper(rest[j].node)
  <2> SUFFICES ASSUME NEW j \in 1..Len(stack)
               PROVE  /\ \A d \in rest[j].kids : Deeper(d)
                      /\ j < Len(stack) => Deeper(rest[j].node)
    BY <1>5
  <2>1. \A d \in stack[j].kids : Deeper(d)
    BY DEF StackBelow
  <2>2. j < Len(stack) => Deeper(stack[j].node)
    BY DEF StackBelow
  <2>3. rest[j].node = stack[j].node /\ rest[j].kids \subseteq stack[j].kids
    BY <1>2, <1>5 DEF Top
  <2> QED BY <2>1, <2>2, <2>3
<1>11. Deeper(k)
  BY <1>4 DEF StackBelow, Top
<1>12. \A j \in 1..Len(stack') : /\ \A d \in stack'[j].kids : Deeper(d)
                                 /\ j < Len(stack') => Deeper(stack'[j].node)
  <2> SUFFICES ASSUME NEW j \in 1..Len(stack')
               PROVE  /\ \A d \in stack'[j].kids : Deeper(d)
                      /\ j < Len(stack') => Deeper(stack'[j].node)
    OBVIOUS
  <2>1. CASE j = 1
    BY <1>1, <1>6, <1>11, <2>1
  <2>2. CASE j # 1
    <3>1. stack'[j] = rest[j - 1] /\ j - 1 \in 1..Len(rest)
      BY <1>5, <1>6, <2>2
    <3>2. j < Len(stack') => j - 1 < Len(rest)
      BY <1>4, <1>5, <1>6
    <3> QED BY <1>10, <3>1, <3>2
  <2> QED BY <2>1, <2>2
<1> QED BY <1>6, <1>8, <1>9, <1>12 DEF StackBelow, Deeper

LEMMA ReturnBelow ==
  ASSUME IInv, StackBelow, status = "running", Step, ReturnNil
  PROVE  StackBelow' /\ (stack' # <<>> => Outermost' = Outermost /\ Len(stack) # 1)
<1>1. stack' = Tail(stack) /\ stack \in Seq(Frames) /\ Len(stack) \in Nat /\ Len(stack) >= 1
      /\ stack # <<>>
  BY TopFrame, OutermostTop DEF ReturnNil
<1>2. /\ Len(stack') = Len(stack) - 1
      /\ \A j \in 1..Len(stack') : stack'[j] = stack[j + 1] /\ j + 1 \in 1..Len(stack)
  BY <1>1
<1>3. UNCHANGED target
  BY StepKeepsCall
<1>4. ASSUME Len(stack) # 1 PROVE Outermost' = Outermost
  <2>1. Len(stack') \in 1..Len(stack') /\ Len(stack') + 1 = Len(stack)
    BY <1>1, <1>2, <1>4
  <2> QED BY <1>2, <2>1 DEF Outermost
<1>5. Len(stack) = 1 => stack' = <<>>
  BY <1>1
<1>6. Len(stack') > 1 => Len(stack) > 1 /\ Len(stack) # 1
  BY <1>1, <1>2
<1>7. \A j \in 1..Len(stack') : /\ \A d \in stack'[j].kids : Deeper(d)
                                /\ j < Len(stack') => Deeper(stack'[j].node)
  <2> SUFFICES ASSUME NEW j \in 1..Len(stack')
               PROVE  /\ \A d \in stack'[j].kids : Deeper(d)
                      /\ j < Len(stack') => Deeper(stack'[j].node)
    OBVIOUS
  <2>1. stack'[j] = stack[j + 1] /\ j + 1 \in 1..Len(stack)
    BY <1>2
  <2>2. j < Len(stack') => j + 1 < Len(stack)
    BY <1>1, <1>2
  <2> QED BY <2>1, <2>2 DEF StackBelow
<1> QED BY <1>3, <1>4, <1>5, <1>6, <1>7 DEF StackBelow, Deeper

(* The target goes with the outermost activation only.                     *)
LEMMA TargetStays ==
  ASSUME IInv, StackBelow, [Next]_vars, status = "running", Step, target \in FSet(ns),
         SameFs \/ Len(stack) # 1
  PROVE  target \in FSet(ns')
<1>1. CASE SameFs
  BY <1>1 DEF SameFs
<1>2. ASSUME NEW f \in Paths, Added(f) PROVE target \in FSet(ns')
  BY <1>2 DEF Added
<1>3. CASE Dropped /\ Len(stack) # 1
  <2>1. 1 \in 1..Len(stack) /\ 1 < Len(stack)
    BY <1>3, OutermostTop, Several
  <2>2. Deeper(Node)
    BY <2>1 DEF StackBelow, Node, Top
  <2>3. Len(Node.of) > Len(target) /\ Node.of \in Seq(STRING) /\ target \in Seq(STRING)
    BY <1>3, <2>2, TopFrame DEF Dropped, Deeper, IInv, TypeOK
  <2>4. Node.of # target
    BY <2>3
  <2> QED BY <1>3, <2>4 DEF Dropped
<1> QED BY <1>1, <1>2, <1>3, FsStep

(* The clone that the outermost activation finds is outside the subtree.   *)
LEMMA FoundOutside ==
  ASSUME IInv, ns = view, Node = FsNode(target), ~InnerClone, NEW c, IsFirstClone(view, Node, ns, c),
         target \in FSet(view)
  PROVE  c \in FSet(view) /\ ~Under(c, target)
<1>1. c \in FSet(view) /\ IsHit(view, Node, view, c)
  BY DEF IsFirstClone, FoundClones
<1>2. view.fs[c].origin # NoSnap /\ view.snap[view.fs[c].origin].of = target
  BY <1>1 DEF IsHit, OriginIn, FsNode
<1>3. CloneOf(c, target) /\ Inner(target)
  BY <1>2, UnderReflexive DEF CloneOf, Inner, IInv, TypeOK
<1> QED BY <1>1, <1>3 DEF InnerClone, Inner

(* What is refused to the outermost activation once the target is gone:    *)
(* nothing, because its clone is still there.                              *)
LEMMA RefusedEarly ==
  ASSUME IInv, StackBelow, TargetKept, status = "running", Refused, ~InnerClone
  PROVE  target \in FSet(ns)
<1>1. stack # <<>> /\ Top.pc \in {"open", "resolve", "children", "reopen"}
  BY TopFrame DEF Refused, At
<1>2. CASE Outermost.pc \notin {"reopen", "sweep"}
  BY <1>1, <1>2 DEF TargetKept
<1>3. CASE Outermost.pc \in {"reopen", "sweep"}
  <2>1. Len(stack) = 1
    BY <1>3, OutermostTop, Several DEF StackBelow
  <2>2. Top = Outermost /\ Top.pc = "reopen"
    BY <1>1, <1>3, <2>1, OutermostTop
  <2>3. Top.clone \in FSet(view) /\ ~Under(Top.clone, target)
    BY <1>1, <2>2 DEF TargetKept, OutsideClone
  <2>4. Top.clone \in FSet(ns)
    BY <2>3 DEF IInv, OutsideUntouched, Survives
  <2>5. Top.clone \notin FSet(ns)
    BY <2>2 DEF Refused, At
  <2> QED BY <2>4, <2>5
<1> QED BY <1>2, <1>3

LEMMA InitEInv == Init => EInv
<1> SUFFICES ASSUME Init PROVE EInv
  OBVIOUS
<1>1. stack = <<>> /\ Len(stack) = 0 /\ status = "idle"
  BY DEF Init
<1> QED BY <1>1 DEF EInv, StackBelow, TargetKept, QuietErrorLeavesTarget

LEMMA NextEInv == IInv /\ GInv /\ EInv /\ [Next]_vars => EInv'
<1> SUFFICES ASSUME IInv, GInv, EInv, [Next]_vars PROVE EInv'
  OBVIOUS
<1>1. CASE Client
  <2>1. UNCHANGED <<status, target, view, stack, faults>>
    BY <1>1 DEF Client, DatasetCreate, DatasetSnapshot, Clone, ClientPromote, clientVars
  <2>2. StackBelow'
    BY <2>1 DEF EInv, StackBelow, Deeper, Outermost
  <2>3. CASE status = "idle"
    <3>1. stack' = <<>>
      BY <2>1, <2>3 DEF IInv, TypeOK
    <3> QED BY <2>1, <2>2, <2>3, <3>1 DEF EInv, TargetKept, QuietErrorLeavesTarget
  <2>4. CASE status # "idle"
    <3>1. status = "running" /\ quiet' = FALSE
      BY <1>1, <2>4 DEF Client, DatasetCreate, DatasetSnapshot, Clone, ClientPromote,
                        ClientMayAct, Noticed
    <3> QED BY <2>1, <2>2, <3>1 DEF EInv, QuietErrorLeavesTarget
  <2> QED BY <2>3, <2>4
<1>2. ASSUME NEW f \in Targets, Begin(f)
      PROVE  EInv'
  <2>1. /\ status' = "running" /\ target' = f /\ f \in FSet(ns) /\ view' = ns /\ ns' = ns
        /\ stack' = <<Frame(FsNode(f))>>
    BY <1>2 DEF Begin
  <2>2. Len(stack') = 1 /\ stack'[1] = Frame(FsNode(f))
    BY <2>1
  <2>3. /\ Frame(FsNode(f)).kids = {} /\ Frame(FsNode(f)).pc = "search"
        /\ Frame(FsNode(f)).clone = NoClone
    BY DEF Frame
  <2>4. StackBelow'
    BY <2>2, <2>3 DEF StackBelow
  <2>5. Outermost' = Frame(FsNode(f))
    BY <2>2 DEF Outermost
  <2>6. TargetKept'
    BY <2>1, <2>3, <2>5 DEF TargetKept
  <2> QED BY <2>1, <2>4, <2>6 DEF EInv, QuietErrorLeavesTarget
<1>3. CASE Collect
  <2>1. status' = "idle" /\ stack' = <<>> /\ Len(stack') = 0
    BY <1>3 DEF Collect, IInv, TypeOK
  <2> QED BY <2>1 DEF EInv, StackBelow, TargetKept, QuietErrorLeavesTarget
<1>4. CASE UNCHANGED vars
  BY <1>4 DEF vars, EInv, StackBelow, Deeper, Outermost, TargetKept, OutsideClone,
              QuietErrorLeavesTarget, InnerClone, Inner, CloneOf
<1>5. CASE status = "running" /\ Step
  <2>1. UNCHANGED <<target, view, quiet>>
    BY <1>5, StepKeepsCall
  <2>2. stack # <<>> /\ StackBelow /\ InnerClone' = InnerClone
    BY <1>5, <2>1, TopFrame DEF EInv, InnerClone, Inner, CloneOf
  <2>3. ASSUME status' = "running", StackBelow', TargetKept => TargetKept'
        PROVE  EInv'
    BY <2>1, <2>3 DEF EInv, QuietErrorLeavesTarget
  <2>4. ASSUME status' = "running", TargetKept, NEW pc \in Pcs, Moved(pc),
               \/ SameFs /\ Top.pc \notin {"reopen", "sweep"}
               \/ Len(stack) # 1
               \/ pc \in {"reopen", "sweep"},
               pc # "search", pc = "reopen" => Top.clone # NoClone /\ Top.pc # "search"
        PROVE  TargetKept'
    <3>1. PICK fr \in Frames :
            /\ fr.node = Top.node
            /\ fr.clone = Top.clone \/ (Top.pc = "search" /\ IsFirstClone(view, Node, ns, fr.clone))
            /\ Goto(pc, fr)
      BY <2>4 DEF Moved
    <3>2. IF Len(stack) = 1 THEN Outermost'.pc = pc /\ Outermost'.clone = fr.clone
                            ELSE Outermost' = Outermost
      BY <1>5, <2>4, <3>1, GotoOutermost
    <3>3. CASE Len(stack) # 1
      <4>1. Outermost.pc = "children" /\ Outermost' = Outermost
        BY <1>5, <2>2, <3>2, <3>3, OutermostTop, Several DEF StackBelow
      <4>2. target \in FSet(ns')
        BY <1>5, <2>2, <2>4, <3>3, <4>1, TargetStays DEF TargetKept
      <4> QED BY <2>1, <2>2, <2>4, <4>1, <4>2 DEF TargetKept, OutsideClone
    <3>4. CASE Len(stack) = 1
      <4>1. Outermost = Top /\ Outermost'.pc = pc /\ Outermost'.clone = fr.clone
        BY <1>5, <3>2, <3>4, OutermostTop
      <4>2. pc \notin {"reopen", "sweep"} => target \in FSet(ns')
        <5>1. SUFFICES ASSUME pc \notin {"reopen", "sweep"} PROVE target \in FSet(ns')
          OBVIOUS
        <5>2. SameFs /\ Top.pc \notin {"reopen", "sweep"}
          BY <2>4, <3>4, <5>1
        <5>3. target \in FSet(ns)
          BY <2>2, <2>4, <4>1, <5>2 DEF TargetKept
        <5> QED BY <5>2, <5>3 DEF SameFs
      <4>3. fr.clone # NoClone /\ ~InnerClone => fr.clone \in FSet(view) /\ ~Under(fr.clone, target)
        <5>1. CASE fr.clone = Top.clone
          BY <2>2, <2>4, <4>1, <5>1 DEF TargetKept, OutsideClone
        <5>2. CASE Top.pc = "search" /\ IsFirstClone(view, Node, ns, fr.clone)
          <6>1. ns = view /\ target \in FSet(view)
            BY <2>2, <2>4, <4>1, <5>2 DEF TargetKept
          <6>2. Node = FsNode(target)
            BY <2>2, <4>1 DEF GInv, Fate, Node
          <6> QED BY <5>2, <6>1, <6>2, FoundOutside
        <5> QED BY <3>1, <5>1, <5>2
      <4>4. pc = "reopen" => fr.clone # NoClone
        BY <2>4, <3>1
      <4> QED BY <2>1, <2>2, <2>4, <4>1, <4>2, <4>3, <4>4 DEF TargetKept, OutsideClone
    <3> QED BY <3>3, <3>4
  <2>5. ASSUME status' = "running" /\ SameFs /\ Top.pc \in {"search", "open", "resolve"},
               NEW pc \in {"open", "resolve", "children"}, Moved(pc)
        PROVE  EInv'
    <3>1. pc \in Pcs
      BY DEF Pcs
    <3>2. StackBelow'
      BY <1>5, <2>2, <2>5, <3>1, MovedBelow
    <3> QED BY <2>3, <2>4, <2>5, <3>1, <3>2
  <2>6. ASSUME status' = "running" /\ Moved("reopen") /\ DestroyNode /\ Top.clone # NoClone
        PROVE  EInv'
    <3>1. "reopen" \in Pcs /\ Top.pc = "children"
      BY <2>6 DEF Pcs, DestroyNode, At
    <3>2. StackBelow'
      BY <1>5, <2>2, <2>6, <3>1, MovedBelow
    <3> QED BY <2>3, <2>4, <2>6, <3>1, <3>2
  <2>7. ASSUME status' = "running" /\ Moved("sweep") /\ Top.pc \in {"reopen", "sweep"}
        PROVE  EInv'
    <3>1. "sweep" \in Pcs
      BY DEF Pcs
    <3>2. StackBelow'
      BY <1>5, <2>2, <2>7, <3>1, MovedBelow
    <3> QED BY <2>3, <2>4, <2>7, <3>1, <3>2
  <2>8. ASSUME status' = "running" /\ UNCHANGED ns, NEW k \in Top.kids, Descend(k)
        PROVE  EInv'
    <3>1. /\ StackBelow' /\ stack' # <<>> /\ Outermost.pc = "children"
          /\ Outermost'.pc = "children" /\ Outermost'.clone = Outermost.clone
      BY <1>5, <2>2, <2>8, DescendBelow
    <3>2. TargetKept => TargetKept'
      BY <2>1, <2>2, <2>8, <3>1 DEF TargetKept, OutsideClone
    <3> QED BY <2>3, <2>8, <3>1, <3>2
  <2>9. ASSUME ReturnNil
        PROVE  EInv'
    <3>1. StackBelow' /\ (stack' # <<>> => Outermost' = Outermost /\ Len(stack) # 1)
      BY <1>5, <2>2, <2>9, ReturnBelow
    <3>2. TargetKept => TargetKept'
      <4>1. SUFFICES ASSUME TargetKept, stack' # <<>> PROVE TargetKept'
        BY DEF TargetKept
      <4>2. Outermost.pc = "children"
        BY <1>5, <2>2, <3>1, <4>1, OutermostTop, Several DEF StackBelow
      <4>3. target \in FSet(ns')
        BY <1>5, <2>2, <3>1, <4>1, <4>2, TargetStays DEF TargetKept
      <4> QED BY <2>1, <2>2, <3>1, <4>1, <4>2, <4>3 DEF TargetKept, OutsideClone
    <3>3. status' # "error"
      BY <2>9 DEF ReturnNil
    <3> QED BY <2>1, <3>1, <3>2, <3>3 DEF EInv, QuietErrorLeavesTarget
  <2>10. ASSUME Abort /\ UNCHANGED ns /\ (Refused \/ faults' # 0)
         PROVE  EInv'
    <3>1. status' = "error" /\ stack' = <<>> /\ Len(stack') = 0
      BY <2>10 DEF Abort
    <3>2. quiet /\ faults' = 0 /\ ~InnerClone => target \in FSet(ns)
      BY <1>5, <2>2, <2>10, RefusedEarly DEF EInv
    <3> QED BY <2>1, <2>2, <2>10, <3>1, <3>2 DEF EInv, StackBelow, TargetKept, QuietErrorLeavesTarget
  <2> QED BY <1>5, <2>5, <2>6, <2>7, <2>8, <2>9, <2>10, StackStep
<1> QED BY <1>1, <1>2, <1>3, <1>4, <1>5 DEF Next

(* An error that DestroyPromote reports, with no failure of libzfs's own   *)
(* and no client acting meanwhile, leaves its target there to be opened    *)
(* again: the destroy at zfs.go:749 comes last, and the one libzfs call    *)
(* after it that can still fail the call (zfs.go:755) finds its clone,     *)
(* unless that was a clone in the subtree.                                 *)
THEOREM ErrorLeavesTarget == Spec => []QuietErrorLeavesTarget
<1>1. EInv => QuietErrorLeavesTarget
  BY DEF EInv
<1> QED BY InitIInv, NextIInv, InitGInv, NextGInv, InitEInv, NextEInv, <1>1, PTL DEF Spec

-----------------------------------------------------------------------------
(***************************************************************************)
(* A call that no client disturbs.  The last two theorems say what is left *)
(* when the recursion has returned, so that the invariant has to say what  *)
(* every filesystem of the subtree is like before, during and after its    *)
(* own activation: as it was opened (Fresh), in one of the states that its *)
(* activation goes through (Phase), or gone (Settled).  The proof is in    *)
(* five invariants, each resting on those before it:                       *)
(*   UInv  the names of snapshots tell them apart;                         *)
(*   LInv  how the activations are stacked, and whom they promote;         *)
(*   KInv  the names an activation has to destroy are none of the clone's; *)
(*   OInv  what is left of the opened pool, filesystem by filesystem;      *)
(*   PInv  no name was changed and no step is refused.                     *)
(***************************************************************************)

(* How an action of the call changes the stack.                            *)
LEMMA Replaced ==
  ASSUME IInv, status = "running", NEW fr \in Frames, NEW pc \in Pcs, Goto(pc, fr)
  PROVE  /\ Len(stack) \in Nat /\ Len(stack) >= 1 /\ Len(stack') = Len(stack)
         /\ stack'[1].pc = pc /\ stack'[1].node = fr.node /\ stack'[1].clone = fr.clone
         /\ stack'[1].names = fr.names /\ stack'[1].todo = fr.todo
         /\ stack'[1].psnaps = fr.psnaps /\ stack'[1].kids = fr.kids
         /\ \A k \in 1..Len(stack) : k # 1 => stack'[k] = stack[k]
<1> DEFINE new == [fr EXCEPT !.pc = pc]
<1>1. /\ new \in Frames /\ new.pc = pc /\ new.node = fr.node /\ new.clone = fr.clone
      /\ new.names = fr.names /\ new.todo = fr.todo /\ new.psnaps = fr.psnaps /\ new.kids = fr.kids
  BY DEF Frames
<1>2. stack' = [stack EXCEPT ![1] = new]
  BY DEF Goto
<1> HIDE DEF new
<1>3. stack \in Seq(Frames) /\ Len(stack) \in Nat /\ Len(stack) >= 1
  BY TopFrame, OutermostTop
<1> QED BY <1>1, <1>2, <1>3

(* How each action of the running call changes its innermost activation.   *)
Turns(pc, clone, names, todo, psnaps, kids) ==
  /\ Len(stack) \in Nat /\ Len(stack) >= 1 /\ Len(stack') = Len(stack)
  /\ stack'[1].node = Node /\ stack'[1].pc = pc /\ stack'[1].clone = clone
  /\ stack'[1].names = names /\ stack'[1].todo = todo
  /\ stack'[1].psnaps = psnaps /\ stack'[1].kids = kids
  /\ \A k \in 1..Len(stack) : k # 1 => stack'[k] = stack[k]

LEMMA SearchTurns ==
  ASSUME IInv, status = "running", Search
  PROVE  \/ /\ FoundClones(view, Node, ns) = {}
            /\ Turns("children", Top.clone, Top.names, Top.todo, Top.psnaps, Children(view, Node))
         \/ \E c \in FSet(ns) :
              /\ IsFirstClone(view, Node, ns, c)
              /\ Turns("open", c, Top.names, Top.todo, Top.psnaps, Top.kids)
<1>1. Top \in Frames /\ FSet(ns) \subseteq Paths
  BY TopFrame DEF IInv, TypeOK, IsNamespace
<1>2. CASE FoundClones(view, Node, ns) = {} /\ EnterChildren(Top)
  <2> DEFINE fr == [Top EXCEPT !.kids = Children(view, Node)]
  <2>1. /\ fr \in Frames /\ fr.node = Top.node /\ fr.clone = Top.clone /\ fr.names = Top.names
        /\ fr.todo = Top.todo /\ fr.psnaps = Top.psnaps /\ fr.kids = Children(view, Node)
    BY <1>1, ChildrenInside DEF Frames
  <2>2. Goto("children", fr) /\ "children" \in Pcs
    BY <1>2 DEF EnterChildren, Pcs
  <2> HIDE DEF fr
  <2> QED BY <1>2, <2>1, <2>2, Replaced DEF Turns, Node
<1>3. ASSUME NEW c \in FSet(ns), IsFirstClone(view, Node, ns, c), Goto("open", [Top EXCEPT !.clone = c])
      PROVE  Turns("open", c, Top.names, Top.todo, Top.psnaps, Top.kids)
  <2> DEFINE fr == [Top EXCEPT !.clone = c]
  <2>1. /\ fr \in Frames /\ fr.node = Top.node /\ fr.clone = c /\ fr.names = Top.names
        /\ fr.todo = Top.todo /\ fr.psnaps = Top.psnaps /\ fr.kids = Top.kids
    BY <1>1 DEF Frames
  <2> HIDE DEF fr
  <2>2. Goto("open", fr) /\ "open" \in Pcs
    BY <1>3 DEF fr, Pcs
  <2> QED BY <2>1, <2>2, Replaced DEF Turns, Node
<1> QED BY <1>2, <1>3 DEF Search

LEMMA OpenTurns ==
  ASSUME IInv, status = "running", OpenClone
  PROVE  Turns("resolve", Top.clone, NamesOf(ns, Top.clone), Snapshots(view, Node), Top.psnaps, Top.kids)
<1> DEFINE fr == [Top EXCEPT !.names = NamesOf(ns, Top.clone), !.todo = Snapshots(view, Node)]
<1>1. /\ Top \in Frames /\ ns.snap \in [Ids(ns) -> [of : Paths, name : Names]]
      /\ Ids(view) \subseteq Txgs
  BY TopFrame DEF IInv, TypeOK, IsNamespace
<1>2. NamesOf(ns, Top.clone) \subseteq Names /\ Snapshots(view, Node) \subseteq Txgs
  BY <1>1 DEF NamesOf, SnapsOf, Snapshots
<1>3. /\ fr \in Frames /\ fr.node = Top.node /\ fr.clone = Top.clone /\ fr.names = NamesOf(ns, Top.clone)
      /\ fr.todo = Snapshots(view, Node) /\ fr.psnaps = Top.psnaps /\ fr.kids = Top.kids
  BY <1>1, <1>2 DEF Frames
<1> HIDE DEF fr
<1>4. Goto("resolve", fr) /\ "resolve" \in Pcs
  BY DEF OpenClone, fr, Pcs
<1> QED BY <1>3, <1>4, Replaced DEF Turns, Node

LEMMA ListedTurns ==
  ASSUME IInv, status = "running", NEW i \in Top.todo, NEW n \in Names, Listed(i, n)
  PROVE  Turns("resolve", Top.clone, Top.names, Top.todo \ {i}, Top.psnaps \cup {n}, Top.kids)
<1> DEFINE fr == [Top EXCEPT !.todo = @ \ {i}, !.psnaps = @ \cup {n}]
<1>1. /\ fr \in Frames /\ fr.node = Top.node /\ fr.clone = Top.clone /\ fr.names = Top.names
      /\ fr.todo = Top.todo \ {i} /\ fr.psnaps = Top.psnaps \cup {n} /\ fr.kids = Top.kids
  BY TopFrame DEF Frames
<1> HIDE DEF fr
<1>2. Goto("resolve", fr) /\ "resolve" \in Pcs
  BY DEF Listed, fr, Pcs
<1> QED BY <1>1, <1>2, Replaced DEF Turns, Node

LEMMA PromoteTurns ==
  ASSUME IInv, status = "running", PromoteClone
  PROVE  Turns("children", Top.clone, Top.names, Top.todo, Top.psnaps, Children(view, Node))
<1> DEFINE fr == [Top EXCEPT !.kids = Children(view, Node)]
<1>1. /\ fr \in Frames /\ fr.node = Top.node /\ fr.clone = Top.clone /\ fr.names = Top.names
      /\ fr.todo = Top.todo /\ fr.psnaps = Top.psnaps /\ fr.kids = Children(view, Node)
  BY TopFrame, ChildrenInside DEF Frames
<1>2. Goto("children", fr) /\ "children" \in Pcs
  BY DEF PromoteClone, EnterChildren, Pcs
<1> HIDE DEF fr
<1> QED BY <1>1, <1>2, Replaced DEF Turns, Node

LEMMA DestroyTurns ==
  ASSUME IInv, status = "running", DestroyNode
  PROVE  \/ /\ Top.clone # NoClone /\ Top.psnaps # {} /\ UNCHANGED callVars
            /\ Turns("reopen", Top.clone, Top.names, Top.todo, Top.psnaps, Top.kids)
         \/ ~(Top.clone # NoClone /\ Top.psnaps # {}) /\ ReturnNil
<1>1. CASE Goto("reopen", Top)
  <2>1. Top \in Frames /\ "reopen" \in Pcs
    BY TopFrame DEF Pcs
  <2>2. Turns("reopen", Top.clone, Top.names, Top.todo, Top.psnaps, Top.kids)
    BY <1>1, <2>1, Replaced DEF Turns, Node
  <2> QED BY <2>2 DEF DestroyNode
<1> QED BY <1>1 DEF DestroyNode

LEMMA ReopenTurns ==
  ASSUME IInv, status = "running", ReopenClone
  PROVE  Turns("sweep", Top.clone, NamesOf(ns, Top.clone), Top.todo, Top.psnaps, Top.kids)
<1> DEFINE fr == [Top EXCEPT !.names = NamesOf(ns, Top.clone)]
<1>1. Top \in Frames /\ ns.snap \in [Ids(ns) -> [of : Paths, name : Names]]
  BY TopFrame DEF IInv, TypeOK, IsNamespace
<1>2. NamesOf(ns, Top.clone) \subseteq Names
  BY <1>1 DEF NamesOf, SnapsOf
<1>3. /\ fr \in Frames /\ fr.node = Top.node /\ fr.clone = Top.clone /\ fr.names = NamesOf(ns, Top.clone)
      /\ fr.todo = Top.todo /\ fr.psnaps = Top.psnaps /\ fr.kids = Top.kids
  BY <1>1, <1>2 DEF Frames
<1> HIDE DEF fr
<1>4. Goto("sweep", fr) /\ "sweep" \in Pcs
  BY DEF ReopenClone, fr, Pcs
<1> QED BY <1>3, <1>4, Replaced DEF Turns, Node

LEMMA SweepTurns ==
  ASSUME IInv, status = "running", NEW n \in Top.psnaps, Sweep(n)
  PROVE  Turns("sweep", Top.clone, Top.names, Top.todo, Top.psnaps \ {n}, Top.kids)
<1> DEFINE fr == [Top EXCEPT !.psnaps = @ \ {n}]
<1>1. /\ fr \in Frames /\ fr.node = Top.node /\ fr.clone = Top.clone /\ fr.names = Top.names
      /\ fr.todo = Top.todo /\ fr.psnaps = Top.psnaps \ {n} /\ fr.kids = Top.kids
  BY TopFrame DEF Frames
<1> HIDE DEF fr
<1>2. Goto("sweep", fr) /\ "sweep" \in Pcs
  BY DEF Sweep, fr, Pcs
<1> QED BY <1>1, <1>2, Replaced DEF Turns, Node

(* A child's activation is put on the stack, and a node's is taken off.    *)
LEMMA Pushed ==
  ASSUME IInv, status = "running", NEW d \in Top.kids, Descend(d)
  PROVE  /\ Len(stack) \in Nat /\ Len(stack) >= 1 /\ Len(stack') = Len(stack) + 1
         /\ stack'[1] = Frame(d)
         /\ stack'[2].pc = Top.pc /\ stack'[2].node = Top.node /\ stack'[2].clone = Top.clone
         /\ stack'[2].psnaps = Top.psnaps /\ stack'[2].kids = Top.kids \ {d}
         /\ \A k \in 2..Len(stack) : stack'[k + 1] = stack[k]
         /\ \A k \in 1..Len(stack') : k = 1 \/ k = 2 \/ k - 1 \in 2..Len(stack)
<1> DEFINE low == [Top EXCEPT !.kids = @ \ {d}]
           rest == [stack EXCEPT ![1] = low]
<1>1. /\ low \in Frames /\ low.pc = Top.pc /\ low.node = Top.node /\ low.clone = Top.clone
      /\ low.psnaps = Top.psnaps /\ low.kids = Top.kids \ {d}
  BY TopFrame DEF Frames
<1>2. Frame(d) \in Frames
  BY TopFrame DEF Frame, Frames, Pcs
<1>3. stack' = <<Frame(d)>> \o rest
  BY DEF Descend
<1> HIDE DEF low
<1>4. stack \in Seq(Frames) /\ Len(stack) \in Nat /\ Len(stack) >= 1
  BY TopFrame, OutermostTop
<1>5. /\ rest \in Seq(Frames) /\ Len(rest) = Len(stack) /\ rest[1] = low
      /\ \A k \in 2..Len(stack) : rest[k] = stack[k]
  BY <1>1, <1>4
<1> HIDE DEF rest
<1>6. /\ Len(stack') = Len(stack) + 1 /\ stack'[1] = Frame(d)
      /\ \A k \in 1..Len(stack) : stack'[k + 1] = rest[k]
  BY <1>2, <1>3, <1>4, <1>5
<1>7. stack'[2] = low
  <2>1. 1 \in 1..Len(stack) /\ 1 + 1 = 2
    BY <1>4
  <2> QED BY <1>5, <1>6, <2>1
<1>8. ASSUME NEW k \in 2..Len(stack) PROVE stack'[k + 1] = stack[k]
  BY <1>5, <1>6
<1>9. \A k \in 1..Len(stack') : k = 1 \/ k = 2 \/ k - 1 \in 2..Len(stack)
  BY <1>4, <1>6
<1> QED BY <1>1, <1>4, <1>6, <1>7, <1>8, <1>9

LEMMA Popped ==
  ASSUME IInv, status = "running", ReturnNil
  PROVE  /\ Len(stack) \in Nat /\ Len(stack) >= 1 /\ Len(stack') = Len(stack) - 1
         /\ \A k \in 1..Len(stack') : stack'[k] = stack[k + 1] /\ k + 1 \in 2..Len(stack)
         /\ \A k \in 2..Len(stack) : stack[k] = stack'[k - 1] /\ k - 1 \in 1..Len(stack')
<1>1. stack' = Tail(stack) /\ stack \in Seq(Frames) /\ Len(stack) \in Nat /\ Len(stack) >= 1
      /\ stack # <<>>
  BY TopFrame, OutermostTop DEF ReturnNil
<1> QED BY <1>1

-----------------------------------------------------------------------------
(* Within a filesystem a name is given once: the kernel sees to it when a  *)
(* snapshot is taken, renamed, or moved by a promotion.                    *)
Unique(n) ==
  \A i, j \in Ids(n) :
    (n.snap[i].of = n.snap[j].of /\ n.snap[i].name = n.snap[j].name) => i = j

UInv == Unique(ns) /\ Unique(view) /\ \A i \in Ids(ns) : i <= txg

(* The kernel operations give no name twice.                               *)
LEMMA SnapshotUnique ==
  ASSUME NEW n, Unique(n), NEW f, NEW s, NEW t, CanSnapshot(n, f, s)
  PROVE  Unique(Snapshot(n, f, s, t))
<1> DEFINE m == Snapshot(n, f, s, t)
<1>1. /\ m.snap = [i \in Ids(n) \cup {t} |-> IF i = t THEN [of |-> f, name |-> s] ELSE n.snap[i]]
      /\ Ids(m) = Ids(n) \cup {t}
  BY DEF Snapshot, Ids
<1>2. \A j \in Ids(n) : ~(n.snap[j].of = f /\ n.snap[j].name = s)
  BY DEF CanSnapshot, Holding, SnapsOf
<1> HIDE DEF m
<1> QED BY <1>1, <1>2 DEF Unique, m

LEMMA PromoteUnique ==
  ASSUME NEW n, Unique(n), NEW c, CanPromote(n, c)
  PROVE  Unique(Promote(n, c))
<1> DEFINE m == Promote(n, c)
<1>1. /\ m.snap = [i \in Ids(n) |->
                     IF i \in Shared(n, c) THEN [of |-> c, name |-> n.snap[i].name] ELSE n.snap[i]]
      /\ Ids(m) = Ids(n)
  BY DEF Promote, Ids
<1>2. \A i \in Shared(n, c), j \in Ids(n) :
        ~(n.snap[j].of = c /\ n.snap[j].name = n.snap[i].name)
  BY DEF CanPromote, Holding, SnapsOf
<1>3. \A i, j \in Shared(n, c) : i \in Ids(n) /\ n.snap[i].of = n.snap[j].of
  BY DEF Shared, SnapsOf
<1> HIDE DEF m
<1>4. ASSUME NEW i \in Ids(n), NEW j \in Ids(n), m.snap[i].of = m.snap[j].of,
             m.snap[i].name = m.snap[j].name
      PROVE  i = j
  <2>1. m.snap[i].name = n.snap[i].name /\ m.snap[j].name = n.snap[j].name
    BY <1>1
  <2>2. CASE i \in Shared(n, c) /\ j \in Shared(n, c)
    BY <1>3, <1>4, <2>1, <2>2 DEF Unique
  <2>3. CASE i \in Shared(n, c) /\ j \notin Shared(n, c)
    BY <1>1, <1>2, <1>4, <2>1, <2>3
  <2>4. CASE i \notin Shared(n, c) /\ j \in Shared(n, c)
    BY <1>1, <1>2, <1>4, <2>1, <2>4
  <2>5. CASE i \notin Shared(n, c) /\ j \notin Shared(n, c)
    BY <1>1, <1>4, <2>5 DEF Unique
  <2> QED BY <2>2, <2>3, <2>4, <2>5
<1> QED BY <1>1, <1>4 DEF Unique, m

LEMMA RenameUnique ==
  ASSUME NEW n, Unique(n), NEW f, NEW s, NEW t, CanRename(n, f, s, t)
  PROVE  Unique(RenameSnap(n, f, s, t))
<1> DEFINE m == RenameSnap(n, f, s, t)
<1>1. /\ m.snap = [i \in Ids(n) |->
                     IF i \in Holding(n, f, s) THEN [of |-> f, name |-> t] ELSE n.snap[i]]
      /\ Ids(m) = Ids(n)
  BY DEF RenameSnap, Ids
<1>2. \A j \in Ids(n) : ~(n.snap[j].of = f /\ n.snap[j].name = t)
  BY DEF CanRename, Holding, SnapsOf
<1>3. \A i \in Holding(n, f, s) : i \in Ids(n) /\ n.snap[i].of = f /\ n.snap[i].name = s
  BY DEF Holding, SnapsOf
<1> HIDE DEF m
<1> QED BY <1>1, <1>2, <1>3 DEF Unique, m

LEMMA DestroySnapUnique ==
  ASSUME NEW n, Unique(n), NEW f, NEW s
  PROVE  Unique(DestroySnap(n, f, s))
  BY DEF DestroySnap, Unique, Ids

LEMMA FsUnique ==
  ASSUME NEW n, NEW m, Unique(n), m.snap = n.snap
  PROVE  Unique(m)
  BY DEF Unique, Ids

(* The snapshots a kernel operation leaves: what it adds is the newest.    *)
LEMMA IdsAfter ==
  /\ \A n, f, t, o : Ids(Create(n, f, t, o)) = Ids(n)
  /\ \A n, f, s, t : Ids(Snapshot(n, f, s, t)) = Ids(n) \cup {t}
  /\ \A n, c : Ids(Promote(n, c)) = Ids(n)
  /\ \A n, f, s, t : Ids(RenameSnap(n, f, s, t)) = Ids(n)
  /\ \A n, f : Ids(DestroyFs(n, f)) = Ids(n)
  /\ \A n, f, s : Ids(DestroySnap(n, f, s)) = Ids(n) \ Holding(n, f, s)
  BY DEF Create, Snapshot, Promote, RenameSnap, DestroyFs, DestroySnap, Ids

(* A snapshot that is taken is younger than all others, so that a name is  *)
(* unique in the pool and in what was opened of it.                        *)
LEMMA InitUInv == Init => UInv
  BY DEF Init, UInv, Unique, Ids, Empty

LEMMA NextUInv == IInv /\ UInv /\ [Next]_vars => UInv'
<1> SUFFICES ASSUME IInv, UInv, [Next]_vars PROVE UInv'
  OBVIOUS
<1>1. /\ Unique(ns) /\ Unique(view) /\ txg \in Nat
      /\ \A i \in Ids(ns) : i \in Nat /\ i <= txg
  BY DEF UInv, IInv, TypeOK, IsNamespace, Txgs
<1>2. Unique(Empty)
  BY DEF Unique, Ids, Empty
<1> DEFINE Good == Unique(ns') /\ Ids(ns') \subseteq Ids(ns)
<1>3. ASSUME UNCHANGED view, txg' \in {txg, txg + 1}, Good PROVE UInv'
  BY <1>1, <1>3 DEF UInv
<1>4. ASSUME UNCHANGED ns PROVE Good
  BY <1>1, <1>4
<1>5. ASSUME NEW f, NEW o, ns' = Create(ns, f, txg + 1, o) PROVE Good
  <2>1. ns'.snap = ns.snap
    BY <1>5 DEF Create
  <2>2. Unique(ns')
    BY <1>1, <2>1, FsUnique
  <2> QED BY <2>1, <2>2 DEF Ids
<1>6. ASSUME NEW c, CanPromote(ns, c), ns' = Promote(ns, c) PROVE Good
  BY <1>1, <1>6, PromoteUnique, IdsAfter
<1>7. ASSUME NEW f, NEW n, ns' = DestroySnap(ns, f, n) PROVE Good
  <2>1. Ids(ns') \subseteq Ids(ns)
    BY <1>7, IdsAfter
  <2>2. Unique(ns')
    BY <1>1, <1>7, DestroySnapUnique
  <2> QED BY <2>1, <2>2
<1>8. CASE Client
  <2>1. ASSUME NEW f, NEW o, ns' = Create(ns, f, txg + 1, o), txg' = txg + 1, UNCHANGED clientVars
        PROVE  UInv'
    BY <1>3, <1>5, <2>1 DEF clientVars
  <2>2. ASSUME NEW f, NEW n, DatasetSnapshot(f, n) PROVE UInv'
    <3>1. /\ CanSnapshot(ns, f, n) /\ ns' = Snapshot(ns, f, n, txg + 1) /\ txg' = txg + 1
          /\ UNCHANGED view
      BY <2>2 DEF DatasetSnapshot, clientVars
    <3>2. Unique(ns') /\ Ids(ns') = Ids(ns) \cup {txg + 1}
      BY <1>1, <3>1, SnapshotUnique, IdsAfter
    <3> QED BY <1>1, <3>1, <3>2 DEF UInv
  <2>3. ASSUME NEW c, ClientPromote(c) PROVE UInv'
    BY <1>3, <1>6, <2>3 DEF ClientPromote, clientVars
  <2> QED BY <1>8, <2>1, <2>2, <2>3 DEF Client, DatasetCreate, Clone
<1>9. CASE status = "running" /\ Step
  <2>1. UNCHANGED <<view, txg>>
    BY <1>9, StepKeepsCall
  <2>2. CASE \E i \in Top.todo : RenameConflict(i)
    BY <1>1, <1>3, <2>1, <2>2, RenameUnique, IdsAfter DEF RenameConflict
  <2>3. CASE PromoteClone
    BY <1>3, <1>6, <2>1, <2>3 DEF PromoteClone
  <2>4. CASE DestroyNode
    <3>1. ASSUME ns' = DestroyFs(ns, Node.of) PROVE Good
      BY <1>1, <3>1, FsUnique, IdsAfter DEF DestroyFs
    <3> QED BY <1>3, <1>7, <2>1, <2>4, <3>1 DEF DestroyNode
  <2>5. CASE \E n \in Top.psnaps : Sweep(n)
    BY <1>3, <1>4, <1>7, <2>1, <2>5 DEF Sweep
  <2>6. CASE \/ Search \/ OpenClone \/ \E i \in Top.todo : KeepName(i)
             \/ \E k \in Top.kids : Descend(k)
             \/ ReopenClone \/ SweepDone \/ FailRefused \/ FailFault
    BY <1>3, <1>4, <2>1, <2>6
       DEF Search, OpenClone, KeepName, Descend, ReopenClone, SweepDone, FailRefused, FailFault
  <2> QED BY <1>9, <2>2, <2>3, <2>4, <2>5, <2>6 DEF Step
<1>10. CASE \E f \in Targets : Begin(f)
  BY <1>1, <1>10 DEF Begin, UInv
<1>11. CASE Collect
  BY <1>1, <1>2, <1>11 DEF Collect, UInv
<1>12. CASE UNCHANGED vars
  BY <1>3, <1>4, <1>12 DEF vars
<1> QED BY <1>8, <1>9, <1>10, <1>11, <1>12 DEF Next

-----------------------------------------------------------------------------
(* How the activations are stacked: each but the innermost is in its loop  *)
(* over its children, of which the next is one.                            *)
Stacked ==
  /\ \A k \in 2..Len(stack) : stack[k].pc = "children" /\ ~IsSnapshot(stack[k].node)
  /\ \A j, k \in 1..Len(stack) :
       (j < k /\ ~IsSnapshot(stack[j].node)) => Len(stack[j].node.of) > Len(stack[k].node.of)
  /\ (Len(stack) > 1 /\ IsSnapshot(stack[1].node)) => stack[1].node.of = stack[2].node.of
  /\ \A k \in 1..Len(stack) :
       stack[k].node.of \in FSet(view) /\ stack[k].kids \subseteq Children(view, stack[k].node)

(* An activation promotes a clone of its own node, so that the pool's root *)
(* filesystem never becomes a clone.                                       *)
OwnClone ==
  stack # <<>> =>
    /\ Top.pc = "search" => Top.clone = NoClone /\ Top.psnaps = {}
    /\ Top.pc \in {"open", "resolve"} =>
         /\ Top.clone \in FSet(ns) /\ ns.fs[Top.clone].origin # NoSnap
         /\ ns.snap[ns.fs[Top.clone].origin].of = Node.of

(* The pool's root filesystem is no target and no clone.                   *)
PoolPlain ==
  /\ status = "running" => target # Pool
  /\ Pool \in FSet(ns) => ns.fs[Pool].origin = NoSnap
  /\ Pool \in FSet(view) => view.fs[Pool].origin = NoSnap

LInv == Stacked /\ OwnClone /\ PoolPlain

(* A node's children are at it or right below it.                          *)
LEMMA ChildShape ==
  ASSUME IInv, NEW d, NEW e \in Children(view, d)
  PROVE  /\ ~IsSnapshot(d)
         /\ \/ IsSnapshot(e) /\ e.of = d.of /\ e.id \in SnapsOf(view, d.of)
            \/ ~IsSnapshot(e) /\ e = FsNode(e.of) /\ e.of \in FSet(view) /\ IsChild(e.of, d.of)
<1>1. CASE \E g \in ChildFs(view, d.of) : e = FsNode(g)
  <2>1. PICK g \in ChildFs(view, d.of) : e = FsNode(g)
    BY <1>1
  <2>2. e.of = g /\ e.id = NoSnap /\ g \in FSet(view) /\ IsChild(g, d.of)
    BY <2>1 DEF FsNode, ChildFs
  <2> QED BY <2>1, <2>2 DEF Children, IsSnapshot
<1>2. CASE \E i \in SnapsOf(view, d.of) : e = SnapNode(d.of, i)
  <2>1. PICK i \in SnapsOf(view, d.of) : e = SnapNode(d.of, i)
    BY <1>2
  <2>2. e.of = d.of /\ e.id = i /\ i \in Txgs
    BY <2>1 DEF SnapNode, SnapsOf, IInv, TypeOK, IsNamespace
  <2> QED BY <2>1, <2>2 DEF Children, IsSnapshot, NoSnap, Txgs
<1> QED BY <1>1, <1>2 DEF Children

(* Every action keeps the stack so: a child is deeper than its node, and   *)
(* the activation of a snapshot starts none.                               *)
LEMMA StackedStep ==
  ASSUME IInv, Stacked, status = "running", Step
  PROVE  Stacked'
<1>1. UNCHANGED view
  BY StepKeepsCall
<1>2. ASSUME NEW pc \in Pcs, Moved(pc) PROVE Stacked'
  <2>1. PICK fr \in Frames : /\ fr.node = Top.node /\ fr.kids \subseteq Top.kids \cup Children(view, Node)
                             /\ Goto(pc, fr)
    BY <1>2 DEF Moved
  <2>2. /\ Len(stack) \in Nat /\ Len(stack) >= 1 /\ Len(stack') = Len(stack)
        /\ stack'[1].node = stack[1].node /\ stack'[1].kids = fr.kids
        /\ \A k \in 1..Len(stack) : k # 1 => stack'[k] = stack[k]
    BY <2>1, Replaced DEF Top
  <2>3. Top.kids \subseteq Children(view, Node)
    BY <2>2 DEF Stacked, Top, Node
  <2>4. \A k \in 2..Len(stack) : stack'[k] = stack[k] /\ k \in 1..Len(stack)
    BY <2>2
  <2>5. \A k \in 1..Len(stack') : stack'[k].node = stack[k].node /\ k \in 1..Len(stack)
    BY <2>2
  <2>6. \A k \in 1..Len(stack') :
          stack'[k].node.of \in FSet(view') /\ stack'[k].kids \subseteq Children(view', stack'[k].node)
    BY <1>1, <2>1, <2>2, <2>3, <2>5 DEF Stacked, Top, Node
  <2>7. \A k \in 2..Len(stack') : stack'[k].pc = "children" /\ ~IsSnapshot(stack'[k].node)
    BY <2>2, <2>4 DEF Stacked
  <2>8. \A j, k \in 1..Len(stack') :
          (j < k /\ ~IsSnapshot(stack'[j].node)) => Len(stack'[j].node.of) > Len(stack'[k].node.of)
    BY <2>5 DEF Stacked
  <2>9. (Len(stack') > 1 /\ IsSnapshot(stack'[1].node)) => stack'[1].node.of = stack'[2].node.of
    BY <2>2, <2>5 DEF Stacked
  <2> QED BY <2>6, <2>7, <2>8, <2>9 DEF Stacked
<1>3. ASSUME NEW e \in Top.kids, Descend(e) PROVE Stacked'
  <2>1. /\ Len(stack) \in Nat /\ Len(stack) >= 1 /\ Len(stack') = Len(stack) + 1
        /\ stack'[1] = Frame(e) /\ Frame(e).node = e /\ Frame(e).kids = {}
        /\ stack'[2].pc = "children" /\ stack'[2].node = Node /\ stack'[2].kids \subseteq Top.kids
        /\ \A k \in 2..Len(stack) : stack'[k + 1] = stack[k]
        /\ \A k \in 1..Len(stack') : k = 1 \/ k = 2 \/ k - 1 \in 2..Len(stack)
    BY <1>3, Pushed DEF Frame, Descend, At, Node
  <2>2. \A k \in 1..Len(stack') : k > 2 => k - 1 \in 2..Len(stack) /\ stack'[k] = stack[k - 1]
    BY <2>1
  <2>3. Top.kids \subseteq Children(view, Node) /\ Top = stack[1] /\ Node = stack[1].node
    BY <2>1 DEF Stacked, Top, Node
  <2>4. /\ ~IsSnapshot(Node) /\ Node.of \in FSet(view) /\ e.of \in FSet(view)
        /\ \/ IsSnapshot(e) /\ e.of = Node.of
           \/ ~IsSnapshot(e) /\ Len(e.of) = Len(Node.of) + 1
    BY <2>1, <2>3, ChildShape DEF IsChild, Stacked
  <2>5. Len(Node.of) \in Nat
    BY TopFrame
  <2>6. \A k \in 2..Len(stack') : stack'[k].pc = "children" /\ ~IsSnapshot(stack'[k].node)
    <3> SUFFICES ASSUME NEW k \in 2..Len(stack') PROVE stack'[k].pc = "children" /\ ~IsSnapshot(stack'[k].node)
      OBVIOUS
    <3>1. CASE k = 2
      BY <2>1, <2>4, <3>1
    <3>2. CASE k # 2
      BY <2>1, <2>2, <3>2 DEF Stacked
    <3> QED BY <3>1, <3>2
  <2>7. \A k \in 2..Len(stack) : Len(Node.of) > Len(stack[k].node.of)
    BY <2>1, <2>3, <2>4 DEF Stacked
  <2>8. ASSUME NEW j \in 1..Len(stack'), NEW k \in 1..Len(stack'), j < k, ~IsSnapshot(stack'[j].node)
        PROVE  Len(stack'[j].node.of) > Len(stack'[k].node.of)
    <3>1. CASE j = 1
      <4>1. stack'[j].node = e /\ Len(e.of) = Len(Node.of) + 1
        BY <2>1, <2>4, <2>8, <3>1
      <4>2. CASE k = 2
        BY <2>1, <2>5, <4>1, <4>2
      <4>3. CASE k # 2
        <5>1. k - 1 \in 2..Len(stack) /\ stack'[k] = stack[k - 1]
          BY <2>1, <2>2, <2>8, <3>1, <4>3
        <5>2. /\ stack[k - 1].node.of \in Paths
          <6>1. stack \in Seq(Frames) /\ k - 1 \in 1..Len(stack)
            BY <2>1, <5>1, TopFrame
          <6>2. stack[k - 1] \in Frames
            BY <6>1
          <6> QED BY <6>2 DEF Frames, Nodes
        <5>3. Len(stack[k - 1].node.of) \in Nat
          BY <5>2
        <5>4. Len(Node.of) > Len(stack[k - 1].node.of) /\ stack'[k].node.of = stack[k - 1].node.of
          BY <2>7, <5>1
        <5>5. Len(Node.of) + 1 > Len(stack[k - 1].node.of)
          BY <2>5, <5>3, <5>4
        <5> QED BY <4>1, <5>4, <5>5
      <4> QED BY <4>2, <4>3
    <3>2. CASE j = 2
      <4>1. k - 1 \in 2..Len(stack) /\ stack'[k] = stack[k - 1] /\ stack'[j].node = Node
        BY <2>1, <2>2, <2>8, <3>2
      <4> QED BY <2>7, <4>1
    <3>3. CASE j > 2
      <4>1. /\ j - 1 \in 2..Len(stack) /\ stack'[j] = stack[j - 1]
            /\ k - 1 \in 2..Len(stack) /\ stack'[k] = stack[k - 1] /\ j - 1 < k - 1
        BY <2>1, <2>2, <2>8, <3>3
      <4>2. j - 1 \in 1..Len(stack) /\ k - 1 \in 1..Len(stack)
        BY <4>1
      <4> QED BY <2>8, <4>1, <4>2 DEF Stacked
    <3> QED BY <2>1, <3>1, <3>2, <3>3
  <2>9. IsSnapshot(stack'[1].node) => stack'[1].node.of = stack'[2].node.of
    BY <2>1, <2>4
  <2>10. \A k \in 1..Len(stack') :
           stack'[k].node.of \in FSet(view) /\ stack'[k].kids \subseteq Children(view, stack'[k].node)
    <3> SUFFICES ASSUME NEW k \in 1..Len(stack')
                 PROVE  stack'[k].node.of \in FSet(view) /\ stack'[k].kids \subseteq Children(view, stack'[k].node)
      OBVIOUS
    <3>1. CASE k = 1
      BY <2>1, <2>4, <3>1
    <3>2. CASE k = 2
      BY <2>1, <2>3, <2>4, <3>2
    <3>3. CASE k # 1 /\ k # 2
      <4>1. k - 1 \in 1..Len(stack) /\ stack'[k] = stack[k - 1]
        BY <2>1, <2>2, <3>3
      <4> QED BY <4>1 DEF Stacked
    <3> QED BY <3>1, <3>2, <3>3
  <2> QED BY <1>1, <2>6, <2>8, <2>9, <2>10 DEF Stacked
<1>4. ASSUME ReturnNil PROVE Stacked'
  <2>1. /\ Len(stack) \in Nat /\ Len(stack) >= 1 /\ Len(stack') = Len(stack) - 1
        /\ \A k \in 1..Len(stack') : stack'[k] = stack[k + 1] /\ k + 1 \in 2..Len(stack)
    BY <1>4, Popped
  <2>2. \A k \in 1..Len(stack') : stack'[k].pc = "children" /\ ~IsSnapshot(stack'[k].node)
    BY <2>1 DEF Stacked
  <2>3. ASSUME NEW j \in 1..Len(stack'), NEW k \in 1..Len(stack'), j < k
        PROVE  Len(stack'[j].node.of) > Len(stack'[k].node.of)
    <3>1. /\ j + 1 \in 1..Len(stack) /\ k + 1 \in 1..Len(stack) /\ j + 1 < k + 1
          /\ stack'[j] = stack[j + 1] /\ stack'[k] = stack[k + 1]
      BY <2>1, <2>3
    <3> QED BY <2>2, <3>1 DEF Stacked
  <2>4. \A k \in 1..Len(stack') :
          stack'[k].node.of \in FSet(view) /\ stack'[k].kids \subseteq Children(view, stack'[k].node)
    <3> SUFFICES ASSUME NEW k \in 1..Len(stack')
                 PROVE  stack'[k].node.of \in FSet(view) /\ stack'[k].kids \subseteq Children(view, stack'[k].node)
      OBVIOUS
    <3>1. k + 1 \in 1..Len(stack) /\ stack'[k] = stack[k + 1]
      BY <2>1
    <3> QED BY <3>1 DEF Stacked
  <2>5. \A k \in 2..Len(stack') : k \in 1..Len(stack')
    OBVIOUS
  <2>6. Len(stack') > 1 => 1 \in 1..Len(stack')
    BY <2>1
  <2> QED BY <1>1, <2>2, <2>3, <2>4, <2>5, <2>6 DEF Stacked
<1>5. ASSUME Abort PROVE Stacked'
  <2>1. Len(stack') = 0
    BY <1>5 DEF Abort
  <2> QED BY <2>1 DEF Stacked
<1> QED BY <1>2, <1>3, <1>4, <1>5, StackStep DEF Pcs

(* A rename changes no filesystem and moves no snapshot.                   *)
LEMMA RenameOf ==
  ASSUME NEW n, NEW f, NEW s, NEW t, NEW i \in Ids(n)
  PROVE  /\ RenameSnap(n, f, s, t).fs = n.fs
         /\ RenameSnap(n, f, s, t).snap[i].of = n.snap[i].of
  BY DEF RenameSnap, Holding, SnapsOf

(* The clone found first is a clone of the node's filesystem.              *)
LEMMA HitOrigin ==
  ASSUME NEW d, NEW n, NEW c, IsHit(view, d, n, c)
  PROVE  n.fs[c].origin # NoSnap /\ n.snap[n.fs[c].origin].of = d.of
  BY DEF IsHit, OriginIn

LEMMA OwnCloneStep ==
  ASSUME IInv, Stacked, OwnClone, status = "running", Step
  PROVE  OwnClone'
<1>1. WellFormed(ns) /\ stack # <<>> /\ Top = stack[1] /\ Node = stack[1].node
  BY TopFrame DEF IInv, TypeOK, WellFormed, Top, Node
<1>2. ASSUME NEW pc, NEW clone, NEW names, NEW todo, NEW psnaps, NEW kids,
             Turns(pc, clone, names, todo, psnaps, kids)
      PROVE  Top'.pc = pc /\ Top'.clone = clone /\ Node' = Node /\ Top'.psnaps = psnaps
  BY <1>2 DEF Turns, Top, Node
<1>3. ASSUME Top'.pc \notin {"search", "open", "resolve"} PROVE OwnClone'
  BY <1>3 DEF OwnClone
<1>4. ASSUME ReturnNil PROVE OwnClone'
  <2>1. /\ Len(stack) \in Nat /\ Len(stack) >= 1 /\ Len(stack') = Len(stack) - 1
        /\ \A k \in 1..Len(stack') : stack'[k] = stack[k + 1] /\ k + 1 \in 2..Len(stack)
    BY <1>4, Popped
  <2>2. stack' \in Seq(Frames)
    BY <1>4, ReturnInside
  <2>3. ASSUME stack' # <<>> PROVE Top'.pc = "children"
    <3>1. 1 \in 1..Len(stack')
      BY <2>2, <2>3
    <3>2. stack'[1].pc = "children"
      BY <2>1, <3>1 DEF Stacked
    <3> QED BY <3>2 DEF Top
  <2> QED BY <2>3 DEF OwnClone
<1>5. CASE Search
  <2>1. ASSUME NEW c \in FSet(ns), IsFirstClone(view, Node, ns, c),
               Turns("open", c, Top.names, Top.todo, Top.psnaps, Top.kids)
        PROVE  OwnClone'
    <3>1. ns.fs[c].origin # NoSnap /\ ns.snap[ns.fs[c].origin].of = Node.of
      BY <2>1, HitOrigin DEF IsFirstClone, FoundClones
    <3> QED BY <1>2, <1>5, <2>1, <3>1 DEF OwnClone, Search
  <2> QED BY <1>1, <1>2, <1>3, <1>5, <2>1, SearchTurns
<1>6. CASE OpenClone
  <2>1. Top'.pc = "resolve" /\ Top'.clone = Top.clone /\ Node' = Node /\ ns' = ns /\ Top.pc = "open"
    BY <1>1, <1>2, <1>6, OpenTurns DEF OpenClone, At
  <2> QED BY <1>1, <2>1 DEF OwnClone
<1>7. ASSUME NEW i \in Top.todo, KeepName(i) \/ RenameConflict(i) PROVE OwnClone'
  <2>1. PICK n \in Names : Listed(i, n)
    BY <1>7, NewNames DEF KeepName, RenameConflict
  <2>0. Turns("resolve", Top.clone, Top.names, Top.todo \ {i}, Top.psnaps \cup {n}, Top.kids)
    BY <2>1, ListedTurns
  <2>2. Top'.pc = "resolve" /\ Top'.clone = Top.clone /\ Node' = Node /\ Top.pc = "resolve"
    BY <1>2, <1>7, <2>0 DEF KeepName, RenameConflict, At
  <2>3. /\ Top.clone \in FSet(ns) /\ ns.fs[Top.clone].origin \in Ids(ns)
        /\ ns.fs[Top.clone].origin # NoSnap /\ ns.snap[ns.fs[Top.clone].origin].of = Node.of
    BY <1>1, <2>2 DEF OwnClone, WellFormed, Anchored
  <2>4. ns'.fs = ns.fs /\ \A j \in Ids(ns) : ns'.snap[j].of = ns.snap[j].of
    <3>1. CASE ns' = ns
      BY <3>1
    <3>2. CASE ns' = RenameSnap(ns, Node.of, view.snap[i].name, NewName(i))
      <4> DEFINE s == view.snap[i].name
                 t == NewName(i)
      <4>1. ns' = RenameSnap(ns, Node.of, s, t)
        BY <3>2
      <4> HIDE DEF s, t
      <4>2. ns'.fs = ns.fs
        BY <4>1 DEF RenameSnap
      <4>3. ASSUME NEW j \in Ids(ns) PROVE ns'.snap[j].of = ns.snap[j].of
        BY <4>1, RenameOf
      <4> QED BY <4>2, <4>3
    <3> QED BY <1>7, <3>1, <3>2 DEF KeepName, RenameConflict
  <2> QED BY <2>2, <2>3, <2>4 DEF OwnClone, FSet
<1>8. CASE PromoteClone
  BY <1>2, <1>3, <1>8, PromoteTurns
<1>9. ASSUME NEW e \in Top.kids, Descend(e) PROVE OwnClone'
  <2>1. Top' = Frame(e)
    BY <1>9, Pushed DEF Top
  <2> QED BY <2>1 DEF OwnClone, Frame
<1>10. CASE DestroyNode
  BY <1>2, <1>3, <1>4, <1>10, DestroyTurns
<1>11. CASE ReopenClone
  BY <1>2, <1>3, <1>11, ReopenTurns
<1>12. ASSUME NEW n \in Top.psnaps, Sweep(n) PROVE OwnClone'
  <2>1. Turns("sweep", Top.clone, Top.names, Top.todo, Top.psnaps \ {n}, Top.kids)
    BY <1>12, SweepTurns
  <2> QED BY <1>2, <1>3, <2>1
<1>13. CASE SweepDone
  BY <1>4, <1>13 DEF SweepDone
<1>14. CASE FailRefused \/ FailFault
  BY <1>14 DEF FailRefused, FailFault, Abort, OwnClone
<1> QED BY <1>5, <1>6, <1>7, <1>8, <1>9, <1>10, <1>11, <1>12, <1>13, <1>14 DEF Step

(* The kernel operations that leave every origin that is there, and what   *)
(* promotion makes of them.                                                *)
LEMMA PromoteOrigins ==
  ASSUME NEW n, NEW c, NEW f \in FSet(n)
  PROVE  Promote(n, c).fs[f].origin =
           IF f = c THEN n.fs[n.snap[n.fs[c].origin].of].origin
           ELSE IF f = n.snap[n.fs[c].origin].of THEN n.fs[c].origin ELSE n.fs[f].origin
  BY DEF Promote

LEMMA InnerNotPool ==
  ASSUME IInv, GInv, PoolPlain, status = "running", NEW f \in Paths, Inner(f)
  PROVE  f # Pool
<1>1. target # Pool /\ target \in Paths /\ Under(target, Pool)
  BY DEF PoolPlain, GInv, IInv, TypeOK
<1>2. SUFFICES ASSUME Under(Pool, target) PROVE FALSE
  BY DEF Inner
<1>3. target \in Seq(STRING) /\ Pool \in Seq(STRING)
  BY <1>1
<1>4. ~(Len(Pool) < Len(target))
  BY <1>1, <1>2, <1>3 DEF Under
<1> QED BY <1>1, <1>3, <1>4, UnderEqual

LEMMA PromotePlain ==
  ASSUME NEW n, WellFormed(n), NEW c, CanPromote(n, c), n.snap[n.fs[c].origin].of # Pool,
         Pool \in FSet(n) => n.fs[Pool].origin = NoSnap
  PROVE  Pool \in FSet(Promote(n, c)) => Promote(n, c).fs[Pool].origin = NoSnap
<1>1. FSet(Promote(n, c)) = FSet(n)
  BY DEF Promote, FSet
<1>2. ASSUME Pool \in FSet(n) PROVE Promote(n, c).fs[Pool].origin = NoSnap
  <2>1. c # Pool
    BY <1>2 DEF CanPromote
  <2> QED BY <1>2, <2>1, PromoteOrigins
<1> QED BY <1>1, <1>2

LEMMA PoolSpace ==
  ASSUME IInv, GInv, LInv, [Next]_vars
  PROVE  Pool \in FSet(ns') => ns'.fs[Pool].origin = NoSnap
<1> DEFINE Good == Pool \in FSet(ns') => ns'.fs[Pool].origin = NoSnap
<1>1. WellFormed(ns) /\ Rooted(ns) /\ (Pool \in FSet(ns) => ns.fs[Pool].origin = NoSnap)
  BY DEF IInv, GInv, LInv, PoolPlain, TypeOK, WellFormed
<1>2. ASSUME ns'.fs = ns.fs PROVE Good
  BY <1>1, <1>2 DEF FSet
<1>3. ASSUME NEW f \in Paths, NEW o, NEW t, CanCreate(ns, f), ns' = Create(ns, f, t, o) PROVE Good
  <2>1. PICK q \in FSet(ns) : IsChild(f, q) /\ Under(q, Pool) /\ q \in Seq(STRING)
    BY <1>1, <1>3 DEF CanCreate, Rooted, WellFormed, IsNamespace
  <2>2. f # Pool
    BY <2>1 DEF IsChild, Under
  <2> QED BY <1>1, <1>3, <2>2 DEF Create, FSet
<1>4. CASE Client
  <2>1. ASSUME NEW f, NEW n, DatasetSnapshot(f, n) PROVE Good
    BY <1>2, <2>1 DEF DatasetSnapshot, Snapshot
  <2>2. ASSUME NEW c, ClientPromote(c) PROVE Good
    BY <1>1, <2>2, PromotePlain DEF ClientPromote
  <2> QED BY <1>3, <1>4, <2>1, <2>2 DEF Client, DatasetCreate, Clone
<1>5. CASE status = "running" /\ Step
  <2>1. CASE PromoteClone
    <3>1. ns.snap[ns.fs[Top.clone].origin].of = Node.of /\ CanPromote(ns, Top.clone)
          /\ ns' = Promote(ns, Top.clone)
      BY <1>5, <2>1, TopFrame DEF LInv, OwnClone, PromoteClone, At
    <3>2. Node.of # Pool
      BY <1>5, InnerNotPool, TopFrame DEF LInv, Inner
    <3> QED BY <1>1, <3>1, <3>2, PromotePlain
  <2>2. CASE DestroyNode
    <3>1. CASE ns' = DestroySnap(ns, Node.of, NodeName)
      BY <1>2, <3>1 DEF DestroySnap
    <3>2. CASE ns' = DestroyFs(ns, Node.of)
      BY <1>1, <3>2 DEF DestroyFs, FSet
    <3> QED BY <2>2, <3>1, <3>2 DEF DestroyNode
  <2>3. CASE \E i \in Top.todo : KeepName(i) \/ RenameConflict(i)
    BY <1>2, <2>3 DEF KeepName, RenameConflict, RenameSnap
  <2>4. CASE \E n \in Top.psnaps : Sweep(n)
    BY <1>2, <2>4 DEF Sweep, DestroySnap
  <2>5. CASE \/ Search \/ OpenClone \/ \E k \in Top.kids : Descend(k)
             \/ ReopenClone \/ SweepDone \/ FailRefused \/ FailFault
    BY <1>2, <2>5
       DEF Search, OpenClone, Descend, ReopenClone, SweepDone, FailRefused, FailFault
  <2> QED BY <1>5, <2>1, <2>2, <2>3, <2>4, <2>5 DEF Step
<1>6. CASE (\E f \in Targets : Begin(f)) \/ Collect \/ UNCHANGED vars
  BY <1>2, <1>6 DEF Begin, Collect, vars
<1> QED BY <1>4, <1>5, <1>6 DEF Next

(* The second invariant holds at first and after every step.               *)
LEMMA InitLInv == Init => LInv
<1> SUFFICES ASSUME Init PROVE LInv
  OBVIOUS
<1>1. stack = <<>> /\ Len(stack) = 0 /\ status = "idle" /\ FSet(view) = {}
      /\ ns.fs = [p \in {Pool} |-> [born |-> 0, origin |-> NoSnap]]
  BY DEF Init, FSet, Empty
<1> QED BY <1>1 DEF LInv, Stacked, OwnClone, PoolPlain

LEMMA NextLInv == IInv /\ GInv /\ UInv /\ LInv /\ [Next]_vars => LInv'
<1> SUFFICES ASSUME IInv, GInv, UInv, LInv, [Next]_vars PROVE LInv'
  OBVIOUS
<1>1. Pool \in FSet(ns') => ns'.fs[Pool].origin = NoSnap
  BY PoolSpace
<1>2. Stacked /\ OwnClone /\ PoolPlain /\ WellFormed(ns) /\ txg \in Nat
  BY DEF LInv, IInv, TypeOK, WellFormed
<1>3. CASE Client
  <2>1. UNCHANGED <<status, target, view, stack>>
    BY <1>3 DEF Client, DatasetCreate, DatasetSnapshot, Clone, ClientPromote, clientVars
  <2>2. PoolPlain' /\ Stacked' /\ UNCHANGED <<Top, Node>>
    BY <1>1, <1>2, <2>1 DEF PoolPlain, Stacked, Top, Node
  <2>3. CASE stack = <<>>
    BY <2>1, <2>2, <2>3 DEF LInv, OwnClone
  <2>4. CASE stack # <<>> /\ Top.pc \notin {"open", "resolve"}
    BY <1>2, <2>1, <2>2, <2>4 DEF LInv, OwnClone
  <2>5. CASE stack # <<>> /\ Top.pc \in {"open", "resolve"}
    <3>1. /\ Top.clone \in FSet(ns) /\ ns.fs[Top.clone].origin \in Ids(ns)
          /\ ns.fs[Top.clone].origin # NoSnap /\ ns.snap[ns.fs[Top.clone].origin].of = Node.of
      BY <1>2, <2>5 DEF OwnClone, WellFormed, Anchored
    <3>2. ns.fs[Top.clone].origin # txg + 1 /\ status # "idle"
      BY <1>2, <2>5, <3>1 DEF UInv, IInv, TypeOK
    <3>3. ASSUME NEW f, NEW o, NEW t, CanCreate(ns, f), ns' = Create(ns, f, t, o)
          PROVE  Top.clone \in FSet(ns') /\ ns'.fs[Top.clone] = ns.fs[Top.clone] /\ ns'.snap = ns.snap
      BY <3>1, <3>3 DEF Create, CanCreate, FSet
    <3>4. ASSUME NEW f, NEW n, ns' = Snapshot(ns, f, n, txg + 1)
          PROVE  ns'.fs = ns.fs /\ ns'.snap[ns.fs[Top.clone].origin] = ns.snap[ns.fs[Top.clone].origin]
      BY <3>1, <3>2, <3>4 DEF Snapshot
    <3>5. \/ /\ Top.clone \in FSet(ns') /\ ns'.fs[Top.clone] = ns.fs[Top.clone] /\ ns'.snap = ns.snap
          \/ ns'.fs = ns.fs /\ ns'.snap[ns.fs[Top.clone].origin] = ns.snap[ns.fs[Top.clone].origin]
      BY <1>3, <3>2, <3>3, <3>4 DEF Client, DatasetCreate, DatasetSnapshot, Clone, ClientPromote
    <3>6. /\ Top.clone \in FSet(ns') /\ ns'.fs[Top.clone].origin = ns.fs[Top.clone].origin
          /\ ns'.snap[ns.fs[Top.clone].origin].of = Node.of
      BY <3>1, <3>5 DEF FSet
    <3> QED BY <2>2, <2>5, <3>1, <3>6 DEF LInv, OwnClone
  <2> QED BY <2>3, <2>4, <2>5
<1>4. ASSUME NEW f \in Targets, Begin(f) PROVE LInv'
  <2>1. /\ status' = "running" /\ target' = f /\ f # Pool /\ view' = ns /\ ns' = ns
        /\ stack' = <<Frame(FsNode(f))>> /\ f \in FSet(ns)
    BY <1>4 DEF Begin
  <2>2. Len(stack') = 1 /\ stack'[1] = Frame(FsNode(f)) /\ Top' = Frame(FsNode(f))
    BY <2>1 DEF Top
  <2>3. /\ Frame(FsNode(f)).kids = {} /\ Frame(FsNode(f)).pc = "search"
        /\ Frame(FsNode(f)).clone = NoClone /\ Frame(FsNode(f)).psnaps = {}
        /\ Frame(FsNode(f)).node.of = f
    BY DEF Frame, FsNode
  <2>4. PoolPlain'
    BY <1>1, <2>1 DEF PoolPlain
  <2>5. OwnClone'
    BY <2>2, <2>3 DEF OwnClone
  <2>6. Stacked'
    BY <2>1, <2>2, <2>3 DEF Stacked
  <2> QED BY <2>4, <2>5, <2>6 DEF LInv
<1>5. CASE Collect
  <2>1. status' = "idle" /\ stack' = <<>> /\ Len(stack') = 0 /\ FSet(view') = {}
    BY <1>5 DEF Collect, IInv, TypeOK, Empty, FSet
  <2> QED BY <1>1, <2>1 DEF LInv, PoolPlain, OwnClone, Stacked
<1>6. CASE UNCHANGED vars
  BY <1>2, <1>6 DEF vars, LInv, PoolPlain, OwnClone, Stacked, Top, Node
<1>7. CASE status = "running" /\ Step
  <2>1. UNCHANGED <<view, target>>
    BY <1>7, StepKeepsCall
  <2>2. PoolPlain'
    BY <1>1, <1>2, <1>7, <2>1 DEF PoolPlain
  <2>3. Stacked' /\ OwnClone'
    BY <1>2, <1>7, StackedStep, OwnCloneStep
  <2> QED BY <2>2, <2>3 DEF LInv
<1> QED BY <1>3, <1>4, <1>5, <1>6, <1>7 DEF Next

-----------------------------------------------------------------------------
(* While no client acts, what an activation lists for its last loop are    *)
(* names that its clone had not when the pool was opened, because a name   *)
(* that the clone has is changed first (zfs.go:730-739); and the clone's   *)
(* names were read before any was added.                                   *)
ListedApart(fr) ==
  \A j \in Ids(view) :
    (view.snap[j].of = fr.clone /\ ~Inner(fr.clone)) => view.snap[j].name \notin fr.psnaps

KnowsNames ==
  (stack # <<>> /\ Top.pc = "resolve") =>
    /\ \A i \in Top.todo : view.snap[i].of = Node.of
    /\ \A j \in Ids(view) :
         (view.snap[j].of = Top.clone /\ ~Inner(Top.clone)) => view.snap[j].name \in Top.names

Apart == ForeignSnapsKept /\ KnowsNames /\ \A k \in 1..Len(stack) : ListedApart(stack[k])

(* The third invariant: what is foreign is what lay outside the target,    *)
(* and is as it was.                                                       *)
KInv ==
  /\ status = "idle" => foreign = {}
  /\ (quiet /\ status # "idle") =>
       /\ foreign = {j \in Ids(view) : ~Inner(view.snap[j].of)}
       /\ ~SuffixClash => Apart

(* The snapshots that a kernel operation leaves alone.                     *)
LEMMA RenameLeaves ==
  ASSUME NEW n, NEW f, NEW s, NEW t, NEW i \in Ids(n), i \notin Holding(n, f, s)
  PROVE  i \in Ids(RenameSnap(n, f, s, t)) /\ RenameSnap(n, f, s, t).snap[i] = n.snap[i]
<1>1. i \in Ids(RenameSnap(n, f, s, t))
  BY IdsAfter
<1> QED BY <1>1 DEF RenameSnap

LEMMA PromoteLeaves ==
  ASSUME NEW n, NEW c, NEW i \in Ids(n), i \notin Shared(n, c)
  PROVE  i \in Ids(Promote(n, c)) /\ Promote(n, c).snap[i] = n.snap[i]
<1>1. i \in Ids(Promote(n, c))
  BY IdsAfter
<1> QED BY <1>1 DEF Promote

LEMMA DestroyLeaves ==
  ASSUME NEW n, NEW f, NEW s, NEW i \in Ids(n), i \notin Holding(n, f, s)
  PROVE  i \in Ids(DestroySnap(n, f, s)) /\ DestroySnap(n, f, s).snap[i] = n.snap[i]
<1>1. i \in Ids(DestroySnap(n, f, s))
  BY IdsAfter
<1> QED BY <1>1 DEF DestroySnap

(* No step but that of the last loop takes a foreign snapshot.             *)
LEMMA ForeignStep ==
  ASSUME IInv, LInv, Apart, \A i \in foreign : i \in Ids(view) /\ ~Inner(view.snap[i].of),
         status = "running", Step
  PROVE  ForeignSnapsKept'
<1>1. UNCHANGED <<foreign, view>>
  BY StepKeepsCall
<1>2. \A i \in foreign : i \in Ids(view) /\ i \in Ids(ns) /\ ns.snap[i] = view.snap[i] /\ ~Inner(ns.snap[i].of)
  BY DEF Apart, ForeignSnapsKept
<1> SUFFICES ASSUME NEW i \in foreign PROVE i \in Ids(ns') /\ ns'.snap[i] = ns.snap[i]
  BY <1>1, <1>2 DEF ForeignSnapsKept
<1>3. i \in Ids(ns) /\ ~Inner(ns.snap[i].of) /\ Inner(Node.of)
  BY <1>2, TopFrame DEF Inner
<1>4. \A s : i \notin Holding(ns, Node.of, s)
  BY <1>3 DEF Holding, SnapsOf
<1>5. CASE UNCHANGED ns
  BY <1>3, <1>5
<1>6. CASE \E j \in Top.todo : RenameConflict(j)
  BY <1>3, <1>4, <1>6, RenameLeaves DEF RenameConflict
<1>7. CASE PromoteClone
  <2>1. ns.snap[ns.fs[Top.clone].origin].of = Node.of
    BY <1>7, TopFrame DEF LInv, OwnClone, PromoteClone, At
  <2>2. i \notin Shared(ns, Top.clone)
    BY <1>3, <2>1 DEF Shared, SnapsOf
  <2> QED BY <1>3, <1>7, <2>2, PromoteLeaves DEF PromoteClone
<1>8. CASE DestroyNode
  <2>1. CASE ns' = DestroyFs(ns, Node.of)
    BY <1>3, <2>1, IdsAfter DEF DestroyFs
  <2> QED BY <1>3, <1>4, <1>8, <2>1, DestroyLeaves DEF DestroyNode
<1>9. ASSUME NEW n \in Top.psnaps, ns' = DestroySnap(ns, Top.clone, n)
      PROVE  i \in Ids(ns') /\ ns'.snap[i] = ns.snap[i]
  <2>1. ListedApart(Top)
    BY TopFrame DEF Apart, Top
  <2>2. ~(ns.snap[i].of = Top.clone /\ ns.snap[i].name = n)
    BY <1>2, <1>3, <2>1 DEF ListedApart
  <2>3. i \notin Holding(ns, Top.clone, n)
    BY <2>2 DEF Holding, SnapsOf
  <2> QED BY <1>3, <1>9, <2>3, DestroyLeaves
<1>10. CASE \E n \in Top.psnaps : Sweep(n)
  BY <1>5, <1>9, <1>10 DEF Sweep
<1>11. CASE \/ Search \/ OpenClone \/ \E j \in Top.todo : KeepName(j)
            \/ \E k \in Top.kids : Descend(k)
            \/ ReopenClone \/ SweepDone \/ FailRefused \/ FailFault
  BY <1>5, <1>11
     DEF Search, OpenClone, KeepName, Descend, ReopenClone, SweepDone, FailRefused, FailFault
<1> QED BY <1>6, <1>7, <1>8, <1>10, <1>11 DEF Step

(* What a step puts down for the last loop is no name of a snapshot that   *)
(* the clone had.                                                          *)
AllApart == \A k \in 1..Len(stack) : ListedApart(stack[k])

LEMMA NamesStep ==
  ASSUME IInv, LInv, Apart, foreign = {j \in Ids(view) : ~Inner(view.snap[j].of)}, ~SuffixClash,
         status = "running", Step
  PROVE  KnowsNames' /\ AllApart'
<1>1. UNCHANGED <<target, view>> /\ stack # <<>> /\ KnowsNames
      /\ Inner(Node.of) /\ 1 \in 1..Len(stack) /\ stack \in Seq(Frames)
  BY StepKeepsCall, TopFrame DEF Apart, Inner
<1>2. \A k \in 1..Len(stack) : ListedApart(stack[k])
  BY DEF Apart
<1>3. ASSUME \A k \in 1..Len(stack') : ListedApart(stack'[k]) PROVE AllApart'
  BY <1>1, <1>3 DEF AllApart, ListedApart, Inner
<1>4. ASSUME NEW pc, NEW clone, NEW names, NEW todo, NEW psnaps, NEW kids,
             Turns(pc, clone, names, todo, psnaps, kids),
             clone = Top.clone \/ psnaps = {},
             \A n \in psnaps : n \in Top.psnaps \/
               \A j \in Ids(view) : view.snap[j].of = clone /\ ~Inner(clone) => view.snap[j].name # n,
             pc = "resolve" =>
               /\ \A i \in todo : view.snap[i].of = Node.of
               /\ \A j \in Ids(view) : view.snap[j].of = clone /\ ~Inner(clone) => view.snap[j].name \in names
      PROVE  KnowsNames' /\ AllApart'
  <2>1. /\ Len(stack') = Len(stack) /\ stack'[1].clone = clone /\ stack'[1].psnaps = psnaps
        /\ Top'.pc = pc /\ Top'.clone = clone /\ Node' = Node /\ Top'.names = names /\ Top'.todo = todo
        /\ \A k \in 1..Len(stack) : k # 1 => stack'[k] = stack[k]
    BY <1>4 DEF Turns, Top, Node
  <2>2. ListedApart(Top)
    BY <1>1, <1>2 DEF Top
  <2>3. ListedApart(stack'[1])
    BY <1>4, <2>1, <2>2 DEF ListedApart
  <2>4. \A k \in 1..Len(stack') : ListedApart(stack'[k])
    BY <1>2, <2>1, <2>3
  <2>5. KnowsNames'
    BY <1>1, <1>4, <2>1 DEF KnowsNames, Inner
  <2> QED BY <1>3, <2>4, <2>5
<1>5. ASSUME ReturnNil PROVE KnowsNames' /\ AllApart'
  <2>1. /\ Len(stack) \in Nat /\ Len(stack) >= 1 /\ Len(stack') = Len(stack) - 1
        /\ \A k \in 1..Len(stack') : stack'[k] = stack[k + 1] /\ k + 1 \in 2..Len(stack)
    BY <1>5, Popped
  <2>2. \A k \in 1..Len(stack') : ListedApart(stack'[k]) /\ stack'[k].pc = "children"
    <3> SUFFICES ASSUME NEW k \in 1..Len(stack') PROVE ListedApart(stack'[k]) /\ stack'[k].pc = "children"
      OBVIOUS
    <3>1. k + 1 \in 1..Len(stack) /\ k + 1 \in 2..Len(stack) /\ stack'[k] = stack[k + 1]
      BY <2>1
    <3> QED BY <1>2, <3>1 DEF LInv, Stacked
  <2>3. stack' \in Seq(Frames)
    BY <1>5, ReturnInside
  <2>4. KnowsNames'
    <3>1. SUFFICES ASSUME stack' # <<>> PROVE Top'.pc = "children"
      BY DEF KnowsNames
    <3>2. 1 \in 1..Len(stack')
      BY <2>3, <3>1
    <3> QED BY <2>2, <3>2 DEF Top
  <2> QED BY <1>3, <2>2, <2>4
<1>6. CASE Search
  <2>1. Top.clone = NoClone /\ Top.psnaps = {}
    BY <1>1, <1>6 DEF LInv, OwnClone, Search, At
  <2>2. ASSUME NEW pc \in {"open", "children"}, NEW clone, NEW kids,
               Turns(pc, clone, Top.names, Top.todo, Top.psnaps, kids)
        PROVE  KnowsNames' /\ AllApart'
    BY <1>4, <2>1, <2>2
  <2> QED BY <1>6, <2>2, SearchTurns
<1>7. CASE OpenClone
  <2>1. Turns("resolve", Top.clone, NamesOf(ns, Top.clone), Snapshots(view, Node), Top.psnaps, Top.kids)
    BY <1>7, OpenTurns
  <2>2. \A i \in Snapshots(view, Node) : view.snap[i].of = Node.of
    BY DEF Snapshots, SnapsOf
  <2>3. ASSUME NEW j \in Ids(view), view.snap[j].of = Top.clone, ~Inner(Top.clone)
        PROVE  view.snap[j].name \in NamesOf(ns, Top.clone)
    <3>1. j \in foreign
      BY <2>3
    <3>2. j \in Ids(ns) /\ ns.snap[j] = view.snap[j]
      BY <2>3, <3>1 DEF Apart, ForeignSnapsKept
    <3> QED BY <2>3, <3>2 DEF NamesOf, SnapsOf
  <2> QED BY <1>4, <2>1, <2>2, <2>3
<1>8. ASSUME NEW i \in Top.todo, KeepName(i) \/ RenameConflict(i) PROVE KnowsNames' /\ AllApart'
  <2>0. /\ Top.pc = "resolve" /\ i \in Ids(view)
        /\ \A j \in Top.todo : view.snap[j].of = Node.of
        /\ \A j \in Ids(view) : view.snap[j].of = Top.clone /\ ~Inner(Top.clone) => view.snap[j].name \in Top.names
    BY <1>1, <1>8, TopFrame DEF KeepName, RenameConflict, At, KnowsNames, FrameInside
  <2>1. PICK n \in Names :
          /\ Listed(i, n)
          /\ n \notin Top.names \/ n = NewName(i)
    BY <1>8, NewNames DEF KeepName, RenameConflict, Conflict
  <2>2. Turns("resolve", Top.clone, Top.names, Top.todo \ {i}, Top.psnaps \cup {n}, Top.kids)
    BY <2>1, ListedTurns
  <2>3. ASSUME NEW j \in Ids(view), view.snap[j].of = Top.clone, ~Inner(Top.clone)
        PROVE  view.snap[j].name # n
    <3>1. CASE n \notin Top.names
      BY <2>0, <2>3, <3>1
    <3>2. CASE n = NewName(i)
      <4>1. view.snap[i].of = Node.of /\ Inner(view.snap[i].of) /\ ~Inner(view.snap[j].of)
        BY <1>1, <2>0, <2>3
      <4>2. n = Append(view.snap[i].name, Base(view.snap[i].of))
        BY <3>2, <4>1 DEF NewName
      <4> QED BY <2>0, <2>3, <4>1, <4>2 DEF SuffixClash
    <3> QED BY <2>1, <3>1, <3>2
  <2>4. \A m \in Top.psnaps \cup {n} : m \in Top.psnaps \/
           \A j \in Ids(view) : view.snap[j].of = Top.clone /\ ~Inner(Top.clone) => view.snap[j].name # m
    BY <2>3
  <2>5. \A j \in Top.todo \ {i} : view.snap[j].of = Node.of
    BY <2>0
  <2> QED BY <1>4, <2>0, <2>2, <2>4, <2>5
<1>9. CASE PromoteClone
  <2>1. Turns("children", Top.clone, Top.names, Top.todo, Top.psnaps, Children(view, Node))
    BY <1>9, PromoteTurns
  <2> QED BY <1>4, <2>1
<1>10. ASSUME NEW e \in Top.kids, Descend(e) PROVE KnowsNames' /\ AllApart'
  <2>1. /\ Len(stack) \in Nat /\ Len(stack) >= 1 /\ Len(stack') = Len(stack) + 1
        /\ stack'[1] = Frame(e) /\ Top' = Frame(e) /\ stack'[2].clone = Top.clone /\ stack'[2].psnaps = Top.psnaps
        /\ \A k \in 2..Len(stack) : stack'[k + 1] = stack[k]
        /\ \A k \in 1..Len(stack') : k = 1 \/ k = 2 \/ k - 1 \in 2..Len(stack)
    BY <1>10, Pushed DEF Top
  <2>2. ListedApart(Top)
    BY <1>1, <1>2 DEF Top
  <2>3. ASSUME NEW k \in 1..Len(stack') PROVE ListedApart(stack'[k])
    <3>1. CASE k = 1
      BY <2>1, <3>1 DEF ListedApart, Frame
    <3>2. CASE k = 2
      BY <2>1, <2>2, <3>2 DEF ListedApart
    <3>3. CASE k - 1 \in 2..Len(stack)
      <4>1. k - 1 \in 1..Len(stack) /\ (k - 1) + 1 = k
        BY <2>1, <3>3
      <4>2. stack'[k] = stack[k - 1]
        BY <2>1, <3>3, <4>1
      <4> QED BY <1>2, <4>1, <4>2
    <3> QED BY <2>1, <3>1, <3>2, <3>3
  <2>4. KnowsNames'
    BY <2>1 DEF KnowsNames, Frame
  <2> QED BY <1>3, <2>3, <2>4
<1>11. CASE DestroyNode
  <2>1. ASSUME Turns("reopen", Top.clone, Top.names, Top.todo, Top.psnaps, Top.kids) PROVE KnowsNames' /\ AllApart'
    BY <1>4, <2>1
  <2> QED BY <1>5, <1>11, <2>1, DestroyTurns
<1>12. CASE ReopenClone
  <2>1. Turns("sweep", Top.clone, NamesOf(ns, Top.clone), Top.todo, Top.psnaps, Top.kids)
    BY <1>12, ReopenTurns
  <2> QED BY <1>4, <2>1
<1>13. ASSUME NEW n \in Top.psnaps, Sweep(n) PROVE KnowsNames' /\ AllApart'
  <2>1. Turns("sweep", Top.clone, Top.names, Top.todo, Top.psnaps \ {n}, Top.kids)
    BY <1>13, SweepTurns
  <2> QED BY <1>4, <2>1
<1>14. CASE SweepDone
  BY <1>5, <1>14 DEF SweepDone
<1>15. CASE FailRefused \/ FailFault
  <2>1. stack' = <<>> /\ Len(stack') = 0
    BY <1>15 DEF FailRefused, FailFault, Abort
  <2> QED BY <2>1 DEF AllApart, KnowsNames
<1> QED BY <1>6, <1>7, <1>8, <1>9, <1>10, <1>11, <1>12, <1>13, <1>14, <1>15 DEF Step

(* The third invariant holds at first and after every step.                *)
LEMMA InitKInv == Init => KInv
  BY DEF Init, KInv

LEMMA NextKInv == IInv /\ LInv /\ KInv /\ [Next]_vars => KInv'
<1> SUFFICES ASSUME IInv, LInv, KInv, [Next]_vars PROVE KInv'
  OBVIOUS
<1>1. CASE Client
  <2>1. CASE status = "idle"
    <3>1. status' = "idle" /\ foreign' = foreign
      BY <1>1, <2>1 DEF Client, DatasetCreate, DatasetSnapshot, Clone, ClientPromote, clientVars
    <3> QED BY <2>1, <3>1 DEF KInv
  <2>2. CASE status # "idle"
    <3>1. status' # "idle" /\ quiet' = FALSE
      BY <1>1, <2>2 DEF Client, DatasetCreate, DatasetSnapshot, Clone, ClientPromote, clientVars, Noticed
    <3> QED BY <3>1 DEF KInv
  <2> QED BY <2>1, <2>2
<1>2. ASSUME NEW f \in Targets, Begin(f) PROVE KInv'
  <2>1. /\ status' = "running" /\ target' = f /\ view' = ns /\ ns' = ns
        /\ foreign' = {i \in Ids(ns) : ~Under(ns.snap[i].of, f)}
        /\ stack' = <<Frame(FsNode(f))>>
    BY <1>2 DEF Begin
  <2>2. Len(stack') = 1 /\ stack'[1] = Frame(FsNode(f)) /\ Top' = Frame(FsNode(f))
    BY <2>1 DEF Top
  <2>3. Frame(FsNode(f)).pc = "search" /\ Frame(FsNode(f)).psnaps = {}
    BY DEF Frame
  <2>4. ForeignSnapsKept' /\ (foreign = {j \in Ids(view) : ~Inner(view.snap[j].of)})'
    BY <2>1 DEF ForeignSnapsKept, Inner
  <2>5. KnowsNames' /\ AllApart'
    BY <2>2, <2>3 DEF KnowsNames, AllApart, ListedApart
  <2> QED BY <2>1, <2>4, <2>5 DEF KInv, Apart, AllApart
<1>3. CASE Collect
  BY <1>3 DEF Collect, KInv
<1>4. CASE UNCHANGED vars
  BY <1>4 DEF vars, KInv, Inner, SuffixClash, Apart, ForeignSnapsKept, KnowsNames, ListedApart, Top, Node
<1>5. CASE status = "running" /\ Step
  <2>1. UNCHANGED <<target, view, foreign, quiet>> /\ status' # "idle"
    <3>1. CASE Abort \/ ReturnNil
      BY <1>5, <3>1, StepKeepsCall DEF Abort, ReturnNil
    <3>2. CASE status' = "running"
      BY <1>5, <3>2, StepKeepsCall
    <3> QED BY <1>5, <3>1, <3>2, StackStep
  <2>2. SUFFICES ASSUME quiet, ~SuffixClash PROVE Apart'
    BY <1>5, <2>1, <2>2 DEF KInv, Inner, SuffixClash
  <2>3. Apart /\ foreign = {j \in Ids(view) : ~Inner(view.snap[j].of)}
    BY <1>5, <2>2 DEF KInv
  <2>4. ForeignSnapsKept' /\ KnowsNames' /\ AllApart'
    BY <1>5, <2>2, <2>3, ForeignStep, NamesStep
  <2> QED BY <2>4 DEF AllApart, Apart
<1> QED BY <1>1, <1>2, <1>3, <1>4, <1>5 DEF Next

(* While no client acts DestroyPromote destroys and renames no snapshot    *)
(* that was not the target's, in its last loop (zfs.go:761-766) or before, *)
(* whatever libzfs calls fail, if no name that it makes up is in use       *)
(* outside the subtree: what it lists for the last loop (zfs.go:730-739)   *)
(* is no name that the clone had.                                          *)
THEOREM KeepsForeignSnaps == Spec => []QuietKeepsForeignSnaps
<1>1. KInv => QuietKeepsForeignSnaps
  <2>1. CASE status = "idle"
    BY <2>1 DEF KInv, QuietKeepsForeignSnaps, ForeignSnapsKept
  <2>2. CASE status # "idle"
    BY <2>2 DEF KInv, QuietKeepsForeignSnaps, Apart
  <2> QED BY <2>1, <2>2
<1> QED BY InitIInv, NextIInv, InitGInv, NextGInv, InitUInv, NextUInv, InitLInv, NextLInv,
           InitKInv, NextKInv, <1>1, PTL DEF Spec

-----------------------------------------------------------------------------
(* The state of a plain call, filesystem by filesystem.  Own: the          *)
(* snapshots that a filesystem had when the pool was opened.               *)
Own(f) == SnapsOf(view, f)

(* What of the opened pool is left while a plain call runs.                *)
SnapsLeft ==
  \A i \in Ids(ns) :
    /\ i \in Ids(view)
    /\ ~Inner(view.snap[i].of) => ns.snap[i] = view.snap[i]
    /\ ns.snap[i].of = view.snap[i].of \/ CloneOf(ns.snap[i].of, view.snap[i].of)

(* An origin changes only where a promotion moves it: a filesystem of the  *)
(* subtree then has its origin among its own old snapshots, now a clone's, *)
(* and a clone may have lost or kept its own.                              *)
OriginKept(f) == ns.fs[f].origin = view.fs[f].origin

FsLeft ==
  \A f \in FSet(ns) :
    LET o == ns.fs[f].origin
    IN  /\ f \in FSet(view) /\ ns.fs[f].born = view.fs[f].born
        /\ \/ o \in Ids(view) /\ ~Inner(view.snap[o].of)
           \/ o = NoSnap
           \/ ~Inner(f) /\ OriginKept(f)
           \/ Inner(f) /\ o \in Own(f) /\ ~Inner(ns.snap[o].of)
        /\ (~Inner(f) /\ view.fs[f].origin = NoSnap) => o = NoSnap

(* A filesystem of the subtree before its activation, and after it.        *)
Fresh(f) ==
  /\ \A i \in Own(f) : i \in Ids(ns) /\ ns.snap[i] = view.snap[i]
  /\ \A c \in FSet(view) : CloneOf(c, f) => OriginKept(c)

(* A snapshot that stays because a clone outside the subtree needs it.     *)
Wanted(i) == ~Inner(ns.snap[i].of) /\ \E c \in FSet(ns) : ~Inner(c) /\ ns.fs[c].origin = i
Settled(f) == f \notin FSet(ns) /\ \A i \in Own(f) \cap Ids(ns) : Wanted(i)

(* Every filesystem of the subtree without an activation is untouched or   *)
(* done.                                                                   *)
OnStack(f) == \E k \in 1..Len(stack) : stack[k].node = FsNode(f)

Swept ==
  \A f \in FSet(view) :
    (Inner(f) /\ ~OnStack(f)) => IF f \in FSet(ns) THEN Fresh(f) ELSE Settled(f)

(* And while its activation is under way.                                  *)
Unclaimed(f) == \A i \in SnapsOf(ns, f) : ClonesOf(ns, i) = {}
Youngest(c, f) == \A g \in FSet(view) : CloneOf(g, f) => view.fs[g].origin <= view.fs[c].origin
Carried(fr, i) == fr.clone # NoClone /\ ns.snap[i].of = fr.clone /\ ns.snap[i].name \in fr.psnaps

(* What an activation knows of its clone, and the three stretches of its   *)
(* work: resolving name conflicts before the promotion, destroying the     *)
(* children, and the last loop.                                            *)
ChoseClone(fr) ==
  /\ fr.clone # NoClone => fr.clone \in FSet(view) /\ CloneOf(fr.clone, fr.node.of)
  /\ fr.pc \in {"open", "resolve", "reopen", "sweep"} => fr.clone # NoClone
  /\ IsSnapshot(fr.node) => fr.clone = NoClone

Resolving(fr, f) ==
  /\ \A c \in FSet(view) : CloneOf(c, f) => OriginKept(c)
  /\ fr.todo \subseteq Own(f)
  /\ \A i \in Own(f) :
       /\ i \in Ids(ns) /\ ns.snap[i].of = f
       /\ IF i \in fr.todo THEN ns.snap[i] = view.snap[i] ELSE ns.snap[i].name \in fr.psnaps

Emptying(fr, f) ==
  /\ Unclaimed(f)
  /\ \A i \in Own(f) \cap Ids(ns) : ns.snap[i].of = f \/ Carried(fr, i) \/ Wanted(i)

Sweeping(fr, f) ==
  /\ f \notin FSet(ns)
  /\ \A i \in Own(f) \cap Ids(ns) : Carried(fr, i) \/ Wanted(i)
  /\ fr.pc = "sweep" => NamesOf(ns, fr.clone) \subseteq fr.names

Phase(fr, f) ==
  CASE fr.pc = "search" -> IF f \in FSet(ns) THEN Fresh(f) ELSE Settled(f)
    [] fr.pc = "open" -> Fresh(f) /\ Youngest(fr.clone, f)
    [] fr.pc = "resolve" -> Resolving(fr, f) /\ Youngest(fr.clone, f)
    [] fr.pc = "children" -> Emptying(fr, f)
    [] OTHER -> Sweeping(fr, f)

Active(fr) == ChoseClone(fr) /\ (~IsSnapshot(fr.node) => Phase(fr, fr.node.of))

(* Every activation is in the phase that its place in the code says.       *)
AllActive == \A k \in 1..Len(stack) : Active(stack[k])

(* A plain call in the middle of its run.                                  *)
PlainRun ==
  /\ IInv /\ GInv /\ UInv /\ LInv
  /\ status = "running" /\ ~InnerClone /\ ~HiddenClone
  /\ SnapsLeft /\ FsLeft /\ Swept /\ AllActive

-----------------------------------------------------------------------------
(* What a plain pool has in common with the pool as it was opened.         *)
LEMMA Spaces ==
  ASSUME IInv
  PROVE  /\ WellFormed(ns) /\ WellFormed(view) /\ target \in Paths
         /\ \A i \in Ids(ns) : i \in Nat /\ i # NoSnap /\ ns.snap[i].of \in FSet(ns) /\ ns.snap[i].of \in Paths
         /\ \A i \in Ids(view) : i \in Nat /\ i # NoSnap /\ view.snap[i].of \in FSet(view) /\ view.snap[i].of \in Paths
         /\ \A f \in FSet(ns) : f \in Paths /\ ns.fs[f].origin \in Ids(ns) \cup {NoSnap}
         /\ \A f \in FSet(view) : f \in Paths /\ view.fs[f].origin \in Ids(view) \cup {NoSnap}
<1>1. WellFormed(ns) /\ WellFormed(view) /\ target \in Paths
  BY DEF IInv, TypeOK, WellFormed
<1>2. ASSUME NEW n, WellFormed(n)
      PROVE  /\ \A i \in Ids(n) : i \in Nat /\ i # NoSnap /\ n.snap[i].of \in FSet(n) /\ n.snap[i].of \in Paths
             /\ \A f \in FSet(n) : f \in Paths /\ n.fs[f].origin \in Ids(n) \cup {NoSnap}
  BY <1>2 DEF WellFormed, IsNamespace, Anchored, Txgs, NoSnap
<1> QED BY <1>1, <1>2

(* What lies outside the subtree stays, and is whose clone it was.         *)
LEMMA OuterThere ==
  ASSUME IInv, NEW c \in FSet(view), ~Inner(c)
  PROVE  c \in FSet(ns)
  BY DEF IInv, OutsideUntouched, Survives, Inner

LEMMA CloneOuter ==
  ASSUME ~InnerClone, NEW c \in FSet(view), NEW f \in FSet(view), Inner(f), CloneOf(c, f)
  PROVE  ~Inner(c)
  BY DEF InnerClone

LEMMA OneOrigin ==
  ASSUME NEW c, NEW f, NEW g, CloneOf(c, f), CloneOf(c, g)
  PROVE  f = g
  BY DEF CloneOf

(* A snapshot that a filesystem of the subtree has was its own.            *)
LEMMA InnerOwn ==
  ASSUME IInv, ~InnerClone, SnapsLeft, FsLeft, NEW i \in Ids(ns), Inner(ns.snap[i].of)
  PROVE  /\ i \in Own(ns.snap[i].of) /\ view.snap[i].of = ns.snap[i].of
         /\ ns.snap[i].of \in FSet(ns) /\ ns.snap[i].of \in FSet(view)
<1>1. i \in Ids(view) /\ ns.snap[i].of \in FSet(ns) /\ view.snap[i].of \in FSet(view)
  BY Spaces DEF SnapsLeft
<1>2. ns.snap[i].of \in FSet(view)
  BY <1>1 DEF FsLeft
<1>3. Inner(view.snap[i].of)
  BY DEF SnapsLeft
<1>4. ~CloneOf(ns.snap[i].of, view.snap[i].of)
  BY <1>1, <1>2, <1>3 DEF InnerClone
<1>5. view.snap[i].of = ns.snap[i].of
  BY <1>4 DEF SnapsLeft
<1> QED BY <1>1, <1>2, <1>5 DEF Own, SnapsOf

(* A clone of a snapshot that a filesystem of the subtree has was cloned   *)
(* from it before the call, outside the subtree.                           *)
LEMMA OldClone ==
  ASSUME IInv, ~InnerClone, SnapsLeft, FsLeft, NEW f, Inner(f), NEW g \in FSet(ns),
         ns.fs[g].origin \in SnapsOf(ns, f)
  PROVE  /\ g \in FSet(view) /\ ~Inner(g) /\ CloneOf(g, f)
         /\ view.fs[g].origin = ns.fs[g].origin /\ ns.fs[g].origin \in Own(f)
         /\ f \in FSet(ns) /\ f \in FSet(view)
<1> DEFINE o == ns.fs[g].origin
<1>1. o \in Ids(ns) /\ ns.snap[o].of = f /\ o # NoSnap
  BY Spaces DEF SnapsOf
<1>2. o \in Own(f) /\ view.snap[o].of = f /\ f \in FSet(ns) /\ f \in FSet(view)
  BY <1>1, InnerOwn
<1>3. g \in FSet(view) /\ ~Inner(g) /\ OriginKept(g)
  BY <1>1, <1>2 DEF FsLeft
<1> QED BY <1>1, <1>2, <1>3 DEF OriginKept, CloneOf

(* No snapshot belonged to two filesystems.                                *)
LEMMA OwnDisjoint ==
  ASSUME NEW f, NEW g, NEW i \in Own(f), i \in Own(g)
  PROVE  f = g
  BY DEF Own, SnapsOf

-----------------------------------------------------------------------------
(* Clones() finds every clone of a filesystem that nothing has happened to *)
(* yet, and sorts them by their origins.                                   *)
LEMMA OriginIsOne ==
  ASSUME UInv, NEW f, NEW g, NEW o \in Own(f), ns.fs[g].origin = o, ns.snap[o] = view.snap[o]
  PROVE  OriginIn(view, FsNode(f), ns, g) = {o} /\ SortKey(view, FsNode(f), ns, g) = o
<1>1. o \in Ids(view) /\ view.snap[o].of = f
  BY DEF Own, SnapsOf
<1>2. /\ FsNode(f).of = f /\ ~IsSnapshot(FsNode(f))
      /\ Snapshots(view, FsNode(f)) = SnapsOf(view, f)
  BY DEF FsNode, IsSnapshot, Snapshots
<1>3. OriginIn(view, FsNode(f), ns, g) = {i \in SnapsOf(view, f) : view.snap[o].name = view.snap[i].name}
  BY <1>1, <1>2 DEF OriginIn
<1>4. \A i \in SnapsOf(view, f) : view.snap[o].name = view.snap[i].name <=> i = o
  BY <1>1 DEF UInv, Unique, SnapsOf
<1>5. OriginIn(view, FsNode(f), ns, g) = {o}
  BY <1>1, <1>3, <1>4 DEF SnapsOf
<1> QED BY <1>5 DEF SortKey

LEMMA FreshHit ==
  ASSUME IInv, UInv, NEW f \in FSet(view), Fresh(f), NEW g \in FSet(view), CloneOf(g, f)
  PROVE  /\ IsHit(view, FsNode(f), ns, g)
         /\ view.fs[g].origin \in Own(f) /\ ns.fs[g].origin = view.fs[g].origin
         /\ SortKey(view, FsNode(f), ns, g) = view.fs[g].origin
<1> DEFINE o == view.fs[g].origin
<1>1. o \in Own(f) /\ o # NoSnap
  BY Spaces DEF CloneOf, Own, SnapsOf
<1>2. ns.fs[g].origin = o /\ ns.snap[o] = view.snap[o]
  BY <1>1 DEF Fresh, OriginKept
<1>3. OriginIn(view, FsNode(f), ns, g) = {o} /\ SortKey(view, FsNode(f), ns, g) = o
  BY <1>1, <1>2, OriginIsOne
<1> QED BY <1>1, <1>2, <1>3 DEF IsHit

(* The pool's root filesystem is the only one without a parent.            *)
LEMMA CloneBelowPool ==
  ASSUME IInv, GInv, LInv, NEW g \in FSet(view), g \in FSet(ns), view.fs[g].origin # NoSnap
  PROVE  Len(g) > 1
<1>1. g # Pool /\ Under(g, Pool) /\ g \in Seq(STRING) /\ Pool \in Seq(STRING) /\ Pool # <<>>
  BY Spaces DEF LInv, PoolPlain, GInv, Rooted
<1>2. Len(Pool) \in Nat /\ Len(Pool) # 0 /\ Len(g) \in Nat
  BY <1>1
<1>3. Len(Pool) < Len(g)
  BY <1>1, UnderEqual
<1> QED BY <1>2, <1>3

LEMMA FreshFound ==
  ASSUME PlainRun, NEW f \in FSet(view), Inner(f), Fresh(f), NEW g \in FSet(view), CloneOf(g, f)
  PROVE  g \in FoundClones(view, FsNode(f), ns)
<1>0. IInv /\ UInv /\ GInv /\ LInv /\ ~InnerClone /\ ~HiddenClone /\ FsLeft
  BY DEF PlainRun
<1>1. ~Inner(g) /\ g \in FSet(ns) /\ view.fs[g].origin # NoSnap /\ g \in Paths
  BY <1>0, CloneOuter, OuterThere, Spaces DEF CloneOf
<1>2. Len(g) > 1
  BY <1>0, <1>1, CloneBelowPool
<1>3. ASSUME NEW h \in FSet(ns), Under(g, h), Len(h) < Len(g)
      PROVE  ns.fs[h].origin = NoSnap \/ IsHit(view, FsNode(f), ns, h)
  <2>1. h \in FSet(view) /\ h # g /\ h \in Paths
    BY <1>0, <1>1, <1>3, Spaces DEF FsLeft
  <2>2. ~Inner(h)
    <3>1. SUFFICES ASSUME Under(h, target) PROVE FALSE
      BY DEF Inner
    <3>2. g \in Seq(STRING) /\ h \in Seq(STRING) /\ target \in Seq(STRING)
      BY <1>0, <1>1, <2>1, Spaces
    <3>3. Under(g, target)
      BY <1>3, <3>1, <3>2, UnderTransitive
    <3> QED BY <1>1, <3>3 DEF Inner
  <2>3. view.fs[h].origin = NoSnap \/ CloneOf(h, f)
    BY <1>0, <1>1, <1>3, <2>1 DEF HiddenClone
  <2>4. CASE view.fs[h].origin = NoSnap
    BY <1>0, <2>2, <2>4 DEF FsLeft
  <2>5. CASE CloneOf(h, f)
    BY <1>0, <2>1, <2>5, FreshHit
  <2> QED BY <2>3, <2>4, <2>5
<1>4. IsHit(view, FsNode(f), ns, g)
  BY <1>0, FreshHit
<1> QED BY <1>1, <1>2, <1>3, <1>4 DEF FoundClones, Reached

(* The search of a filesystem's activation finds the clone of its youngest *)
(* snapshot that has one, or it has none.                                  *)
LEMMA FoundYoungest ==
  ASSUME PlainRun, NEW f \in FSet(view), Inner(f), Fresh(f), NEW c \in FSet(ns),
         IsFirstClone(view, FsNode(f), ns, c)
  PROVE  c \in FSet(view) /\ CloneOf(c, f) /\ Youngest(c, f)
<1>0. IInv /\ UInv /\ ~InnerClone /\ SnapsLeft /\ FsLeft
  BY DEF PlainRun
<1>1. ns.fs[c].origin # NoSnap /\ ns.snap[ns.fs[c].origin].of = f
  BY HitOrigin DEF IsFirstClone, FoundClones, FsNode
<1>2. ns.fs[c].origin \in SnapsOf(ns, f)
  BY <1>0, <1>1, Spaces DEF SnapsOf
<1>3. c \in FSet(view) /\ CloneOf(c, f)
  BY <1>0, <1>2, OldClone
<1>4. ASSUME NEW g \in FSet(view), CloneOf(g, f)
      PROVE  view.fs[g].origin <= view.fs[c].origin
  <2>1. /\ SortKey(view, FsNode(f), ns, g) = view.fs[g].origin
        /\ SortKey(view, FsNode(f), ns, c) = view.fs[c].origin
    BY <1>0, <1>3, <1>4, FreshHit
  <2>2. g = c \/ Less(view, FsNode(f), ns, c, g)
    BY <1>4, FreshFound DEF IsFirstClone
  <2>3. view.fs[g].origin \in Nat /\ view.fs[c].origin \in Nat
    BY <1>0, <1>3, Spaces DEF NoSnap
  <2> QED BY <2>1, <2>2, <2>3 DEF Less
<1> QED BY <1>3, <1>4 DEF Youngest

LEMMA FoundNone ==
  ASSUME PlainRun, NEW f, Inner(f), f \in FSet(ns) => Fresh(f), FoundClones(view, FsNode(f), ns) = {}
  PROVE  Unclaimed(f)
<1>0. IInv /\ ~InnerClone /\ SnapsLeft /\ FsLeft
  BY DEF PlainRun
<1>1. SUFFICES ASSUME NEW i \in SnapsOf(ns, f), NEW g \in FSet(ns), ns.fs[g].origin = i PROVE FALSE
  BY DEF Unclaimed, ClonesOf
<1>2. g \in FSet(view) /\ CloneOf(g, f) /\ f \in FSet(ns) /\ f \in FSet(view)
  BY <1>0, <1>1, OldClone
<1> QED BY <1>2, FreshFound

LEMMA GoneFindsNone ==
  ASSUME IInv, NEW f, f \notin FSet(ns)
  PROVE  FoundClones(view, FsNode(f), ns) = {}
<1>1. SUFFICES ASSUME NEW g \in FSet(ns), IsHit(view, FsNode(f), ns, g) PROVE FALSE
  BY DEF FoundClones
<1>2. ns.fs[g].origin # NoSnap /\ ns.snap[ns.fs[g].origin].of = f
  BY <1>1, HitOrigin DEF FsNode
<1> QED BY <1>2, Spaces

(* A snapshot's activation finds none: its filesystem's has seen to that.  *)
LEMMA SnapshotFindsNone ==
  ASSUME IInv, Unclaimed(Node.of)
  PROVE  FoundClones(view, Node, ns) = {}
<1>1. SUFFICES ASSUME NEW g \in FSet(ns), IsHit(view, Node, ns, g) PROVE FALSE
  BY DEF FoundClones
<1>2. ns.fs[g].origin # NoSnap /\ ns.snap[ns.fs[g].origin].of = Node.of
  BY <1>1, HitOrigin
<1>3. ns.fs[g].origin \in SnapsOf(ns, Node.of)
  BY <1>2, Spaces DEF SnapsOf
<1> QED BY <1>3 DEF Unclaimed, ClonesOf

-----------------------------------------------------------------------------
(* What a step that is not about filesystem f leaves to it.                *)
Spares(f) ==
  /\ Ids(ns') \subseteq Ids(ns) /\ FSet(ns') \subseteq FSet(ns)
  /\ f \in FSet(ns) => f \in FSet(ns')
  /\ \A c \in FSet(view) : ~Inner(c) => c \in FSet(ns')
  /\ \A i \in Ids(ns') :
       /\ (ns.snap[i].of = f \/ ~Inner(ns.snap[i].of)) => ns'.snap[i] = ns.snap[i]
       /\ ns'.snap[i].of = f => ns.snap[i].of = f
  /\ \A g \in FSet(ns') :
       (ns'.fs[g].origin \in Own(f) \/ (~Inner(g) /\ ns.fs[g].origin \in Own(f))) =>
         ns'.fs[g].origin = ns.fs[g].origin

SparesSnaps(f) == \A i \in SnapsOf(ns, f) : i \in Ids(ns')

(* A step that spares a filesystem leaves it as it is in all that the      *)
(* invariant says of it.                                                   *)
LEMMA CallKept ==
  ASSUME UNCHANGED <<view, target>>
  PROVE  /\ \A f : Inner(f)' <=> Inner(f)
         /\ \A f : Own(f)' = Own(f)
         /\ \A c, f : CloneOf(c, f)' <=> CloneOf(c, f)
         /\ \A c, f : Youngest(c, f)' <=> Youngest(c, f)
         /\ \A fr : ChoseClone(fr)' <=> ChoseClone(fr)
  BY DEF Inner, Own, SnapsOf, Ids, FSet, CloneOf, Youngest, ChoseClone

LEMMA SparesFresh ==
  ASSUME IInv, ~InnerClone, UNCHANGED <<view, target>>, NEW f \in FSet(view), Inner(f), Spares(f),
         SparesSnaps(f), Fresh(f)
  PROVE  Fresh(f)'
<1>1. ASSUME NEW i \in Own(f) PROVE i \in Ids(ns') /\ ns'.snap[i] = view.snap[i]
  <2>1. i \in Ids(ns) /\ ns.snap[i] = view.snap[i] /\ view.snap[i].of = f
    BY DEF Fresh, Own, SnapsOf
  <2>2. i \in Ids(ns')
    BY <2>1 DEF SparesSnaps, SnapsOf
  <2> QED BY <2>1, <2>2 DEF Spares
<1>2. ASSUME NEW c \in FSet(view), CloneOf(c, f) PROVE ns'.fs[c].origin = view.fs[c].origin
  <2>1. ~Inner(c) /\ c \in FSet(ns')
    BY <1>2, CloneOuter DEF Spares
  <2>2. ns.fs[c].origin = view.fs[c].origin /\ view.fs[c].origin \in Own(f)
    BY <1>2, Spaces DEF Fresh, OriginKept, CloneOf, Own, SnapsOf
  <2> QED BY <2>1, <2>2 DEF Spares
<1> QED BY <1>1, <1>2, CallKept DEF Fresh, OriginKept, FSet

LEMMA SparesWanted ==
  ASSUME IInv, FsLeft, UNCHANGED <<view, target>>, NEW f, Spares(f), NEW i \in Own(f) \cap Ids(ns'), Wanted(i)
  PROVE  Wanted(i)'
<1>1. PICK c \in FSet(ns) : ~Inner(c) /\ ns.fs[c].origin = i
  BY DEF Wanted
<1>2. c \in FSet(ns') /\ ns'.fs[c].origin = i
  BY <1>1 DEF Spares, FsLeft
<1>3. ~Inner(ns'.snap[i].of)
  BY DEF Wanted, Spares
<1> QED BY <1>1, <1>2, <1>3, CallKept DEF Wanted, Inner

LEMMA SparesSettled ==
  ASSUME IInv, FsLeft, UNCHANGED <<view, target>>, NEW f, Spares(f), Settled(f)
  PROVE  Settled(f)'
<1>1. \A i \in Own(f) \cap Ids(ns') : i \in Own(f) \cap Ids(ns) /\ Wanted(i)'
  BY SparesWanted DEF Settled, Spares
<1>2. f \notin FSet(ns')
  BY DEF Settled, Spares
<1> QED BY <1>1, <1>2, CallKept DEF Settled, Ids, FSet

LEMMA SparesEmptying ==
  ASSUME IInv, ~InnerClone, SnapsLeft, FsLeft, UNCHANGED <<view, target>>, NEW f \in FSet(view), Inner(f),
         Spares(f), NEW fr, fr.node.of = f, ChoseClone(fr), Emptying(fr, f)
  PROVE  Emptying(fr, f)'
<1>1. ASSUME NEW i \in SnapsOf(ns', f), NEW g \in FSet(ns'), ns'.fs[g].origin = i PROVE FALSE
  <2>1. i \in Ids(ns) /\ ns.snap[i].of = f /\ g \in FSet(ns)
    BY <1>1 DEF SnapsOf, Spares
  <2>2. i \in Own(f) /\ i \in SnapsOf(ns, f)
    BY <2>1, InnerOwn DEF SnapsOf
  <2>3. ns.fs[g].origin = i
    BY <1>1, <2>2 DEF Spares
  <2> QED BY <2>1, <2>2, <2>3 DEF Emptying, Unclaimed, ClonesOf
<1>2. Unclaimed(f)'
  BY <1>1 DEF Unclaimed, ClonesOf
<1>3. ASSUME NEW i \in Own(f) \cap Ids(ns')
      PROVE  ns'.snap[i].of = f \/ Carried(fr, i)' \/ Wanted(i)'
  <2>1. i \in Ids(ns)
    BY DEF Spares
  <2>2. CASE ns.snap[i].of = f
    BY <2>2 DEF Spares
  <2>3. CASE Carried(fr, i)
    <3>1. ns.snap[i].of = fr.clone /\ ~Inner(fr.clone)
      BY <2>3, CloneOuter DEF Carried, ChoseClone
    <3>2. ns'.snap[i] = ns.snap[i]
      BY <3>1 DEF Spares
    <3> QED BY <2>3, <3>2 DEF Carried
  <2>4. CASE Wanted(i)
    BY <2>4, SparesWanted
  <2> QED BY <2>1, <2>2, <2>3, <2>4 DEF Emptying
<1> QED BY <1>2, <1>3, CallKept DEF Emptying, Ids

-----------------------------------------------------------------------------
(* The innermost activation of a plain call.                               *)
LEMMA TopActive ==
  ASSUME PlainRun
  PROVE  /\ IInv /\ GInv /\ UInv /\ LInv /\ status = "running" /\ ~InnerClone /\ ~HiddenClone
         /\ SnapsLeft /\ FsLeft /\ Swept /\ AllActive
         /\ stack \in Seq(Frames) /\ stack # <<>> /\ Len(stack) \in Nat /\ Len(stack) >= 1
         /\ 1 \in 1..Len(stack) /\ Top = stack[1] /\ Node = stack[1].node
         /\ Inner(Node.of) /\ Node.of \in FSet(view) /\ Node \in Nodes /\ Active(Top) /\ ChoseClone(Top)
         /\ ~IsSnapshot(Node) => Node = FsNode(Node.of) /\ Phase(Top, Node.of)
<1>1. /\ IInv /\ GInv /\ UInv /\ LInv /\ status = "running" /\ ~InnerClone /\ ~HiddenClone
      /\ SnapsLeft /\ FsLeft /\ Swept /\ AllActive
  BY DEF PlainRun
<1>2. /\ stack \in Seq(Frames) /\ stack # <<>> /\ 1 \in 1..Len(stack)
      /\ Node \in Nodes /\ Under(Node.of, target) /\ Len(stack) \in Nat /\ Len(stack) >= 1
  BY <1>1, TopFrame, OutermostTop
<1>3. Top = stack[1] /\ Node = stack[1].node /\ Top.node = Node
  BY DEF Top, Node
<1>4. Node.of \in FSet(view) /\ Inner(Node.of)
  BY <1>1, <1>2, <1>3 DEF LInv, Stacked, Inner
<1>5. Active(Top)
  BY <1>1, <1>2, <1>3 DEF AllActive
<1>6. ChoseClone(Top) /\ (~IsSnapshot(Node) => Phase(Top, Node.of))
  BY <1>5, <1>3 DEF Active
<1>7. ~IsSnapshot(Node) => Node = FsNode(Node.of)
  BY <1>2 DEF Nodes, FsNode, IsSnapshot
<1> QED BY <1>1, <1>2, <1>3, <1>4, <1>5, <1>6, <1>7

(* An activation's clone is outside the subtree, as no clone is inside it. *)
LEMMA CloneOutside ==
  ASSUME PlainRun, Top.clone # NoClone
  PROVE  /\ Top.clone \in FSet(view) /\ Top.clone \in FSet(ns) /\ ~Inner(Top.clone)
         /\ CloneOf(Top.clone, Node.of) /\ Top.clone # Node.of
<1>1. IInv /\ ~InnerClone /\ Inner(Node.of) /\ Node.of \in FSet(view) /\ ChoseClone(Top)
  BY TopActive
<1>2. Top.clone \in FSet(view) /\ CloneOf(Top.clone, Node.of)
  BY <1>1 DEF ChoseClone, Node
<1>3. ~Inner(Top.clone)
  BY <1>1, <1>2, CloneOuter
<1> QED BY <1>1, <1>2, <1>3, OuterThere

(* A step of the call spares every filesystem of the subtree but the one   *)
(* whose activation is innermost, and that one too when what is innermost  *)
(* is the activation of a snapshot.                                        *)
LEMMA SparesSame ==
  ASSUME IInv, UNCHANGED ns, NEW f
  PROVE  Spares(f) /\ SparesSnaps(f)
<1>1. \A c \in FSet(view) : ~Inner(c) => c \in FSet(ns')
  BY OuterThere
<1> QED BY <1>1 DEF Spares, SparesSnaps, SnapsOf

LEMMA SparesDestroySnap ==
  ASSUME IInv, NEW h, NEW n, ns' = DestroySnap(ns, h, n), NEW f
  PROVE  Spares(f) /\ (f # h => SparesSnaps(f))
<1>1. Ids(ns') = Ids(ns) \ Holding(ns, h, n) /\ ns'.fs = ns.fs
  <2>1. ns'.fs = ns.fs
    BY DEF DestroySnap
  <2> QED BY <2>1, IdsAfter
<1>2. \A i \in Ids(ns') : ns'.snap[i] = ns.snap[i]
  BY <1>1, DestroyLeaves
<1>3. FSet(ns') = FSet(ns)
  BY <1>1 DEF FSet
<1>4. \A c \in FSet(view) : ~Inner(c) => c \in FSet(ns')
  BY <1>3, OuterThere
<1>5. Spares(f)
  BY <1>1, <1>2, <1>3, <1>4 DEF Spares
<1>6. f # h => SparesSnaps(f)
  BY <1>1 DEF SparesSnaps, SnapsOf, Holding
<1> QED BY <1>5, <1>6

LEMMA SparesDestroyFs ==
  ASSUME IInv, NEW h, Inner(h), ns' = DestroyFs(ns, h), NEW f, f # h
  PROVE  Spares(f) /\ SparesSnaps(f)
<1>1. FSet(ns') = FSet(ns) \ {h} /\ ns'.snap = ns.snap /\ \A g \in FSet(ns') : ns'.fs[g] = ns.fs[g]
  BY DEF DestroyFs, FSet
<1>2. Ids(ns') = Ids(ns)
  BY <1>1 DEF Ids
<1>3. \A c \in FSet(view) : ~Inner(c) => c \in FSet(ns')
  BY <1>1, OuterThere
<1>4. Spares(f)
  BY <1>1, <1>2, <1>3 DEF Spares
<1> QED BY <1>2, <1>4 DEF SparesSnaps, SnapsOf

LEMMA SparesRename ==
  ASSUME IInv, NEW h, Inner(h), NEW s, NEW t, ns' = RenameSnap(ns, h, s, t), NEW f, f # h
  PROVE  Spares(f) /\ SparesSnaps(f)
<1>1. Ids(ns') = Ids(ns) /\ ns'.fs = ns.fs
  <2>1. ns'.fs = ns.fs
    BY DEF RenameSnap
  <2> QED BY <2>1, IdsAfter
<1>2. FSet(ns') = FSet(ns)
  BY <1>1 DEF FSet
<1>3. \A i \in Ids(ns) : ns'.snap[i].of = ns.snap[i].of
  BY RenameOf
<1>4. \A i \in Ids(ns) : ns.snap[i].of # h => ns'.snap[i] = ns.snap[i]
  <2>1. \A i \in Ids(ns) : ns.snap[i].of # h => i \notin Holding(ns, h, s)
    BY DEF Holding, SnapsOf
  <2> QED BY <2>1, RenameLeaves
<1>5. \A c \in FSet(view) : ~Inner(c) => c \in FSet(ns')
  BY <1>2, OuterThere
<1>6. Spares(f)
  BY <1>1, <1>2, <1>3, <1>4, <1>5 DEF Spares
<1> QED BY <1>1, <1>6 DEF SparesSnaps, SnapsOf

(* What a promotion moves was the node's own.                              *)
LEMMA PromoteShape ==
  ASSUME PlainRun, PromoteClone
  PROVE  LET c == Top.clone
             o == ns.fs[c].origin
         IN  /\ ns' = Promote(ns, c) /\ CanPromote(ns, c)
             /\ c \in FSet(ns) /\ c \in FSet(view) /\ ~Inner(c) /\ c # Node.of /\ CloneOf(c, Node.of)
             /\ o \in Ids(ns) /\ o \in Own(Node.of) /\ ns.snap[o].of = Node.of /\ Node.of \in FSet(ns)
             /\ Shared(ns, c) = {i \in SnapsOf(ns, Node.of) : i <= o}
             /\ ~IsSnapshot(Node) /\ Resolving(Top, Node.of) /\ Youngest(c, Node.of)
             /\ Top.todo = {} /\ Top.pc = "resolve"
<1> DEFINE c == Top.clone
           o == ns.fs[c].origin
<1>1. Top.pc = "resolve" /\ Top.todo = {} /\ CanPromote(ns, c) /\ ns' = Promote(ns, c)
  BY DEF PromoteClone, At
<1>2. /\ c \in FSet(ns) /\ o # NoSnap /\ ns.snap[o].of = Node.of
  BY <1>1, TopActive DEF LInv, OwnClone
<1>3. IInv /\ Inner(Node.of) /\ ~InnerClone /\ SnapsLeft /\ FsLeft
  BY TopActive
<1>4. o \in Ids(ns)
  BY <1>2, <1>3, Spaces
<1>5. o \in Own(Node.of) /\ Node.of \in FSet(ns)
  BY <1>2, <1>3, <1>4, InnerOwn
<1>6. c # NoClone /\ ~IsSnapshot(Node)
  BY <1>1, TopActive DEF ChoseClone, Node
<1>7. Resolving(Top, Node.of) /\ Youngest(c, Node.of)
  BY <1>1, <1>6, TopActive DEF Phase
<1>8. Shared(ns, c) = {i \in SnapsOf(ns, Node.of) : i <= o}
  BY <1>2 DEF Shared
<1> QED BY <1>1, <1>2, <1>4, <1>5, <1>6, <1>7, <1>8, CloneOutside

LEMMA PromoteEffect ==
  ASSUME PlainRun, PromoteClone
  PROVE  LET c == Top.clone
             o == ns.fs[c].origin
         IN  /\ Ids(ns') = Ids(ns) /\ FSet(ns') = FSet(ns)
             /\ \A i \in Ids(ns) :
                  /\ ns'.snap[i].name = ns.snap[i].name
                  /\ i \in Shared(ns, c) => ns'.snap[i].of = c
                  /\ i \notin Shared(ns, c) => ns'.snap[i] = ns.snap[i]
             /\ ns'.fs[c].origin = ns.fs[Node.of].origin
             /\ ns'.fs[Node.of].origin = o
             /\ \A g \in FSet(ns) :
                  /\ ns'.fs[g].born = ns.fs[g].born
                  /\ (g # c /\ g # Node.of) => ns'.fs[g].origin = ns.fs[g].origin
<1> DEFINE c == Top.clone
           o == ns.fs[c].origin
<1>1. /\ ns' = Promote(ns, c) /\ c \in FSet(ns) /\ c # Node.of
      /\ ns.snap[o].of = Node.of /\ Node.of \in FSet(ns)
  BY PromoteShape
<1>2. Ids(ns') = Ids(ns) /\ FSet(ns') = FSet(ns)
  <2>1. FSet(ns') = FSet(ns)
    BY <1>1 DEF Promote, FSet
  <2> QED BY <1>1, <2>1, IdsAfter
<1>3. \A i \in Ids(ns) : i \notin Shared(ns, c) => ns'.snap[i] = ns.snap[i]
  BY <1>1, PromoteLeaves
<1>4. \A i \in Ids(ns) : i \in Shared(ns, c) => ns'.snap[i] = [of |-> c, name |-> ns.snap[i].name]
  BY <1>1 DEF Promote
<1>5. \A g \in FSet(ns) : ns'.fs[g].origin =
          IF g = c THEN ns.fs[Node.of].origin ELSE IF g = Node.of THEN o ELSE ns.fs[g].origin
  BY <1>1, PromoteOrigins
<1>6. \A g \in FSet(ns) : ns'.fs[g].born = ns.fs[g].born
  BY <1>1 DEF Promote
<1>7. \A i \in Ids(ns) : /\ ns'.snap[i].name = ns.snap[i].name
                         /\ i \in Shared(ns, c) => ns'.snap[i].of = c
  <2> SUFFICES ASSUME NEW i \in Ids(ns)
               PROVE  ns'.snap[i].name = ns.snap[i].name /\ (i \in Shared(ns, c) => ns'.snap[i].of = c)
    OBVIOUS
  <2>1. CASE i \in Shared(ns, c)
    <3>1. ns'.snap[i] = [of |-> c, name |-> ns.snap[i].name]
      BY <1>4, <2>1
    <3> HIDE DEF c
    <3> QED BY <2>1, <3>1
  <2> QED BY <1>3, <2>1
<1>8. /\ ns'.fs[c].origin = ns.fs[Node.of].origin
      /\ ns'.fs[Node.of].origin = o
      /\ \A g \in FSet(ns) : (g # c /\ g # Node.of) => ns'.fs[g].origin = ns.fs[g].origin
  BY <1>1, <1>5
<1> QED BY <1>2, <1>3, <1>6, <1>7, <1>8

(* After the promotion the clone has the node's origin, and the node one   *)
(* of its own old snapshots.                                               *)
LEMMA NodeOrigin ==
  ASSUME PlainRun, NEW f, Inner(f), f # Node.of, Node.of \in FSet(ns)
  PROVE  ns.fs[Node.of].origin \notin Own(f)
<1>1. SUFFICES ASSUME ns.fs[Node.of].origin \in Own(f) PROVE FALSE
  OBVIOUS
<1>2. Inner(Node.of) /\ FsLeft /\ IInv
  BY TopActive
<1>3. /\ ns.fs[Node.of].origin \in Ids(view) /\ view.snap[ns.fs[Node.of].origin].of = f
      /\ ns.fs[Node.of].origin # NoSnap
  BY <1>1, <1>2, Spaces DEF Own, SnapsOf
<1>4. ns.fs[Node.of].origin \in Own(Node.of)
  BY <1>2, <1>3 DEF FsLeft
<1> QED BY <1>1, <1>4, OwnDisjoint

LEMMA SparesPromote ==
  ASSUME PlainRun, PromoteClone, NEW f, Inner(f), f # Node.of
  PROVE  Spares(f) /\ SparesSnaps(f)
<1> DEFINE c == Top.clone
           o == ns.fs[c].origin
<1>1. /\ c \in FSet(ns) /\ ~Inner(c) /\ c # Node.of /\ Node.of \in FSet(ns)
      /\ o \in Own(Node.of) /\ Shared(ns, c) = {i \in SnapsOf(ns, Node.of) : i <= o}
  BY PromoteShape
<1>2. /\ Ids(ns') = Ids(ns) /\ FSet(ns') = FSet(ns)
      /\ \A i \in Ids(ns) :
           /\ i \in Shared(ns, c) => ns'.snap[i].of = c
           /\ i \notin Shared(ns, c) => ns'.snap[i] = ns.snap[i]
      /\ ns'.fs[c].origin = ns.fs[Node.of].origin
      /\ ns'.fs[Node.of].origin = o
      /\ \A g \in FSet(ns) : (g # c /\ g # Node.of) => ns'.fs[g].origin = ns.fs[g].origin
  BY PromoteEffect
<1>3. IInv /\ Inner(Node.of)
  BY TopActive
<1>4. o \notin Own(f) /\ ns.fs[Node.of].origin \notin Own(f)
  BY <1>1, NodeOrigin, OwnDisjoint
<1>5. \A i \in Ids(ns) : i \in Shared(ns, c) => ns.snap[i].of = Node.of
  BY <1>1 DEF SnapsOf
<1>6. \A h \in FSet(view) : ~Inner(h) => h \in FSet(ns')
  BY <1>2, <1>3, OuterThere
<1> HIDE DEF c, o
<1>7. \A i \in Ids(ns) : /\ (ns.snap[i].of = f \/ ~Inner(ns.snap[i].of)) => ns'.snap[i] = ns.snap[i]
                         /\ ns'.snap[i].of = f => ns.snap[i].of = f
  BY <1>1, <1>2, <1>3, <1>5
<1>8. \A g \in FSet(ns) :
        (ns'.fs[g].origin \in Own(f) \/ (~Inner(g) /\ ns.fs[g].origin \in Own(f))) =>
          ns'.fs[g].origin = ns.fs[g].origin
  BY <1>2, <1>3, <1>4 DEF o
<1>9. Spares(f)
  BY <1>2, <1>6, <1>7, <1>8 DEF Spares
<1> QED BY <1>2, <1>9 DEF SparesSnaps, SnapsOf

(* What the steps of a plain call do to the pool.                          *)
LEMMA StepKinds ==
  ASSUME PlainRun, Step
  PROVE  \/ UNCHANGED ns
         \/ ~IsSnapshot(Node) /\ \E s, t : ns' = RenameSnap(ns, Node.of, s, t)
         \/ PromoteClone
         \/ ~IsSnapshot(Node) /\ ns' = DestroyFs(ns, Node.of)
         \/ IsSnapshot(Node) /\ \E n : ns' = DestroySnap(ns, Node.of, n)
         \/ ~Inner(Top.clone) /\ \E n : ns' = DestroySnap(ns, Top.clone, n)
<1>1. /\ IsSnapshot(Node) => Top.clone = NoClone
      /\ Top.pc \in {"open", "resolve", "reopen", "sweep"} => Top.clone # NoClone
  BY TopActive DEF ChoseClone, Node
<1>2. ASSUME NEW i \in Top.todo, RenameConflict(i)
      PROVE  ~IsSnapshot(Node) /\ \E s, t : ns' = RenameSnap(ns, Node.of, s, t)
  BY <1>1, <1>2 DEF RenameConflict, At
<1>3. ASSUME NEW n \in Top.psnaps, Sweep(n)
      PROVE  UNCHANGED ns \/ (~Inner(Top.clone) /\ ns' = DestroySnap(ns, Top.clone, n))
  BY <1>1, <1>3, CloneOutside DEF Sweep, At
<1>4. CASE DestroyNode
  BY <1>4 DEF DestroyNode
<1> QED BY <1>2, <1>3, <1>4
        DEF Step, Search, OpenClone, KeepName, Descend, ReopenClone, SweepDone, FailRefused, FailFault

LEMMA StepSpares ==
  ASSUME PlainRun, Step, NEW f, Inner(f), f # Node.of \/ IsSnapshot(Node)
  PROVE  Spares(f) /\ (f # Node.of => SparesSnaps(f))
<1>1. IInv /\ Inner(Node.of)
  BY TopActive
<1>2. CASE UNCHANGED ns
  BY <1>1, <1>2, SparesSame
<1>3. CASE ~IsSnapshot(Node) /\ \E s, t : ns' = RenameSnap(ns, Node.of, s, t)
  BY <1>1, <1>3, SparesRename
<1>4. CASE PromoteClone
  <2>1. f # Node.of
    BY <1>4, PromoteShape
  <2> QED BY <1>4, <2>1, SparesPromote
<1>5. CASE ~IsSnapshot(Node) /\ ns' = DestroyFs(ns, Node.of)
  BY <1>1, <1>5, SparesDestroyFs
<1>6. CASE IsSnapshot(Node) /\ \E n : ns' = DestroySnap(ns, Node.of, n)
  BY <1>1, <1>6, SparesDestroySnap
<1>7. CASE ~Inner(Top.clone) /\ \E n : ns' = DestroySnap(ns, Top.clone, n)
  BY <1>1, <1>7, SparesDestroySnap
<1> QED BY <1>2, <1>3, <1>4, <1>5, <1>6, <1>7, StepKinds

(* No step moves a snapshot but to a clone of what it belonged to.         *)
LEMMA StepMoves ==
  ASSUME PlainRun, Step
  PROVE  /\ Ids(ns') \subseteq Ids(ns) /\ FSet(ns') \subseteq FSet(ns)
         /\ \A f \in FSet(ns') : ns'.fs[f].born = ns.fs[f].born
         /\ \A i \in Ids(ns') :
              /\ ~Inner(ns.snap[i].of) => ns'.snap[i] = ns.snap[i]
              /\ \/ ns'.snap[i].of = ns.snap[i].of
                 \/ ns.snap[i].of = Node.of /\ CloneOf(ns'.snap[i].of, Node.of)
         /\ (\A f \in FSet(ns') : ns'.fs[f].origin = ns.fs[f].origin) \/ PromoteClone
<1>1. IInv /\ Inner(Node.of)
  BY TopActive
<1>2. CASE UNCHANGED ns
  BY <1>2
<1>3. ASSUME NEW s, NEW t, ns' = RenameSnap(ns, Node.of, s, t)
      PROVE  /\ Ids(ns') = Ids(ns) /\ ns'.fs = ns.fs /\ FSet(ns') = FSet(ns)
             /\ \A i \in Ids(ns) : /\ ~Inner(ns.snap[i].of) => ns'.snap[i] = ns.snap[i]
                                   /\ ns'.snap[i].of = ns.snap[i].of
  <2>1. ns'.fs = ns.fs
    BY <1>3 DEF RenameSnap
  <2>2. Ids(ns') = Ids(ns)
    BY <1>3, IdsAfter
  <2>3. \A i \in Ids(ns) : ns'.snap[i].of = ns.snap[i].of
    BY <1>3, RenameOf
  <2>4. \A i \in Ids(ns) : ~Inner(ns.snap[i].of) => i \notin Holding(ns, Node.of, s)
    BY <1>1 DEF Holding, SnapsOf
  <2>5. \A i \in Ids(ns) : ~Inner(ns.snap[i].of) => ns'.snap[i] = ns.snap[i]
    BY <1>3, <2>4, RenameLeaves
  <2> QED BY <2>1, <2>2, <2>3, <2>5 DEF FSet
<1>4. CASE PromoteClone
  <2> DEFINE c == Top.clone
  <2>1. /\ CloneOf(c, Node.of) /\ Shared(ns, c) \subseteq SnapsOf(ns, Node.of)
    BY <1>4, PromoteShape
  <2>2. /\ Ids(ns') = Ids(ns) /\ FSet(ns') = FSet(ns)
        /\ \A i \in Ids(ns) :
             /\ i \in Shared(ns, c) => ns'.snap[i].of = c
             /\ i \notin Shared(ns, c) => ns'.snap[i] = ns.snap[i]
        /\ \A g \in FSet(ns) : ns'.fs[g].born = ns.fs[g].born
    BY <1>4, PromoteEffect
  <2> HIDE DEF c
  <2>3. \A i \in Ids(ns) : i \in Shared(ns, c) => ns.snap[i].of = Node.of
    BY <2>1 DEF SnapsOf
  <2> QED BY <1>1, <1>4, <2>1, <2>2, <2>3
<1>5. CASE ns' = DestroyFs(ns, Node.of)
  <2>1. /\ FSet(ns') = FSet(ns) \ {Node.of} /\ ns'.snap = ns.snap
        /\ \A g \in FSet(ns') : ns'.fs[g] = ns.fs[g]
    BY <1>5 DEF DestroyFs, FSet
  <2> QED BY <2>1 DEF Ids
<1>6. ASSUME NEW h, NEW n, ns' = DestroySnap(ns, h, n)
      PROVE  /\ Ids(ns') \subseteq Ids(ns) /\ FSet(ns') = FSet(ns) /\ ns'.fs = ns.fs
             /\ \A i \in Ids(ns') : ns'.snap[i] = ns.snap[i]
  <2>1. ns'.fs = ns.fs
    BY <1>6 DEF DestroySnap
  <2>2. Ids(ns') = Ids(ns) \ Holding(ns, h, n)
    BY <1>6, IdsAfter
  <2>3. \A i \in Ids(ns') : ns'.snap[i] = ns.snap[i]
    BY <1>6, <2>2, DestroyLeaves
  <2> QED BY <2>1, <2>2, <2>3 DEF FSet
<1>7. CASE \E s, t : ns' = RenameSnap(ns, Node.of, s, t)
  BY <1>3, <1>7
<1>8. CASE \E h, n : ns' = DestroySnap(ns, h, n)
  BY <1>6, <1>8
<1> QED BY <1>2, <1>4, <1>5, <1>7, <1>8, StepKinds

(* What is left of the opened pool is left after every step.               *)
LEMMA LeftStep ==
  ASSUME PlainRun, IInv', Step
  PROVE  SnapsLeft' /\ FsLeft'
<1>1. /\ IInv /\ ~InnerClone /\ SnapsLeft /\ FsLeft /\ Inner(Node.of) /\ status = "running"
  BY TopActive
<1>2. UNCHANGED <<view, target>>
  BY <1>1, StepKeepsCall
<1>3. /\ Ids(ns') \subseteq Ids(ns) /\ FSet(ns') \subseteq FSet(ns)
      /\ \A f \in FSet(ns') : ns'.fs[f].born = ns.fs[f].born
      /\ \A i \in Ids(ns') :
           /\ ~Inner(ns.snap[i].of) => ns'.snap[i] = ns.snap[i]
           /\ \/ ns'.snap[i].of = ns.snap[i].of
              \/ ns.snap[i].of = Node.of /\ CloneOf(ns'.snap[i].of, Node.of)
      /\ (\A f \in FSet(ns') : ns'.fs[f].origin = ns.fs[f].origin) \/ PromoteClone
  BY StepMoves
<1>4. ASSUME NEW i \in Ids(ns')
      PROVE  /\ i \in Ids(view)
             /\ ~Inner(view.snap[i].of) => ns'.snap[i] = view.snap[i]
             /\ ns'.snap[i].of = view.snap[i].of \/ CloneOf(ns'.snap[i].of, view.snap[i].of)
  <2>1. /\ i \in Ids(ns) /\ i \in Ids(view)
        /\ ~Inner(view.snap[i].of) => ns.snap[i] = view.snap[i]
        /\ ns.snap[i].of = view.snap[i].of \/ CloneOf(ns.snap[i].of, view.snap[i].of)
    BY <1>1, <1>3 DEF SnapsLeft
  <2>2. ns.snap[i].of = Node.of => view.snap[i].of = Node.of
    BY <1>1, <2>1, InnerOwn
  <2> QED BY <1>3, <2>1, <2>2
<1>5. SnapsLeft'
  BY <1>2, <1>4, CallKept DEF SnapsLeft, Ids
<1> DEFINE Kept(f, o) ==
             \/ o \in Ids(view) /\ ~Inner(view.snap[o].of)
             \/ o = NoSnap
             \/ ~Inner(f) /\ o = view.fs[f].origin
             \/ Inner(f) /\ o \in Own(f) /\ ~Inner(ns'.snap[o].of)
<1>6. ASSUME NEW f \in FSet(ns'), ns'.fs[f].origin = ns.fs[f].origin
      PROVE  Kept(f, ns'.fs[f].origin)
  <2>1. f \in FSet(ns)
    BY <1>3
  <2>2. CASE Inner(f) /\ ns.fs[f].origin \in Own(f) /\ ~Inner(ns.snap[ns.fs[f].origin].of)
    <3>1. ns'.fs[f].origin \in Ids(ns') \cup {NoSnap}
      BY DEF IInv, TypeOK, Anchored, FSet, Ids
    <3> QED BY <1>3, <1>6, <2>2, <3>1
  <2> QED BY <1>1, <1>6, <2>1, <2>2 DEF FsLeft, OriginKept
<1>7. ASSUME PromoteClone, NEW f \in FSet(ns')
      PROVE  /\ Kept(f, ns'.fs[f].origin)
             /\ (~Inner(f) /\ view.fs[f].origin = NoSnap) => ns'.fs[f].origin = NoSnap
  <2> DEFINE c == Top.clone
             o == ns.fs[c].origin
  <2>1. /\ c \in FSet(ns) /\ ~Inner(c) /\ c # Node.of /\ CloneOf(c, Node.of)
        /\ o \in Ids(ns) /\ o \in Own(Node.of) /\ ns.snap[o].of = Node.of /\ Node.of \in FSet(ns)
        /\ Shared(ns, c) = {i \in SnapsOf(ns, Node.of) : i <= o}
        /\ Resolving(Top, Node.of)
    BY <1>7, PromoteShape
  <2>2. /\ Ids(ns') = Ids(ns) /\ FSet(ns') = FSet(ns)
        /\ \A i \in Ids(ns) : i \in Shared(ns, c) => ns'.snap[i].of = c
        /\ ns'.fs[c].origin = ns.fs[Node.of].origin
        /\ ns'.fs[Node.of].origin = o
        /\ \A g \in FSet(ns) : (g # c /\ g # Node.of) => ns'.fs[g].origin = ns.fs[g].origin
    BY <1>7, PromoteEffect
  <2>3. o \in Nat
    BY <1>1, <2>1, Spaces
  <2>4. o \in Shared(ns, c)
    BY <2>1, <2>3 DEF SnapsOf
  <2> HIDE DEF c, o
  <2>5. CASE f = c
    <3>1. ~(ns.fs[Node.of].origin \in Own(Node.of) /\ ~Inner(ns.snap[ns.fs[Node.of].origin].of))
      BY <1>1, <2>1 DEF Resolving
    <3>2. \/ ns.fs[Node.of].origin \in Ids(view) /\ ~Inner(view.snap[ns.fs[Node.of].origin].of)
          \/ ns.fs[Node.of].origin = NoSnap
      BY <1>1, <2>1, <3>1 DEF FsLeft
    <3>3. view.fs[f].origin # NoSnap
      BY <2>1, <2>5 DEF CloneOf
    <3> QED BY <2>2, <2>5, <3>2, <3>3
  <2>6. CASE f = Node.of
    <3>1. ~Inner(ns'.snap[o].of)
      BY <2>1, <2>2, <2>4
    <3> QED BY <1>1, <2>1, <2>2, <2>6, <3>1
  <2>7. CASE f # c /\ f # Node.of
    <3>1. ns'.fs[f].origin = ns.fs[f].origin
      BY <2>2, <2>7
    <3>2. (~Inner(f) /\ view.fs[f].origin = NoSnap) => ns.fs[f].origin = NoSnap
      BY <1>1, <1>3 DEF FsLeft
    <3> QED BY <1>6, <3>1, <3>2
  <2> QED BY <2>5, <2>6, <2>7
<1>8. ASSUME NEW f \in FSet(ns')
      PROVE  /\ f \in FSet(view) /\ ns'.fs[f].born = view.fs[f].born
             /\ Kept(f, ns'.fs[f].origin)
             /\ (~Inner(f) /\ view.fs[f].origin = NoSnap) => ns'.fs[f].origin = NoSnap
  <2>1. f \in FSet(ns) /\ f \in FSet(view) /\ ns'.fs[f].born = view.fs[f].born
    BY <1>1, <1>3 DEF FsLeft
  <2>2. CASE PromoteClone
    BY <1>7, <2>1, <2>2
  <2>3. CASE \A g \in FSet(ns') : ns'.fs[g].origin = ns.fs[g].origin
    <3>1. (~Inner(f) /\ view.fs[f].origin = NoSnap) => ns.fs[f].origin = NoSnap
      BY <1>1, <2>1 DEF FsLeft
    <3> QED BY <1>6, <2>1, <2>3, <3>1
  <2> QED BY <1>3, <2>2, <2>3
<1>9. FsLeft'
  BY <1>2, <1>8, CallKept DEF FsLeft, OriginKept, FSet, Ids
<1> QED BY <1>5, <1>9

-----------------------------------------------------------------------------
(* The activations that wait are sparing, and so is what is done or not    *)
(* begun.                                                                  *)
LEMMA Waiting ==
  ASSUME PlainRun, NEW k \in 2..Len(stack)
  PROVE  /\ k \in 1..Len(stack) /\ stack[k].pc = "children" /\ ~IsSnapshot(stack[k].node)
         /\ stack[k].node = FsNode(stack[k].node.of) /\ stack[k].node.of \in FSet(view)
         /\ Inner(stack[k].node.of)
         /\ stack[k].node.of # Node.of \/ IsSnapshot(Node)
         /\ Active(stack[k]) /\ ChoseClone(stack[k]) /\ Emptying(stack[k], stack[k].node.of)
<1>1. /\ IInv /\ LInv /\ AllActive /\ stack \in Seq(Frames) /\ Len(stack) \in Nat
      /\ 1 \in 1..Len(stack) /\ Node = stack[1].node /\ Node \in Nodes
  BY TopActive
<1>2. k \in 1..Len(stack) /\ stack[k] \in Frames /\ 1 < k
  BY <1>1
<1>3. /\ stack[k].pc = "children" /\ ~IsSnapshot(stack[k].node)
      /\ stack[k].node.of \in FSet(view)
      /\ ~IsSnapshot(Node) => Len(Node.of) > Len(stack[k].node.of)
  BY <1>1, <1>2 DEF LInv, Stacked
<1>4. stack[k].node = FsNode(stack[k].node.of)
  <2>1. stack[k].node \in Nodes
    BY <1>2 DEF Frames
  <2> QED BY <1>3, <2>1 DEF Nodes, FsNode, IsSnapshot
<1>5. Inner(stack[k].node.of)
  BY <1>1, <1>2 DEF IInv, FramesInside, FrameInside, InTree, Inner
<1>6. stack[k].node.of # Node.of \/ IsSnapshot(Node)
  <2>1. Len(Node.of) \in Nat
    <3>1. Node.of \in Seq(STRING)
      BY <1>1 DEF Nodes
    <3> QED BY <3>1
  <2> QED BY <1>3, <2>1
<1>7. Active(stack[k])
  BY <1>1, <1>2 DEF AllActive
<1>8. ChoseClone(stack[k]) /\ Emptying(stack[k], stack[k].node.of)
  BY <1>3, <1>7 DEF Active, Phase
<1> QED BY <1>2, <1>3, <1>4, <1>5, <1>6, <1>7, <1>8

LEMMA SecondThere == ASSUME NEW m \in Nat, m >= 1, m # 1 PROVE 2 \in 2..m /\ m > 1
OBVIOUS

(* A snapshot's activation was started by its filesystem's.                *)
LEMMA SnapshotBelow ==
  ASSUME PlainRun, IsSnapshot(Node)
  PROVE  2 \in 2..Len(stack) /\ stack[2].node = FsNode(Node.of)
<1>0. IInv /\ GInv /\ status = "running" /\ stack # <<>>
  BY TopActive
<1>1. Len(stack) # 1
  <2>1. SUFFICES ASSUME Len(stack) = 1 PROVE FALSE
    OBVIOUS
  <2>3. Outermost = Top /\ Outermost.node = FsNode(target)
    BY <1>0, <2>1, OutermostTop DEF GInv, Fate
  <2> QED BY <2>3 DEF FsNode, IsSnapshot, Node
<1>2. 2 \in 2..Len(stack) /\ Len(stack) > 1
  <2>1. Len(stack) \in Nat /\ Len(stack) >= 1
    BY TopActive
  <2> QED BY <1>1, <2>1, SecondThere
<1>3. stack[2].node.of = Node.of
  BY <1>2, TopActive DEF LInv, Stacked
<1> QED BY <1>2, <1>3, Waiting

(* What waits has activations above it of other filesystems only.          *)
LEMMA NodeOut ==
  ASSUME PlainRun, NEW f, ~OnStack(f)
  PROVE  f # Node.of
<1>1. CASE IsSnapshot(Node)
  <2>1. 2 \in 1..Len(stack) /\ stack[2].node = FsNode(Node.of)
    BY <1>1, SnapshotBelow, Waiting
  <2> QED BY <2>1 DEF OnStack
<1>2. CASE ~IsSnapshot(Node)
  BY <1>2, TopActive DEF OnStack
<1> QED BY <1>1, <1>2

(* A step of the innermost activation leaves those that wait in their      *)
(* phase, and what is swept swept.                                         *)
LEMMA WaitingStep ==
  ASSUME PlainRun, Step, NEW k \in 2..Len(stack)
  PROVE  \A fr : fr = stack[k] => Active(fr)'
<1> SUFFICES ASSUME NEW fr, fr = stack[k] PROVE Active(fr)'
  OBVIOUS
<1> DEFINE f == fr.node.of
<1>1. /\ fr.pc = "children" /\ ~IsSnapshot(fr.node) /\ f \in FSet(view)
      /\ Inner(f) /\ (f # Node.of \/ IsSnapshot(Node)) /\ ChoseClone(fr) /\ Emptying(fr, f)
  BY Waiting
<1>2. IInv /\ ~InnerClone /\ SnapsLeft /\ FsLeft /\ UNCHANGED <<view, target>>
  BY TopActive, StepKeepsCall
<1>3. Spares(f)
  BY <1>1, StepSpares
<1>4. Emptying(fr, f)'
  BY <1>1, <1>2, <1>3, SparesEmptying
<1>5. ChoseClone(fr)'
  BY <1>1, <1>2, CallKept
<1> QED BY <1>1, <1>4, <1>5 DEF Active, Phase

LEMMA SweptStep ==
  ASSUME PlainRun, Step, NEW f \in FSet(view), Inner(f), f # Node.of, ~OnStack(f)
  PROVE  (IF f \in FSet(ns) THEN Fresh(f) ELSE Settled(f))'
<1>1. IInv /\ ~InnerClone /\ FsLeft /\ Swept /\ UNCHANGED <<view, target>>
  BY TopActive, StepKeepsCall
<1>2. Spares(f) /\ SparesSnaps(f)
  BY StepSpares
<1>3. CASE f \in FSet(ns)
  <2>1. Fresh(f)
    BY <1>1, <1>3 DEF Swept
  <2>2. Fresh(f)'
    BY <1>1, <1>2, <2>1, SparesFresh
  <2>3. f \in FSet(ns')
    BY <1>2, <1>3 DEF Spares
  <2> QED BY <2>2, <2>3 DEF FSet
<1>4. CASE f \notin FSet(ns)
  <2>1. Settled(f)
    BY <1>1, <1>4 DEF Swept
  <2>2. Settled(f)'
    BY <1>1, <1>2, <2>1, SparesSettled
  <2>3. f \notin FSet(ns')
    BY <1>2, <1>4 DEF Spares
  <2> QED BY <2>2, <2>3 DEF FSet
<1> QED BY <1>3, <1>4

-----------------------------------------------------------------------------
(* The innermost activation after each of its steps.                       *)
LEMMA TopSearched ==
  ASSUME PlainRun, UNCHANGED <<ns, view, target>>, Top.pc = "search",
         NEW c \in FSet(ns), IsFirstClone(view, Node, ns, c),
         NEW fr, fr.node = Node, fr.pc = "open", fr.clone = c
  PROVE  Active(fr)'
<1>0. PICK f : f = Node.of
  OBVIOUS
<1> USE <1>0
<1>1. IInv /\ Inner(f) /\ f \in FSet(view)
  BY TopActive
<1>2. ~IsSnapshot(Node)
  <2>1. SUFFICES ASSUME IsSnapshot(Node) PROVE FALSE
    OBVIOUS
  <2>2. Unclaimed(f)
    BY <2>1, SnapshotBelow, Waiting DEF Emptying, FsNode
  <2>3. FoundClones(view, Node, ns) = {}
    BY <1>1, <2>2, SnapshotFindsNone
  <2> QED BY <2>3 DEF IsFirstClone
<1>3. Node = FsNode(f) /\ Phase(Top, f)
  BY <1>2, TopActive
<1>4. f \in FSet(ns) /\ Fresh(f)
  BY <1>1, <1>3, GoneFindsNone DEF Phase, IsFirstClone
<1>5. c \in FSet(view) /\ CloneOf(c, f) /\ Youngest(c, f)
  BY <1>1, <1>3, <1>4, FoundYoungest
<1>6. ChoseClone(fr)' /\ Youngest(c, f)'
  <2>1. c # NoClone
    BY <1>1, Spaces DEF NoClone
  <2>2. ChoseClone(fr)
    BY <1>2, <1>5, <2>1 DEF ChoseClone
  <2> QED BY <1>5, <2>2, CallKept
<1>7. Fresh(f)'
  BY <1>4, CallKept DEF Fresh, OriginKept, Ids, FSet
<1> QED BY <1>6, <1>7 DEF Active, Phase

LEMMA TopSearchedNone ==
  ASSUME PlainRun, UNCHANGED <<ns, view, target>>, Top.pc = "search",
         FoundClones(view, Node, ns) = {},
         NEW fr, fr.node = Node, fr.pc = "children", fr.clone = Top.clone
  PROVE  Active(fr)'
<1>0. PICK f : f = Node.of
  OBVIOUS
<1> USE <1>0
<1>1. IInv /\ Inner(f) /\ f \in FSet(view) /\ Top.clone = NoClone
  BY TopActive DEF LInv, OwnClone
<1>2. ChoseClone(fr)'
  BY <1>1 DEF ChoseClone
<1>3. ASSUME ~IsSnapshot(Node) PROVE Emptying(fr, f)'
  <2>1. Node = FsNode(f) /\ (IF f \in FSet(ns) THEN Fresh(f) ELSE Settled(f))
    BY <1>3, TopActive DEF Phase
  <2>2. Unclaimed(f)
    BY <1>1, <2>1, FoundNone
  <2>3. ASSUME NEW i \in Own(f) \cap Ids(ns) PROVE ns.snap[i].of = f \/ Wanted(i)
    <3>1. CASE f \in FSet(ns)
      BY <2>1, <3>1 DEF Fresh, Own, SnapsOf
    <3>2. CASE f \notin FSet(ns)
      BY <2>1, <3>2 DEF Settled
    <3> QED BY <3>1, <3>2
  <2>4. Unclaimed(f)' /\ \A i : Wanted(i) => Wanted(i)'
    BY <2>2 DEF Unclaimed, SnapsOf, ClonesOf, Ids, FSet, Wanted, Inner
  <2> QED BY <2>3, <2>4, CallKept DEF Emptying, Ids
<1> QED BY <1>2, <1>3 DEF Active, Phase

LEMMA TopOpened ==
  ASSUME PlainRun, UNCHANGED <<ns, view, target>>, Top.pc = "open",
         NEW fr, fr.node = Node, fr.pc = "resolve", fr.clone = Top.clone, fr.todo = Snapshots(view, Node)
  PROVE  Active(fr)'
<1>0. PICK f : f = Node.of
  OBVIOUS
<1> USE <1>0
<1>1. ~IsSnapshot(Node) /\ ChoseClone(fr)
  BY TopActive DEF ChoseClone, Node
<1>2. Fresh(f) /\ Youngest(Top.clone, f)
  BY <1>1, TopActive DEF Phase
<1>3. fr.todo = Own(f)
  BY <1>1 DEF Snapshots, Own
<1>4. \A i \in Own(f) : i \in Ids(ns) /\ ns.snap[i] = view.snap[i] /\ ns.snap[i].of = f
  BY <1>2 DEF Fresh, Own, SnapsOf
<1>5. Resolving(fr, f)
  BY <1>2, <1>3, <1>4 DEF Resolving, Fresh
<1>6. Resolving(fr, f)' /\ ChoseClone(fr)' /\ Youngest(fr.clone, f)'
  BY <1>1, <1>2, <1>5, CallKept DEF Resolving, OriginKept, Ids, FSet
<1> QED BY <1>6 DEF Active, Phase

(* Of the two snapshots of a filesystem with one name there is one.        *)
LEMMA HeldOnce ==
  ASSUME UInv, NEW i \in Ids(ns), NEW h, NEW n, ns.snap[i].of = h, ns.snap[i].name = n
  PROVE  Holding(ns, h, n) = {i}
  BY DEF UInv, Unique, Holding, SnapsOf

LEMMA TopListed ==
  ASSUME PlainRun, UNCHANGED <<view, target>>, Top.pc = "resolve", NEW i \in Top.todo, NEW n,
         \/ UNCHANGED ns /\ n = view.snap[i].name
         \/ ns' = RenameSnap(ns, Node.of, view.snap[i].name, n),
         NEW fr, fr.node = Node, fr.pc = "resolve", fr.clone = Top.clone,
         fr.todo = Top.todo \ {i}, fr.psnaps = Top.psnaps \cup {n}
  PROVE  Active(fr)'
<1>0. PICK f : f = Node.of
  OBVIOUS
<1> USE <1>0
<1>1. ~IsSnapshot(Node) /\ ChoseClone(fr) /\ UInv
  BY TopActive DEF ChoseClone, Node
<1>2. Resolving(Top, f) /\ Youngest(Top.clone, f)
  BY <1>1, TopActive DEF Phase
<1>3. /\ i \in Own(f) /\ i \in Ids(ns) /\ ns.snap[i] = view.snap[i] /\ ns.snap[i].of = f
      /\ Top.todo \subseteq Own(f)
      /\ \A j \in Own(f) : /\ j \in Ids(ns) /\ ns.snap[j].of = f
                           /\ IF j \in Top.todo THEN ns.snap[j] = view.snap[j]
                              ELSE ns.snap[j].name \in Top.psnaps
      /\ \A c \in FSet(view) : CloneOf(c, f) => ns.fs[c].origin = view.fs[c].origin
  BY <1>2 DEF Resolving, OriginKept
<1>4. /\ ns'.fs = ns.fs /\ Ids(ns') = Ids(ns)
      /\ ns'.snap[i].of = f /\ ns'.snap[i].name = n
      /\ \A j \in Ids(ns) : j # i => ns'.snap[j] = ns.snap[j]
  <2>1. CASE UNCHANGED ns /\ n = view.snap[i].name
    BY <1>3, <2>1
  <2>2. CASE ns' = RenameSnap(ns, f, view.snap[i].name, n)
    <3> DEFINE s == view.snap[i].name
    <3>1. Holding(ns, f, s) = {i}
      BY <1>1, <1>3, HeldOnce
    <3>2. ns'.fs = ns.fs
      BY <2>2 DEF RenameSnap
    <3>3. ns'.snap[i] = [of |-> f, name |-> n]
      BY <1>3, <2>2, <3>1 DEF RenameSnap
    <3>4. Ids(ns') = Ids(ns)
      BY <2>2, IdsAfter
    <3> HIDE DEF s
    <3>5. \A j \in Ids(ns) : j # i => ns'.snap[j] = ns.snap[j]
      BY <2>2, <3>1, RenameLeaves DEF s
    <3>6. ns'.snap[i].of = f /\ ns'.snap[i].name = n
      BY <3>3
    <3> QED BY <3>2, <3>4, <3>5, <3>6
  <2> QED BY <2>1, <2>2
<1>5. ASSUME NEW j \in Own(f)
      PROVE  /\ j \in Ids(ns') /\ ns'.snap[j].of = f
             /\ IF j \in fr.todo THEN ns'.snap[j] = view.snap[j] ELSE ns'.snap[j].name \in fr.psnaps
  BY <1>3, <1>4
<1>6. fr.todo \subseteq Own(f)
  BY <1>3
<1>7. \A c \in FSet(view) : CloneOf(c, f) => ns'.fs[c].origin = view.fs[c].origin
  BY <1>3, <1>4
<1>8. Resolving(fr, f)'
  BY <1>5, <1>6, <1>7, CallKept DEF Resolving, OriginKept, Ids, FSet
<1>9. ChoseClone(fr)' /\ Youngest(fr.clone, f)'
  BY <1>1, <1>2, CallKept
<1> QED BY <1>8, <1>9 DEF Active, Phase

LEMMA TopPromoted ==
  ASSUME PlainRun, UNCHANGED <<view, target>>, PromoteClone,
         NEW fr, fr.node = Node, fr.pc = "children", fr.clone = Top.clone, fr.psnaps = Top.psnaps
  PROVE  Active(fr)'
<1>0. PICK f, c, o : f = Node.of /\ c = Top.clone /\ o = ns.fs[c].origin
  OBVIOUS
<1> USE <1>0
<1>1. /\ c \in FSet(ns) /\ c \in FSet(view) /\ ~Inner(c) /\ c # f /\ CloneOf(c, f)
      /\ o \in Ids(ns) /\ o \in Own(f) /\ ns.snap[o].of = f /\ f \in FSet(ns)
      /\ Shared(ns, c) = {i \in SnapsOf(ns, f) : i <= o}
      /\ ~IsSnapshot(Node) /\ Resolving(Top, f) /\ Youngest(c, f)
      /\ Top.todo = {} /\ Top.pc = "resolve"
  BY PromoteShape
<1>2. /\ Ids(ns') = Ids(ns) /\ FSet(ns') = FSet(ns)
      /\ \A i \in Ids(ns) :
           /\ ns'.snap[i].name = ns.snap[i].name
           /\ i \in Shared(ns, c) => ns'.snap[i].of = c
           /\ i \notin Shared(ns, c) => ns'.snap[i] = ns.snap[i]
      /\ ns'.fs[c].origin = ns.fs[f].origin
      /\ ns'.fs[f].origin = o
      /\ \A g \in FSet(ns) : (g # c /\ g # f) => ns'.fs[g].origin = ns.fs[g].origin
  BY PromoteEffect
<1>3. IInv /\ ~InnerClone /\ SnapsLeft /\ FsLeft /\ Inner(f) /\ ChoseClone(fr) /\ c # NoClone
  BY <1>1, TopActive DEF ChoseClone
<1>4. \A i \in Own(f) : i \in Ids(ns) /\ ns.snap[i].of = f /\ ns.snap[i].name \in Top.psnaps
  BY <1>1 DEF Resolving
<1>5. ASSUME NEW i \in SnapsOf(ns', f), NEW g \in FSet(ns'), ns'.fs[g].origin = i
      PROVE  FALSE
  <2>1. i \in Ids(ns) /\ ns.snap[i].of = f /\ i \notin Shared(ns, c)
    BY <1>1, <1>2, <1>5 DEF SnapsOf
  <2>2. i \in Own(f) /\ i \in SnapsOf(ns, f) /\ i \in Nat /\ o \in Nat /\ ~(i <= o)
    BY <1>1, <1>3, <2>1, InnerOwn, Spaces DEF SnapsOf
  <2>3. CASE g = c
    <3>1. \/ ns.fs[f].origin \in Ids(view) /\ ~Inner(view.snap[ns.fs[f].origin].of)
          \/ ns.fs[f].origin = NoSnap
      BY <1>1, <1>3, <1>4 DEF FsLeft
    <3>2. i \in Ids(view) /\ Inner(view.snap[i].of) /\ i # NoSnap
      BY <1>3, <2>2, Spaces DEF Own, SnapsOf
    <3> QED BY <1>2, <1>5, <2>3, <3>1, <3>2
  <2>4. CASE g = f
    BY <1>2, <1>5, <2>2, <2>4
  <2>5. CASE g # c /\ g # f
    <3>1. g \in FSet(ns) /\ ns.fs[g].origin = i
      BY <1>2, <1>5, <2>5
    <3>2. g \in FSet(view) /\ CloneOf(g, f) /\ view.fs[g].origin = i
      BY <1>3, <2>2, <3>1, OldClone
    <3>3. view.fs[c].origin = o
      BY <1>1 DEF Resolving, OriginKept
    <3> QED BY <1>1, <2>2, <3>2, <3>3 DEF Youngest
  <2> QED BY <2>3, <2>4, <2>5
<1>6. Unclaimed(f)'
  BY <1>5 DEF Unclaimed, ClonesOf
<1>7. \A i \in Own(f) : ns'.snap[i].of = f \/ Carried(fr, i)'
  <2> SUFFICES ASSUME NEW i \in Own(f) PROVE ns'.snap[i].of = f \/ Carried(fr, i)'
    OBVIOUS
  <2>1. CASE i \in Shared(ns, c)
    <3>1. ns'.snap[i].of = fr.clone /\ ns'.snap[i].name \in fr.psnaps /\ fr.clone # NoClone
      BY <1>2, <1>3, <1>4, <2>1
    <3> QED BY <3>1 DEF Carried
  <2>2. CASE i \notin Shared(ns, c)
    BY <1>2, <1>4, <2>2
  <2> QED BY <2>1, <2>2
<1>8. Emptying(fr, f)'
  BY <1>6, <1>7, CallKept DEF Emptying
<1>9. ChoseClone(fr)'
  BY <1>3, CallKept
<1> QED BY <1>8, <1>9 DEF Active, Phase

LEMMA TopDestroyed ==
  ASSUME PlainRun, UNCHANGED <<view, target>>, DestroyNode, ~IsSnapshot(Node), NEW f, f = Node.of
  PROVE  /\ f \notin FSet(ns')
         /\ \A fr : (fr.clone = Top.clone /\ fr.psnaps = Top.psnaps) =>
              \A i \in Own(f) \cap Ids(ns') : Carried(fr, i)' \/ Wanted(i)'
<1>1. /\ ns' = DestroyFs(ns, f) /\ CanDestroyFs(ns, f) /\ Top.pc = "children"
  BY DEF DestroyNode, CanDestroyNode, At
<1>2. IInv /\ FsLeft /\ Inner(f) /\ Emptying(Top, f)
  BY <1>1, TopActive DEF Phase
<1>3. ns'.snap = ns.snap /\ FSet(ns') = FSet(ns) \ {f} /\ \A g \in FSet(ns') : ns'.fs[g] = ns.fs[g]
  BY <1>1 DEF DestroyFs, FSet
<1>4. SnapsOf(ns, f) = {}
  <2>1. f \notin FSet(ns) => SnapsOf(ns, f) = {}
    BY <1>2, Spaces DEF SnapsOf
  <2> QED BY <1>1, <2>1 DEF CanDestroyFs
<1>5. ASSUME NEW fr, fr.clone = Top.clone, fr.psnaps = Top.psnaps, NEW i \in Own(f) \cap Ids(ns')
      PROVE  Carried(fr, i)' \/ Wanted(i)'
  <2>1. i \in Own(f) \cap Ids(ns) /\ ns.snap[i].of # f
    BY <1>3, <1>4 DEF Ids, SnapsOf
  <2>2. CASE Carried(Top, i)
    <3>1. fr.clone # NoClone /\ ns'.snap[i].of = fr.clone /\ ns'.snap[i].name \in fr.psnaps
      BY <1>3, <1>5, <2>2 DEF Carried
    <3> QED BY <3>1 DEF Carried
  <2>3. CASE Wanted(i)
    <3>1. PICK g \in FSet(ns) : ~Inner(g) /\ ns.fs[g].origin = i
      BY <2>3 DEF Wanted
    <3>2. g \in FSet(ns') /\ ns'.fs[g].origin = i
      BY <1>2, <1>3, <3>1
    <3>3. ~Inner(ns'.snap[i].of)
      BY <1>3, <2>3 DEF Wanted
    <3> QED BY <3>1, <3>2, <3>3, CallKept DEF Wanted, Inner
  <2> QED BY <1>2, <2>1, <2>2, <2>3 DEF Emptying
<1> QED BY <1>3, <1>5

LEMMA TopReopens ==
  ASSUME PlainRun, UNCHANGED <<view, target>>, DestroyNode, Top.clone # NoClone,
         NEW fr, fr.node = Node, fr.pc = "reopen", fr.clone = Top.clone, fr.psnaps = Top.psnaps
  PROVE  Active(fr)'
<1>0. PICK f : f = Node.of
  OBVIOUS
<1>1. ~IsSnapshot(Node) /\ ChoseClone(fr)
  BY TopActive DEF ChoseClone, Node
<1>2. /\ f \notin FSet(ns')
      /\ \A i \in Own(f) \cap Ids(ns') : Carried(fr, i)' \/ Wanted(i)'
  BY <1>0, <1>1, TopDestroyed
<1>3. Sweeping(fr, f)'
  BY <1>2, CallKept DEF Sweeping, Ids, FSet
<1>4. ChoseClone(fr)'
  BY <1>1, CallKept
<1> QED BY <1>0, <1>3, <1>4 DEF Active, Phase

LEMMA TopReopened ==
  ASSUME PlainRun, UNCHANGED <<ns, view, target>>, Top.pc = "reopen",
         NEW fr, fr.node = Node, fr.pc = "sweep", fr.clone = Top.clone, fr.psnaps = Top.psnaps,
         fr.names = NamesOf(ns, Top.clone)
  PROVE  Active(fr)'
<1>0. PICK f : f = Node.of
  OBVIOUS
<1>1. ~IsSnapshot(Node) /\ ChoseClone(fr)
  BY TopActive DEF ChoseClone, Node
<1>2. Sweeping(Top, f)
  BY <1>0, <1>1, TopActive DEF Phase
<1>3. f \notin FSet(ns) /\ \A i \in Own(f) \cap Ids(ns) : Carried(fr, i) \/ Wanted(i)
  BY <1>2 DEF Sweeping, Carried
<1>4. \A i : (Carried(fr, i) => Carried(fr, i)') /\ (Wanted(i) => Wanted(i)')
  BY DEF Carried, Wanted, Inner, FSet
<1>5. NamesOf(ns', fr.clone) = fr.names
  BY DEF NamesOf, SnapsOf
<1>6. Sweeping(fr, f)'
  BY <1>3, <1>4, <1>5, CallKept DEF Sweeping, Ids, FSet
<1>7. ChoseClone(fr)'
  BY <1>1, CallKept
<1> QED BY <1>0, <1>6, <1>7 DEF Active, Phase

(* A snapshot that the last loop cannot destroy is wanted.                 *)
LEMMA RefusedWanted ==
  ASSUME PlainRun, NEW f, Inner(f), f \notin FSet(ns), NEW i \in Own(f) \cap Ids(ns),
         ~Inner(ns.snap[i].of), ~CanDestroySnap(ns, ns.snap[i].of, ns.snap[i].name)
  PROVE  Wanted(i)
<1>1. IInv /\ UInv /\ FsLeft
  BY TopActive
<1>2. PICK g \in FSet(ns) : ns.fs[g].origin = i
  <2>1. Holding(ns, ns.snap[i].of, ns.snap[i].name) = {i}
    BY <1>1, HeldOnce
  <2> QED BY <2>1 DEF CanDestroySnap, ClonesOf
<1>3. i \in Ids(view) /\ view.snap[i].of = f /\ i # NoSnap
  BY <1>1, Spaces DEF Own, SnapsOf
<1>4. ~Inner(g)
  <2>1. SUFFICES ASSUME Inner(g) PROVE FALSE
    OBVIOUS
  <2>2. i \in Own(g)
    BY <1>1, <1>2, <1>3, <2>1 DEF FsLeft
  <2>3. g = f
    BY <2>2, OwnDisjoint
  <2> QED BY <1>2, <2>3
<1> QED BY <1>2, <1>4 DEF Wanted

LEMMA TopSwept ==
  ASSUME PlainRun, UNCHANGED <<view, target>>, NEW n \in Top.psnaps, Sweep(n), UNCHANGED faults,
         NEW fr, fr.node = Node, fr.pc = "sweep", fr.clone = Top.clone, fr.psnaps = Top.psnaps \ {n},
         fr.names = Top.names
  PROVE  Active(fr)'
<1>0. PICK f, c : f = Node.of /\ c = Top.clone
  OBVIOUS
<1>1. ~IsSnapshot(Node) /\ ChoseClone(fr) /\ c # NoClone /\ Top.pc = "sweep"
  BY <1>0, TopActive DEF ChoseClone, Node, Sweep, At
<1>2. Sweeping(Top, f)
  BY <1>0, <1>1, TopActive DEF Phase
<1>3. /\ f \notin FSet(ns) /\ NamesOf(ns, c) \subseteq Top.names
      /\ \A i \in Own(f) \cap Ids(ns) : Carried(Top, i) \/ Wanted(i)
  BY <1>0, <1>1, <1>2 DEF Sweeping
<1>4. IInv /\ UInv /\ FsLeft /\ Inner(f) /\ ~Inner(c)
  BY <1>0, <1>1, TopActive, CloneOutside
<1>5. \/ ns' = DestroySnap(ns, c, n)
      \/ UNCHANGED ns /\ ~(n \in Top.names /\ CanDestroySnap(ns, c, n))
  <2>1. faults \in Nat
    BY <1>4 DEF IInv, TypeOK
  <2>2. faults' # faults + 1
    BY <2>1
  <2> QED BY <1>0, <2>2 DEF Sweep
<1>6. Spares(f)
  BY <1>4, <1>5, SparesSame, SparesDestroySnap
<1>7. ASSUME NEW i \in Own(f) \cap Ids(ns') PROVE Carried(fr, i)' \/ Wanted(i)'
  <2>1. i \in Own(f) \cap Ids(ns)
    BY <1>6 DEF Spares
  <2>2. CASE Wanted(i)
    BY <1>4, <1>6, <2>2, SparesWanted
  <2>3. CASE Carried(Top, i)
    <3>1. ns.snap[i].of = c /\ ns.snap[i].name \in Top.psnaps /\ ns'.snap[i] = ns.snap[i]
      BY <1>0, <1>4, <1>6, <2>3 DEF Carried, Spares
    <3>2. CASE ns.snap[i].name # n
      <4>1. fr.clone # NoClone /\ ns'.snap[i].of = fr.clone /\ ns'.snap[i].name \in fr.psnaps
        BY <1>0, <1>1, <3>1, <3>2
      <4> QED BY <4>1 DEF Carried
    <3>3. CASE ns.snap[i].name = n
      <4>1. Holding(ns, c, n) = {i} /\ n \in NamesOf(ns, c)
        BY <1>4, <2>1, <3>1, <3>3, HeldOnce DEF NamesOf, SnapsOf
      <4>2. ns' # DestroySnap(ns, c, n)
        BY <4>1, IdsAfter
      <4>3. ~CanDestroySnap(ns, c, n)
        BY <1>3, <1>5, <4>1, <4>2
      <4>4. Wanted(i)
        BY <1>3, <1>4, <2>1, <3>1, <3>3, <4>3, RefusedWanted
      <4> QED BY <1>4, <1>6, <4>4, SparesWanted
    <3> QED BY <3>2, <3>3
  <2> QED BY <1>3, <2>1, <2>2, <2>3
<1>8. f \notin FSet(ns')
  BY <1>3, <1>6 DEF Spares
<1>9. NamesOf(ns', fr.clone) \subseteq fr.names
  <2>1. \A i \in Ids(ns') : ns'.snap[i] = ns.snap[i] /\ i \in Ids(ns)
    BY <1>5, IdsAfter, DestroyLeaves
  <2> QED BY <1>0, <1>3, <2>1 DEF NamesOf, SnapsOf
<1>10. Sweeping(fr, f)'
  BY <1>7, <1>8, <1>9, CallKept DEF Sweeping, Ids, FSet
<1>11. ChoseClone(fr)'
  BY <1>1, CallKept
<1> QED BY <1>0, <1>10, <1>11 DEF Active, Phase

(* What returns has settled its filesystem.                                *)
LEMMA ReturnSettled ==
  ASSUME PlainRun, UNCHANGED <<view, target>>, ~IsSnapshot(Node), NEW f, f = Node.of,
         \/ DestroyNode /\ ~(Top.clone # NoClone /\ Top.psnaps # {})
         \/ SweepDone
  PROVE  f \notin FSet(ns') /\ Settled(f)'
<1>1. CASE DestroyNode /\ ~(Top.clone # NoClone /\ Top.psnaps # {})
  <2>1. PICK fr : fr = Top
    OBVIOUS
  <2>2. f \notin FSet(ns') /\ \A i \in Own(f) \cap Ids(ns') : Carried(fr, i)' \/ Wanted(i)'
    BY <1>1, <2>1, TopDestroyed
  <2>3. \A i : ~Carried(fr, i)'
    BY <1>1, <2>1 DEF Carried
  <2> QED BY <2>2, <2>3, CallKept DEF Settled, Ids, FSet
<1>2. CASE SweepDone
  <2>1. Top.psnaps = {} /\ UNCHANGED ns /\ Sweeping(Top, f)
    BY <1>2, TopActive DEF SweepDone, At, Phase
  <2>2. f \notin FSet(ns) /\ \A i \in Own(f) \cap Ids(ns) : Wanted(i)
    BY <2>1 DEF Sweeping, Carried
  <2> QED BY <2>1, <2>2, CallKept DEF Settled, Wanted, Inner, Ids, FSet
<1> QED BY <1>1, <1>2

(* The activation of a child starts on a filesystem to which nothing has   *)
(* happened, or which is gone.                                             *)
LEMMA ChildNotBegun ==
  ASSUME PlainRun, Top.pc = "children", NEW e \in Top.kids, ~IsSnapshot(e)
  PROVE  /\ e = FsNode(e.of) /\ e.of \in FSet(view) /\ Inner(e.of) /\ ~OnStack(e.of)
<1>1. /\ IInv /\ LInv /\ stack \in Seq(Frames) /\ Len(stack) \in Nat /\ Len(stack) >= 1
      /\ 1 \in 1..Len(stack) /\ Top = stack[1] /\ Node = stack[1].node /\ status = "running"
  BY TopActive
<1>2. e \in Children(view, Node)
  BY <1>1 DEF LInv, Stacked
<1>3. ~IsSnapshot(Node) /\ e = FsNode(e.of) /\ e.of \in FSet(view) /\ IsChild(e.of, Node.of)
  BY <1>1, <1>2, ChildShape
<1>4. Inner(e.of)
  BY <1>1, TopFrame DEF FrameInside, InTree, Inner
<1>5. /\ e.of \in Seq(STRING) /\ Node.of \in Seq(STRING)
      /\ \A k \in 1..Len(stack) : stack[k].node.of \in Seq(STRING)
  <2>1. FSet(view) \subseteq Paths /\ \A k \in 1..Len(stack) : stack[k].node.of \in FSet(view)
    BY <1>1 DEF IInv, TypeOK, IsNamespace, LInv, Stacked
  <2> QED BY <1>1, <1>3, <2>1
<1>6. ASSUME NEW k \in 1..Len(stack) PROVE Len(stack[k].node.of) < Len(e.of)
  <2>1. /\ Len(e.of) = Len(Node.of) + 1 /\ Len(Node.of) \in Nat /\ Len(e.of) \in Nat
        /\ Len(stack[k].node.of) \in Nat
    BY <1>3, <1>5 DEF IsChild
  <2>2. CASE k = 1
    BY <1>1, <2>1, <2>2
  <2>3. CASE k # 1
    <3>1. Len(Node.of) > Len(stack[k].node.of)
      BY <1>1, <1>3, <2>3 DEF LInv, Stacked
    <3> QED BY <2>1, <3>1
  <2> QED BY <2>2, <2>3
<1>7. ~OnStack(e.of)
  <2>1. SUFFICES ASSUME NEW k \in 1..Len(stack), stack[k].node = FsNode(e.of) PROVE FALSE
    BY DEF OnStack
  <2>2. stack[k].node.of = e.of /\ Len(e.of) \in Nat
    BY <1>5, <2>1 DEF FsNode
  <2> QED BY <1>6, <2>2
<1> QED BY <1>3, <1>4, <1>7

(* The activation of a child begins in the search.                         *)
LEMMA TopBegun ==
  ASSUME PlainRun, UNCHANGED <<ns, view, target>>, Top.pc = "children", NEW e \in Top.kids,
         NEW fr, fr = Frame(e)
  PROVE  Active(fr)'
<1>1. fr.node = e /\ fr.pc = "search" /\ fr.clone = NoClone
  BY DEF Frame
<1>2. ChoseClone(fr)'
  BY <1>1 DEF ChoseClone
<1>3. ASSUME ~IsSnapshot(e) PROVE Phase(fr, e.of)'
  <2>1. IF e.of \in FSet(ns) THEN Fresh(e.of) ELSE Settled(e.of)
    BY <1>3, ChildNotBegun, TopActive DEF Swept
  <2>2. /\ Fresh(e.of) => Fresh(e.of)'
        /\ Settled(e.of) => Settled(e.of)'
    BY CallKept DEF Fresh, OriginKept, Settled, Wanted, Inner, Ids, FSet
  <2> QED BY <1>1, <2>1, <2>2 DEF Phase, FSet
<1> QED BY <1>1, <1>2, <1>3 DEF Active

-----------------------------------------------------------------------------
(* All the activations after a step.                                       *)
LEMMA SweptAfter ==
  ASSUME PlainRun, Step,
         \A f \in FSet(view) :
           (OnStack(f) \/ f = Node.of) => OnStack(f)' \/ (f \notin FSet(ns') /\ Settled(f)')
  PROVE  Swept'
<1>1. UNCHANGED <<view, target>>
  BY TopActive, StepKeepsCall
<1>2. ASSUME NEW f \in FSet(view), Inner(f), ~OnStack(f)'
      PROVE  (IF f \in FSet(ns) THEN Fresh(f) ELSE Settled(f))'
  <2>1. CASE OnStack(f) \/ f = Node.of
    BY <1>2, <2>1 DEF FSet
  <2>2. CASE ~OnStack(f) /\ f # Node.of
    BY <1>2, <2>2, SweptStep
  <2> QED BY <2>1, <2>2
<1> QED BY <1>1, <1>2, CallKept DEF Swept, FSet

LEMMA TurnedAll ==
  ASSUME PlainRun, Step, NEW pc, NEW clone, NEW names, NEW todo, NEW psnaps, NEW kids,
         Turns(pc, clone, names, todo, psnaps, kids),
         \A fr : (/\ fr.node = Node /\ fr.pc = pc /\ fr.clone = clone /\ fr.names = names
                  /\ fr.todo = todo /\ fr.psnaps = psnaps) => Active(fr)'
  PROVE  AllActive' /\ Swept'
<1>1. /\ Len(stack) \in Nat /\ Len(stack) >= 1 /\ Len(stack') = Len(stack)
      /\ \A k \in 1..Len(stack) : k # 1 => stack'[k] = stack[k]
      /\ stack'[1].node = Node
  BY DEF Turns
<1>2. \A fr : fr = stack'[1] => Active(fr)'
  BY DEF Turns
<1>3. ASSUME NEW k \in 2..Len(stack) PROVE \A fr : fr = stack'[k] => Active(fr)'
  <2>1. stack'[k] = stack[k]
    BY <1>1
  <2> QED BY <2>1, WaitingStep
<1>4. \A k \in 1..Len(stack') : \A fr : fr = stack'[k] => Active(fr)'
  BY <1>1, <1>2, <1>3
<1>5. AllActive'
  BY <1>4 DEF AllActive
<1>6. ASSUME NEW f, OnStack(f) PROVE OnStack(f)'
  <2>1. PICK k \in 1..Len(stack) : stack[k].node = FsNode(f)
    BY <1>6 DEF OnStack
  <2>2. k \in 1..Len(stack') /\ stack'[k].node = FsNode(f)
    BY <1>1, <2>1, TopActive
  <2> QED BY <2>2 DEF OnStack, FsNode
<1>7. \A f : ~OnStack(f) => f # Node.of
  BY NodeOut
<1> QED BY <1>5, <1>6, <1>7, SweptAfter

LEMMA ReturnedAll ==
  ASSUME PlainRun, Step, ReturnNil,
         \A f : (~IsSnapshot(Node) /\ f = Node.of) => f \notin FSet(ns') /\ Settled(f)'
  PROVE  AllActive' /\ Swept'
<1>1. /\ Len(stack) \in Nat /\ Len(stack) >= 1 /\ Len(stack') = Len(stack) - 1
      /\ \A k \in 1..Len(stack') : stack'[k] = stack[k + 1] /\ k + 1 \in 2..Len(stack)
      /\ \A k \in 2..Len(stack) : stack[k] = stack'[k - 1] /\ k - 1 \in 1..Len(stack')
  BY TopActive, Popped
<1>2. ASSUME NEW k \in 1..Len(stack') PROVE \A fr : fr = stack'[k] => Active(fr)'
  <2>1. stack'[k] = stack[k + 1] /\ k + 1 \in 2..Len(stack)
    BY <1>1
  <2> QED BY <2>1, WaitingStep
<1>3. AllActive'
  BY <1>2 DEF AllActive
<1>4. ASSUME NEW k \in 2..Len(stack), NEW f, stack[k].node = FsNode(f) PROVE OnStack(f)'
  <2>1. k - 1 \in 1..Len(stack') /\ stack'[k - 1].node = FsNode(f)
    BY <1>1, <1>4
  <2> QED BY <2>1 DEF OnStack, FsNode
<1>5. ASSUME NEW f, OnStack(f) \/ f = Node.of PROVE OnStack(f)' \/ (f \notin FSet(ns') /\ Settled(f)')
  <2>1. CASE IsSnapshot(Node)
    <3>1. PICK k \in 1..Len(stack) : stack[k].node = FsNode(f) \/ (k = 2 /\ f = Node.of)
      BY <1>5, <2>1, SnapshotBelow, Waiting DEF OnStack
    <3>2. CASE k = 1
      <4>1. Node = FsNode(f)
        BY <3>1, <3>2, TopActive
      <4> QED BY <2>1, <4>1 DEF FsNode, IsSnapshot
    <3>3. CASE k # 1
      <4>1. k \in 2..Len(stack) /\ (stack[k].node = FsNode(f))
        BY <1>1, <2>1, <3>1, <3>3, SnapshotBelow
      <4> QED BY <1>4, <4>1
    <3> QED BY <3>2, <3>3
  <2>2. CASE ~IsSnapshot(Node) /\ f = Node.of
    BY <2>2
  <2>3. CASE ~IsSnapshot(Node) /\ f # Node.of
    <3>1. PICK k \in 1..Len(stack) : stack[k].node = FsNode(f)
      BY <1>5, <2>3 DEF OnStack
    <3>2. k # 1
      BY <2>3, <3>1, TopActive DEF FsNode
    <3>3. k \in 2..Len(stack)
      BY <1>1, <3>2
    <3> QED BY <1>4, <3>1, <3>3
  <2> QED BY <2>1, <2>2, <2>3
<1> QED BY <1>3, <1>5, SweptAfter

LEMMA DescendedAll ==
  ASSUME PlainRun, Step, NEW e \in Top.kids, Descend(e)
  PROVE  AllActive' /\ Swept'
<1>1. /\ Len(stack) \in Nat /\ Len(stack) >= 1 /\ Len(stack') = Len(stack) + 1
      /\ stack'[1] = Frame(e)
      /\ stack'[2].pc = Top.pc /\ stack'[2].node = Top.node /\ stack'[2].clone = Top.clone
      /\ stack'[2].psnaps = Top.psnaps
      /\ \A k \in 2..Len(stack) : stack'[k + 1] = stack[k]
      /\ \A k \in 1..Len(stack') : k = 1 \/ k = 2 \/ k - 1 \in 2..Len(stack)
  BY TopActive, Pushed
<1>2. UNCHANGED <<ns, view, target>> /\ Top.pc = "children"
  BY TopActive, StepKeepsCall DEF Descend, At
<1>3. \A fr : fr = stack'[1] => Active(fr)'
  BY <1>1, <1>2, TopBegun
<1>4. ASSUME NEW fr, fr = stack'[2] PROVE Active(fr)'
  <2>1. /\ fr.pc = "children" /\ fr.node = Node /\ fr.clone = Top.clone /\ fr.psnaps = Top.psnaps
    BY <1>1, <1>2, <1>4 DEF Node
  <2>2. PICK f : f = Node.of
    OBVIOUS
  <2>3. ChoseClone(Top) /\ (~IsSnapshot(Node) => Emptying(Top, f))
    BY <1>2, <2>2, TopActive DEF Phase
  <2>4. ChoseClone(fr)
    BY <1>2, <2>1, <2>3 DEF ChoseClone, Node
  <2>5. Emptying(Top, f) => Emptying(fr, f)
    BY <2>1 DEF Emptying, Carried
  <2>6. Emptying(fr, f) => Emptying(fr, f)'
    BY <1>2 DEF Emptying, Unclaimed, SnapsOf, ClonesOf, Own, Carried, Wanted, Inner, Ids, FSet
  <2>7. ChoseClone(fr)'
    BY <1>2, <2>4, CallKept
  <2> QED BY <2>1, <2>2, <2>3, <2>5, <2>6, <2>7 DEF Active, Phase
<1>5. ASSUME NEW k \in 1..Len(stack') PROVE \A fr : fr = stack'[k] => Active(fr)'
  <2>1. CASE k = 1
    BY <1>3, <2>1
  <2>2. CASE k = 2
    BY <1>4, <2>2
  <2>3. CASE k - 1 \in 2..Len(stack)
    <3>1. stack'[k] = stack[k - 1]
      <4>1. stack'[(k - 1) + 1] = stack[k - 1] /\ (k - 1) + 1 = k
        BY <1>1, <2>3
      <4> QED BY <4>1
    <3> QED BY <2>3, <3>1, WaitingStep
  <2> QED BY <1>1, <2>1, <2>2, <2>3
<1>6. AllActive'
  BY <1>5 DEF AllActive
<1>7. ASSUME NEW f, OnStack(f) PROVE OnStack(f)'
  <2>1. PICK k \in 1..Len(stack) : stack[k].node = FsNode(f)
    BY <1>7 DEF OnStack
  <2>2. k + 1 \in 1..Len(stack') /\ stack'[k + 1].node = FsNode(f)
    <3>1. CASE k = 1
      BY <1>1, <2>1, <3>1, TopActive DEF Node
    <3>2. CASE k # 1
      <4>1. k \in 2..Len(stack)
        BY <1>1, <3>2
      <4> QED BY <1>1, <2>1, <4>1
    <3> QED BY <3>1, <3>2
  <2> QED BY <2>2 DEF OnStack, FsNode
<1>8. \A f : ~OnStack(f) => f # Node.of
  BY NodeOut
<1> QED BY <1>6, <1>7, <1>8, SweptAfter

(* Every step of a plain call leaves all its activations in their phases.  *)
LEMMA ActiveStep ==
  ASSUME PlainRun, Step, status' # "error", UNCHANGED faults
  PROVE  AllActive' /\ Swept'
<1>1. IInv /\ status = "running" /\ UNCHANGED <<view, target>>
  BY TopActive, StepKeepsCall
<1>2. CASE Search
  <2>1. UNCHANGED ns /\ Top.pc = "search"
    BY <1>2 DEF Search, At
  <2>2. ASSUME FoundClones(view, Node, ns) = {},
               Turns("children", Top.clone, Top.names, Top.todo, Top.psnaps, Children(view, Node))
        PROVE  AllActive' /\ Swept'
    <3>1. \A fr : (fr.node = Node /\ fr.pc = "children" /\ fr.clone = Top.clone) => Active(fr)'
      BY <1>1, <2>1, <2>2, TopSearchedNone
    <3> QED BY <2>2, <3>1, TurnedAll
  <2>3. ASSUME NEW c \in FSet(ns), IsFirstClone(view, Node, ns, c),
               Turns("open", c, Top.names, Top.todo, Top.psnaps, Top.kids)
        PROVE  AllActive' /\ Swept'
    <3>1. \A fr : (fr.node = Node /\ fr.pc = "open" /\ fr.clone = c) => Active(fr)'
      BY <1>1, <2>1, <2>3, TopSearched
    <3> QED BY <2>3, <3>1, TurnedAll
  <2> QED BY <1>1, <1>2, <2>2, <2>3, SearchTurns
<1>3. CASE OpenClone
  <2>1. UNCHANGED ns /\ Top.pc = "open"
    BY <1>3 DEF OpenClone, At
  <2>2. \A fr : (fr.node = Node /\ fr.pc = "resolve" /\ fr.clone = Top.clone
                 /\ fr.todo = Snapshots(view, Node)) => Active(fr)'
    BY <1>1, <2>1, TopOpened
  <2>3. Turns("resolve", Top.clone, NamesOf(ns, Top.clone), Snapshots(view, Node), Top.psnaps, Top.kids)
    BY <1>1, <1>3, OpenTurns
  <2> QED BY <2>2, <2>3, TurnedAll
<1>4. ASSUME NEW i \in Top.todo, KeepName(i) \/ RenameConflict(i) PROVE AllActive' /\ Swept'
  <2>1. PICK n \in Names :
          /\ Listed(i, n)
          /\ \/ UNCHANGED ns /\ n = view.snap[i].name
             \/ ns' = RenameSnap(ns, Node.of, view.snap[i].name, n)
    BY <1>1, <1>4, NewNames DEF KeepName, RenameConflict
  <2>2. Top.pc = "resolve"
    BY <1>4 DEF KeepName, RenameConflict, At
  <2>3. \A fr : (fr.node = Node /\ fr.pc = "resolve" /\ fr.clone = Top.clone /\ fr.todo = Top.todo \ {i}
                 /\ fr.psnaps = Top.psnaps \cup {n}) => Active(fr)'
    BY <1>1, <2>1, <2>2, TopListed
  <2>4. Turns("resolve", Top.clone, Top.names, Top.todo \ {i}, Top.psnaps \cup {n}, Top.kids)
    BY <1>1, <2>1, ListedTurns
  <2> QED BY <2>3, <2>4, TurnedAll
<1>5. CASE PromoteClone
  <2>1. \A fr : (fr.node = Node /\ fr.pc = "children" /\ fr.clone = Top.clone /\ fr.psnaps = Top.psnaps)
                  => Active(fr)'
    BY <1>1, <1>5, TopPromoted
  <2>2. Turns("children", Top.clone, Top.names, Top.todo, Top.psnaps, Children(view, Node))
    BY <1>1, <1>5, PromoteTurns
  <2> QED BY <2>1, <2>2, TurnedAll
<1>6. ASSUME NEW e \in Top.kids, Descend(e) PROVE AllActive' /\ Swept'
  BY <1>6, DescendedAll
<1>7. CASE DestroyNode
  <2>1. ASSUME Top.clone # NoClone, Turns("reopen", Top.clone, Top.names, Top.todo, Top.psnaps, Top.kids)
        PROVE  AllActive' /\ Swept'
    <3>1. \A fr : (fr.node = Node /\ fr.pc = "reopen" /\ fr.clone = Top.clone /\ fr.psnaps = Top.psnaps)
                    => Active(fr)'
      BY <1>1, <1>7, <2>1, TopReopens
    <3> QED BY <2>1, <3>1, TurnedAll
  <2>2. ASSUME ~(Top.clone # NoClone /\ Top.psnaps # {}), ReturnNil PROVE AllActive' /\ Swept'
    <3>1. \A f : (~IsSnapshot(Node) /\ f = Node.of) => f \notin FSet(ns') /\ Settled(f)'
      BY <1>1, <1>7, <2>2, ReturnSettled
    <3> QED BY <2>2, <3>1, ReturnedAll
  <2> QED BY <1>1, <1>7, <2>1, <2>2, DestroyTurns
<1>8. CASE ReopenClone
  <2>1. UNCHANGED ns /\ Top.pc = "reopen"
    BY <1>8 DEF ReopenClone, At
  <2>2. \A fr : (/\ fr.node = Node /\ fr.pc = "sweep" /\ fr.clone = Top.clone /\ fr.psnaps = Top.psnaps
                 /\ fr.names = NamesOf(ns, Top.clone)) => Active(fr)'
    BY <1>1, <2>1, TopReopened
  <2>3. Turns("sweep", Top.clone, NamesOf(ns, Top.clone), Top.todo, Top.psnaps, Top.kids)
    BY <1>1, <1>8, ReopenTurns
  <2> QED BY <2>2, <2>3, TurnedAll
<1>9. ASSUME NEW n \in Top.psnaps, Sweep(n) PROVE AllActive' /\ Swept'
  <2>1. \A fr : (/\ fr.node = Node /\ fr.pc = "sweep" /\ fr.clone = Top.clone
                 /\ fr.psnaps = Top.psnaps \ {n} /\ fr.names = Top.names) => Active(fr)'
    BY <1>1, <1>9, TopSwept
  <2>2. Turns("sweep", Top.clone, Top.names, Top.todo, Top.psnaps \ {n}, Top.kids)
    BY <1>1, <1>9, SweepTurns
  <2> QED BY <2>1, <2>2, TurnedAll
<1>10. CASE SweepDone
  <2>1. \A f : (~IsSnapshot(Node) /\ f = Node.of) => f \notin FSet(ns') /\ Settled(f)'
    BY <1>1, <1>10, ReturnSettled
  <2> QED BY <1>10, <2>1, ReturnedAll DEF SweepDone
<1>11. CASE FailRefused \/ FailFault
  BY <1>11 DEF FailRefused, FailFault, Abort
<1> QED BY <1>2, <1>3, <1>4, <1>5, <1>6, <1>7, <1>8, <1>9, <1>10, <1>11 DEF Step

-----------------------------------------------------------------------------
(* The fourth invariant: a plain call leaves the pool, filesystem by       *)
(* filesystem, in the state that its activations are in.                   *)
OInv ==
  (PlainCall /\ status \in {"running", "nil"}) => SnapsLeft /\ FsLeft /\ Swept /\ AllActive

LEMMA InitOInv == Init => OInv
  BY DEF Init, OInv

(* A plain call was plain before.                                          *)
LEMMA PlainBefore ==
  ASSUME IInv, status = "running", Step
  PROVE  /\ UNCHANGED <<view, target, quiet>>
         /\ PlainCall' => PlainCall /\ UNCHANGED faults
         /\ NameClash' <=> NameClash
<1>1. UNCHANGED <<view, target, quiet>>
  BY StepKeepsCall
<1>2. faults' \in {faults, faults + 1}
  BY DEF Step, Search, OpenClone, KeepName, RenameConflict, PromoteClone, Descend, DestroyNode,
         ReopenClone, Sweep, SweepDone, FailRefused, FailFault
<1>3. faults \in Nat
  BY DEF IInv, TypeOK
<1>4. faults' = 0 => faults = 0
  BY <1>2, <1>3
<1>5. (InnerClone' <=> InnerClone) /\ (HiddenClone' <=> HiddenClone)
  BY <1>1 DEF InnerClone, HiddenClone, CloneOf, Inner
<1>6. NameClash' <=> NameClash
  BY <1>1 DEF NameClash, CloneOf, Inner
<1> QED BY <1>1, <1>4, <1>5, <1>6 DEF PlainCall

(* In the middle of its run a plain call is in such a state.               *)
LEMMA PlainRunning ==
  ASSUME IInv, GInv, UInv, LInv, OInv, PlainCall, status = "running"
  PROVE  PlainRun
  BY DEF PlainRun, OInv, PlainCall

(* When the call begins, the pool is as it was opened and only the         *)
(* target's activation is on the stack.                                    *)
LEMMA BeginOInv ==
  ASSUME IInv, NEW f \in Targets, Begin(f)
  PROVE  OInv'
<1>1. /\ view' = ns /\ ns' = ns /\ target' = f /\ f \in FSet(ns)
      /\ stack' = <<Frame(FsNode(f))>>
  BY DEF Begin
<1>2. SUFFICES ASSUME ~InnerClone' PROVE SnapsLeft' /\ FsLeft' /\ Swept' /\ AllActive'
  BY DEF OInv, PlainCall
<1>3. SnapsLeft'
  BY <1>1 DEF SnapsLeft
<1>4. Fresh(f)' /\ \A g : Fresh(g)'
  BY <1>1 DEF Fresh, OriginKept, Own, SnapsOf
<1>5. Swept'
  BY <1>1, <1>4 DEF Swept
<1>6. AllActive'
  <2>1. /\ Len(stack') = 1 /\ stack'[1] = Frame(FsNode(f))
    BY <1>1
  <2>2. /\ Frame(FsNode(f)).pc = "search" /\ Frame(FsNode(f)).clone = NoClone
        /\ Frame(FsNode(f)).node = FsNode(f) /\ FsNode(f).of = f
    BY DEF Frame, FsNode
  <2>3. ASSUME NEW fr, fr = Frame(FsNode(f)) PROVE Active(fr)'
    <3>1. ChoseClone(fr)'
      BY <2>2, <2>3 DEF ChoseClone
    <3>2. f \in FSet(ns')
      BY <1>1
    <3> QED BY <1>4, <2>2, <2>3, <3>1, <3>2 DEF Active, Phase, FSet
  <2>4. ASSUME NEW k \in 1..Len(stack') PROVE \A fr : fr = stack'[k] => Active(fr)'
    <3>1. k = 1
      BY <2>1
    <3> QED BY <2>1, <2>3, <3>1
  <2> QED BY <2>4 DEF AllActive
<1>7. FsLeft'
  <2>1. ASSUME NEW g \in FSet(ns), ns.fs[g].origin # NoSnap, Under(g, f)
        PROVE  ns.fs[g].origin \in Ids(ns) /\ ~Under(ns.snap[ns.fs[g].origin].of, f)
    <3>1. ns.fs[g].origin \in Ids(ns) /\ ns.snap[ns.fs[g].origin].of \in FSet(ns)
      BY <2>1, Spaces
    <3> QED BY <1>1, <1>2, <2>1, <3>1 DEF InnerClone, Inner, CloneOf
  <2> QED BY <1>1, <2>1 DEF FsLeft, OriginKept, Inner
<1> QED BY <1>3, <1>5, <1>6, <1>7

(* The fourth invariant is kept by every step.                             *)
LEMMA NextOInv == IInv /\ GInv /\ UInv /\ LInv /\ OInv /\ [Next]_vars => OInv'
<1> SUFFICES ASSUME IInv, GInv, UInv, LInv, OInv, [Next]_vars PROVE OInv'
  OBVIOUS
<1>1. CASE Client
  <2>1. CASE status = "idle"
    <3>1. status' = "idle"
      BY <1>1, <2>1 DEF Client, DatasetCreate, DatasetSnapshot, Clone, ClientPromote, clientVars
    <3> QED BY <3>1 DEF OInv
  <2>2. CASE status # "idle"
    <3>1. quiet' = FALSE
      BY <1>1, <2>2 DEF Client, DatasetCreate, DatasetSnapshot, Clone, ClientPromote, Noticed
    <3> QED BY <3>1 DEF OInv, PlainCall
  <2> QED BY <2>1, <2>2
<1>2. CASE \E f \in Targets : Begin(f)
  BY <1>2, BeginOInv
<1>3. CASE Collect
  BY <1>3 DEF Collect, OInv
<1>4. CASE UNCHANGED vars
  <2>1. UNCHANGED <<ns, view, target, stack, status, quiet, faults>>
    BY <1>4 DEF vars
  <2>2. /\ PlainCall' => PlainCall
        /\ SnapsLeft => SnapsLeft'
        /\ FsLeft => FsLeft'
    BY <2>1 DEF PlainCall, InnerClone, HiddenClone, CloneOf, Inner, SnapsLeft, FsLeft, OriginKept, Own
  <2>3. /\ \A f : Fresh(f) => Fresh(f)'
        /\ \A f : Settled(f) => Settled(f)'
        /\ \A f : OnStack(f)' <=> OnStack(f)
    BY <2>1 DEF Fresh, CloneOf, OriginKept, Settled, Wanted, Inner, Own, OnStack
  <2>4. Swept => Swept'
    BY <2>1, <2>3 DEF Swept, Inner
  <2>5. AllActive => AllActive'
    <3>1. ASSUME NEW fr, NEW f
          PROVE  /\ Resolving(fr, f) => Resolving(fr, f)'
                 /\ Emptying(fr, f) => Emptying(fr, f)'
                 /\ Sweeping(fr, f) => Sweeping(fr, f)'
      BY <2>1 DEF Resolving, CloneOf, OriginKept, Own, Emptying, Unclaimed, Carried, Wanted, Inner, Sweeping
    <3>2. ASSUME NEW fr, Active(fr) PROVE Active(fr)'
      BY <2>1, <2>3, <3>1, <3>2, CallKept DEF Active, Phase
    <3>3. SUFFICES ASSUME AllActive, NEW k \in 1..Len(stack') PROVE \A fr : fr = stack'[k] => Active(fr)'
      BY DEF AllActive
    <3> QED BY <2>1, <3>2, <3>3 DEF AllActive
  <2> QED BY <2>1, <2>2, <2>4, <2>5 DEF OInv
<1>5. CASE status = "running" /\ Step
  <2>1. SUFFICES ASSUME PlainCall', status' \in {"running", "nil"}
                 PROVE  SnapsLeft' /\ FsLeft' /\ Swept' /\ AllActive'
    BY DEF OInv
  <2>2. PlainCall /\ UNCHANGED faults
    BY <1>5, <2>1, PlainBefore
  <2>3. PlainRun
    BY <1>5, <2>2, PlainRunning
  <2>4. IInv'
    BY NextIInv
  <2> QED BY <1>5, <2>1, <2>2, <2>3, <2>4, LeftStep, ActiveStep
<1> QED BY <1>1, <1>2, <1>3, <1>4, <1>5 DEF Next

(* After a nil error on a pool without an inner or a hidden clone, when    *)
(* nothing failed and no client acted, the snapshots of the subtree that   *)
(* still exist have clones: all others went with their filesystem or in    *)
(* the last loop (zfs.go:761-766), which meets every snapshot that the     *)
(* promotion carried to the clone.                                         *)
THEOREM LeavesNoOrphans == Spec => []QuietLeavesNoOrphans
<1>1. IInv /\ GInv /\ KInv /\ OInv => QuietLeavesNoOrphans
  <2> SUFFICES ASSUME IInv, GInv, KInv, OInv, PlainCall, status = "nil",
                      NEW i \in Ids(view) \ foreign, i \in Ids(ns)
               PROVE  ClonesOf(ns, i) # {}
    BY DEF QuietLeavesNoOrphans, NoOrphans
  <2>0. PICK f : f = view.snap[i].of
    OBVIOUS
  <2>1. /\ FsLeft /\ Swept /\ NilMeansGone /\ stack = <<>>
        /\ foreign = {j \in Ids(view) : ~Inner(view.snap[j].of)}
    BY DEF OInv, KInv, GInv, Fate, IInv, TypeOK, PlainCall
  <2>2. Inner(f) /\ f \in FSet(view) /\ i \in Own(f)
    BY <2>0, <2>1, Spaces DEF Own, SnapsOf
  <2>3. ~OnStack(f)
    BY <2>1 DEF OnStack
  <2>4. f \notin FSet(ns)
    BY <2>1, <2>2 DEF NilMeansGone, Survives, FsLeft, Inner
  <2>5. Wanted(i)
    BY <2>1, <2>2, <2>3, <2>4 DEF Swept, Settled
  <2> QED BY <2>5 DEF Wanted, ClonesOf
<1> QED BY InitIInv, NextIInv, InitGInv, NextGInv, InitUInv, NextUInv, InitLInv, NextLInv,
           InitKInv, NextKInv, InitOInv, NextOInv, <1>1, PTL DEF Spec

-----------------------------------------------------------------------------
(* Nothing was renamed, and what was looped over is gone.                  *)
Done(d) == IF IsSnapshot(d) THEN d.id \notin SnapsOf(ns, d.of) ELSE d.of \notin FSet(ns)

NamesKept == \A i \in Ids(ns) : ns.snap[i].name = view.snap[i].name
NamesSeen == (stack # <<>> /\ Top.pc = "resolve") => Top.names \subseteq NamesOf(view, Top.clone)
(* The children that an activation has been through are gone.              *)
Looped(k) ==
  stack[k].pc = "children" =>
    \A d \in Children(view, stack[k].node) :
      d \in stack[k].kids \/ (k > 1 /\ stack[k - 1].node = d) \/ Done(d)

Progress == NamesKept /\ NamesSeen /\ \A k \in 1..Len(stack) : Looped(k)

(* The fifth invariant: where no clone has a snapshot of the same name,    *)
(* nothing was renamed and the next libzfs call is not refused.            *)
PInv ==
  /\ (PlainCall /\ ~NameClash /\ status = "running") => Progress
  /\ QuietSucceeds

(* Where no clone has a snapshot of the same name there is no conflict, no *)
(* rename, and no promotion that the kernel refuses.                       *)
LEMMA NoConflict ==
  ASSUME PlainRun, Progress, ~NameClash, Top.pc = "resolve", NEW i \in Top.todo
  PROVE  ~Conflict(i)
<1>1. SUFFICES ASSUME Conflict(i) PROVE FALSE
  OBVIOUS
<1>2. ~IsSnapshot(Node) /\ Top.clone # NoClone
  BY TopActive DEF ChoseClone, Node
<1>3. CloneOf(Top.clone, Node.of) /\ Inner(Node.of)
  BY <1>2, CloneOutside, TopActive
<1>4. i \in Ids(view) /\ view.snap[i].of = Node.of
  BY <1>2, TopActive DEF Phase, Resolving, Own, SnapsOf
<1>5. PICK j \in Ids(view) : view.snap[j].of = Top.clone /\ view.snap[j].name = view.snap[i].name
  BY <1>1, TopActive DEF Conflict, Progress, NamesSeen, NamesOf, SnapsOf
<1> QED BY <1>3, <1>4, <1>5 DEF NameClash

(* What the clone has besides what was promoted to it was its own.         *)
LEMMA CloneNames ==
  ASSUME PlainRun, Top.clone # NoClone, \A i \in Own(Node.of) : ns.snap[i].of = Node.of,
         NEW j \in SnapsOf(ns, Top.clone)
  PROVE  j \in SnapsOf(view, Top.clone)
<1>1. SnapsLeft /\ CloneOf(Top.clone, Node.of) /\ Top.clone # Node.of
  BY TopActive, CloneOutside
<1>2. j \in Ids(ns) /\ ns.snap[j].of = Top.clone /\ j \in Ids(view)
  BY <1>1 DEF SnapsOf, SnapsLeft
<1>3. CASE view.snap[j].of = Top.clone
  BY <1>2, <1>3 DEF SnapsOf
<1>4. CASE CloneOf(Top.clone, view.snap[j].of)
  <2>1. view.snap[j].of = Node.of
    BY <1>1, <1>4, OneOrigin
  <2>2. j \in Own(Node.of)
    BY <1>2, <2>1 DEF Own, SnapsOf
  <2> QED BY <1>1, <1>2, <2>2
<1> QED BY <1>1, <1>2, <1>3, <1>4 DEF SnapsLeft

(* The kernel lets the clone be promoted: no name that moves is taken.     *)
LEMMA MayPromote ==
  ASSUME PlainRun, Progress, ~NameClash, Top.pc = "resolve", Top.todo = {}
  PROVE  CanPromote(ns, Top.clone)
<1>0. PICK f, c : f = Node.of /\ c = Top.clone
  OBVIOUS
<1>1. ~IsSnapshot(Node) /\ Top.clone # NoClone
  BY TopActive DEF ChoseClone, Node
<1>2. IInv /\ ~InnerClone /\ SnapsLeft /\ FsLeft /\ Inner(f) /\ CloneOf(c, f)
  BY <1>0, <1>1, TopActive, CloneOutside
<1>3. /\ c \in FSet(ns) /\ ns.fs[c].origin # NoSnap
      /\ ns.snap[ns.fs[c].origin].of = f
  BY <1>0, TopActive DEF LInv, OwnClone
<1>4. \A i \in Own(f) : ns.snap[i].of = f
  BY <1>0, <1>1, TopActive DEF Phase, Resolving
<1>5. ASSUME NEW i \in Shared(ns, c), NEW j \in Holding(ns, c, ns.snap[i].name)
      PROVE  FALSE
  <2>1. i \in Ids(ns) /\ ns.snap[i].of = f /\ j \in SnapsOf(ns, c) /\ j \in Ids(ns)
        /\ ns.snap[j].name = ns.snap[i].name
    BY <1>3, <1>5 DEF Shared, Holding, SnapsOf
  <2>2. i \in Ids(view) /\ view.snap[i].of = f
    BY <1>2, <2>1, InnerOwn DEF Own, SnapsOf
  <2>3. j \in Ids(view) /\ view.snap[j].of = c
    BY <1>0, <1>1, <1>4, <2>1, CloneNames DEF SnapsOf
  <2>4. view.snap[i].name = view.snap[j].name
    BY <2>1 DEF Progress, NamesKept
  <2> QED BY <1>2, <2>2, <2>3, <2>4 DEF NameClash
<1> QED BY <1>0, <1>3, <1>5 DEF CanPromote

(* When a filesystem's children are looped over it is empty, and nothing   *)
(* depends on a snapshot of it.                                            *)
LEMMA MayDestroy ==
  ASSUME PlainRun, Progress, Top.pc = "children", Top.kids = {}
  PROVE  CanDestroyNode
<1>0. PICK f : f = Node.of
  OBVIOUS
<1>1. CASE IsSnapshot(Node)
  <2>1. Unclaimed(f)
    <3>1. 2 \in 2..Len(stack) /\ stack[2].node.of = f
      BY <1>0, <1>1, SnapshotBelow DEF FsNode
    <3>2. Emptying(stack[2], stack[2].node.of)
      BY <3>1, Waiting
    <3> QED BY <3>1, <3>2 DEF Emptying
  <2> QED BY <1>0, <1>1, <2>1 DEF CanDestroyNode, CanDestroySnap, Unclaimed, Holding
<1>2. CASE ~IsSnapshot(Node)
  <2>1. IInv /\ ~InnerClone /\ SnapsLeft /\ FsLeft /\ Inner(f)
    BY <1>0, TopActive
  <2>2. \A d \in Children(view, Node) : Done(d)
    <3>1. Looped(1) /\ Top = stack[1] /\ Node = stack[1].node
      BY TopActive DEF Progress
    <3> QED BY <3>1 DEF Looped
  <2>3. ASSUME NEW g \in ChildFs(ns, f) PROVE FALSE
    <3>1. g \in FSet(ns) /\ g \in FSet(view) /\ IsChild(g, f)
      BY <2>1 DEF ChildFs, FsLeft
    <3>2. FsNode(g) \in Children(view, Node)
      BY <1>0, <1>2, <3>1 DEF Children, ChildFs
    <3>3. ~IsSnapshot(FsNode(g)) /\ FsNode(g).of = g
      BY DEF FsNode, IsSnapshot
    <3> QED BY <2>2, <3>1, <3>2, <3>3 DEF Done
  <2>4. ASSUME NEW i \in SnapsOf(ns, f) PROVE FALSE
    <3>1. i \in SnapsOf(view, f) /\ i # NoSnap
      BY <2>1, InnerOwn, Spaces DEF SnapsOf, Own
    <3>2. SnapNode(f, i) \in Children(view, Node)
      BY <1>0, <1>2, <3>1 DEF Children
    <3>3. IsSnapshot(SnapNode(f, i)) /\ SnapNode(f, i).of = f /\ SnapNode(f, i).id = i
      BY <3>1 DEF SnapNode, IsSnapshot
    <3> QED BY <2>2, <3>2, <3>3 DEF Done
  <2> QED BY <1>0, <1>2, <2>3, <2>4 DEF CanDestroyNode, CanDestroyFs
<1> QED BY <1>1, <1>2

(* No libzfs call of the innermost activation is refused.                  *)
LEMMA NotRefused ==
  ASSUME PlainRun, Progress, ~NameClash
  PROVE  ~Refused
<1>1. Top.pc \in {"open", "reopen"} => Top.clone \in FSet(ns)
  BY TopActive, CloneOutside DEF ChoseClone
<1> QED BY <1>1, NoConflict, MayPromote, MayDestroy DEF Refused, At

(* Nothing is renamed without a conflict.                                  *)
LEMMA NamesStay ==
  ASSUME PlainRun, Progress, ~NameClash, Step
  PROVE  NamesKept'
<1>1. UNCHANGED view /\ NamesKept
  BY TopActive, StepKeepsCall DEF Progress
<1>2. SUFFICES ASSUME NEW i \in Ids(ns') PROVE i \in Ids(ns) /\ ns'.snap[i].name = ns.snap[i].name
  BY <1>1 DEF NamesKept, Ids
<1>3. i \in Ids(ns)
  BY <1>2, StepMoves
<1>4. CASE UNCHANGED ns
  BY <1>3, <1>4
<1>5. CASE PromoteClone
  BY <1>3, <1>5, PromoteEffect
<1>6. CASE ns' = DestroyFs(ns, Node.of)
  BY <1>3, <1>6 DEF DestroyFs
<1>7. ASSUME NEW h, NEW n, ns' = DestroySnap(ns, h, n)
      PROVE  ns'.snap[i].name = ns.snap[i].name
  BY <1>2, <1>3, <1>7, IdsAfter, DestroyLeaves
<1>8. CASE \E j \in Top.todo : RenameConflict(j)
  BY <1>8, NoConflict DEF RenameConflict, At
<1>9. CASE DestroyNode
  BY <1>3, <1>6, <1>7, <1>9 DEF DestroyNode
<1>10. CASE \E n \in Top.psnaps : Sweep(n)
  BY <1>3, <1>4, <1>7, <1>10 DEF Sweep
<1>11. CASE \/ Search \/ OpenClone \/ \E j \in Top.todo : KeepName(j)
            \/ \E k \in Top.kids : Descend(k)
            \/ ReopenClone \/ SweepDone \/ FailRefused \/ FailFault
  BY <1>4, <1>11
     DEF Search, OpenClone, KeepName, Descend, ReopenClone, SweepDone, FailRefused, FailFault
<1> QED BY <1>3, <1>5, <1>8, <1>9, <1>10, <1>11 DEF Step

(* What the clone was seen to have is what it had.                         *)
LEMMA NamesOpened ==
  ASSUME PlainRun, Progress, Top.pc = "open"
  PROVE  NamesOf(ns, Top.clone) \subseteq NamesOf(view, Top.clone)
<1>1. ~IsSnapshot(Node) /\ Top.clone # NoClone
  BY TopActive DEF ChoseClone, Node
<1>2. \A i \in Own(Node.of) : ns.snap[i].of = Node.of
  BY <1>1, TopActive DEF Phase, Fresh, Own, SnapsOf
<1>3. ASSUME NEW j \in SnapsOf(ns, Top.clone)
      PROVE  j \in SnapsOf(view, Top.clone) /\ ns.snap[j].name = view.snap[j].name
  <2>1. j \in SnapsOf(view, Top.clone)
    BY <1>1, <1>2, CloneNames
  <2> QED BY <2>1 DEF Progress, NamesKept, SnapsOf
<1> QED BY <1>3 DEF NamesOf

(* What is gone stays gone.                                                *)
LEMMA DoneStays ==
  ASSUME PlainRun, Step, NEW d, Inner(d.of), d.of \in FSet(view), Done(d)
  PROVE  Done(d)'
<1>1. Inner(Node.of) /\ Node.of \in FSet(view) /\ ~InnerClone
  BY TopActive
<1>2. CASE ~IsSnapshot(d)
  BY <1>2, StepMoves DEF Done, FSet
<1>3. CASE IsSnapshot(d)
  <2>1. SUFFICES ASSUME d.id \in Ids(ns'), ns'.snap[d.id].of = d.of PROVE FALSE
    BY <1>3 DEF Done, SnapsOf, Ids
  <2>2. d.id \in Ids(ns) /\ ns.snap[d.id].of # d.of
    BY <1>3, <2>1, StepMoves DEF Done, SnapsOf
  <2>3. CloneOf(d.of, Node.of)
    BY <2>1, <2>2, StepMoves
  <2> QED BY <1>1, <2>3 DEF InnerClone
<1> QED BY <1>2, <1>3

(* The children of a waiting node are in the subtree, as it was opened.    *)
LEMMA ChildInner ==
  ASSUME PlainRun, NEW k \in 1..Len(stack), NEW d \in Children(view, stack[k].node)
  PROVE  Inner(d.of) /\ d.of \in FSet(view)
<1>1. IInv /\ LInv /\ stack[k].node.of \in FSet(view) /\ Inner(stack[k].node.of)
  BY TopActive DEF LInv, Stacked, IInv, FramesInside, FrameInside, InTree, Inner
<1>2. \/ d.of = stack[k].node.of
      \/ d.of \in FSet(view) /\ IsChild(d.of, stack[k].node.of)
  BY <1>1, ChildShape
<1>3. ASSUME d.of \in FSet(view), IsChild(d.of, stack[k].node.of) PROVE Inner(d.of)
  <2>1. FSet(view) \subseteq Paths /\ target \in Paths
    BY <1>1 DEF IInv, TypeOK, IsNamespace
  <2>2. /\ d.of \in Seq(STRING) /\ stack[k].node.of \in Seq(STRING) /\ target \in Seq(STRING)
    BY <1>1, <1>3, <2>1
  <2> QED BY <1>1, <1>3, <2>2, UnderTransitive DEF IsChild, Inner
<1> QED BY <1>1, <1>2, <1>3

(* What returns is done.                                                   *)
LEMMA ReturnDone ==
  ASSUME PlainRun, Progress, Step, UNCHANGED <<view, target>>,
         \/ DestroyNode /\ ~(Top.clone # NoClone /\ Top.psnaps # {})
         \/ SweepDone
  PROVE  \A d : d = Node => Done(d)'
<1> SUFFICES ASSUME NEW d, d = Node PROVE Done(d)'
  OBVIOUS
<1>1. CASE ~IsSnapshot(Node)
  <2>1. d.of \notin FSet(ns')
    BY <1>1, ReturnSettled
  <2> QED BY <1>1, <2>1 DEF Done, FSet
<1>2. CASE IsSnapshot(Node)
  <2>1. ns' = DestroySnap(ns, Node.of, NodeName)
    BY <1>2, TopActive DEF ChoseClone, SweepDone, At, DestroyNode, Node
  <2>2. SUFFICES ASSUME d.id \in Ids(ns'), ns'.snap[d.id].of = d.of PROVE FALSE
    BY <1>2 DEF Done, SnapsOf, Ids
  <2>3. d.id \in Ids(ns) /\ d.id \notin Holding(ns, Node.of, NodeName)
    BY <2>1, <2>2, IdsAfter
  <2>4. ns.snap[d.id].of = Node.of
    BY <2>1, <2>2, <2>3, DestroyLeaves
  <2>5. ns.snap[d.id].name = NodeName
    BY <2>3 DEF Progress, NamesKept, NodeName
  <2> QED BY <2>3, <2>4, <2>5 DEF Holding, SnapsOf
<1> QED BY <1>1, <1>2

(* After each step of the innermost activation, a return and a descent,    *)
(* what was looped over is gone.                                           *)
LEMMA LoopedTurned ==
  ASSUME PlainRun, Progress, Step, NEW pc, NEW clone, NEW names, NEW todo, NEW psnaps, NEW kids,
         Turns(pc, clone, names, todo, psnaps, kids), pc = "children" => kids = Children(view, Node)
  PROVE  \A k \in 1..Len(stack') : Looped(k)'
<1>1. /\ Len(stack) \in Nat /\ Len(stack) >= 1 /\ Len(stack') = Len(stack)
      /\ stack'[1].node = Node /\ stack'[1].pc = pc /\ stack'[1].kids = kids
      /\ \A k \in 1..Len(stack) : k # 1 => stack'[k] = stack[k]
  BY DEF Turns
<1>2. UNCHANGED view /\ Node = stack[1].node
  BY TopActive, StepKeepsCall
<1>3. ASSUME NEW k \in 1..Len(stack'), stack'[k].pc = "children", NEW d \in Children(view, stack'[k].node)
      PROVE  d \in stack'[k].kids \/ (k > 1 /\ stack'[k - 1].node = d) \/ Done(d)'
  <2>1. CASE k = 1
    BY <1>1, <1>3, <2>1
  <2>2. CASE k # 1
    <3>1. k \in 1..Len(stack) /\ stack'[k] = stack[k] /\ k > 1 /\ k - 1 \in 1..Len(stack)
      BY <1>1, <2>2
    <3>2. stack'[k - 1].node = stack[k - 1].node
      BY <1>1, <1>2, <3>1
    <3>3. d \in stack[k].kids \/ stack[k - 1].node = d \/ Done(d)
      BY <1>3, <3>1 DEF Progress, Looped
    <3>4. Done(d) => Done(d)'
      BY <1>3, <3>1, ChildInner, DoneStays
    <3> QED BY <3>1, <3>2, <3>3, <3>4
  <2> QED BY <2>1, <2>2
<1> QED BY <1>2, <1>3 DEF Looped

LEMMA LoopedReturned ==
  ASSUME PlainRun, Progress, Step, ReturnNil,
         \/ DestroyNode /\ ~(Top.clone # NoClone /\ Top.psnaps # {})
         \/ SweepDone
  PROVE  \A k \in 1..Len(stack') : Looped(k)'
<1>1. /\ Len(stack) \in Nat /\ Len(stack) >= 1 /\ Len(stack') = Len(stack) - 1
      /\ \A k \in 1..Len(stack') : stack'[k] = stack[k + 1] /\ k + 1 \in 2..Len(stack)
  BY TopActive, Popped
<1>2. UNCHANGED <<view, target>> /\ Node = stack[1].node
  BY TopActive, StepKeepsCall
<1>3. ASSUME NEW k \in 1..Len(stack'), stack'[k].pc = "children", NEW d \in Children(view, stack'[k].node)
      PROVE  d \in stack'[k].kids \/ (k > 1 /\ stack'[k - 1].node = d) \/ Done(d)'
  <2>1. stack'[k] = stack[k + 1] /\ k + 1 \in 1..Len(stack) /\ k + 1 > 1 /\ (k + 1) - 1 = k
    BY <1>1
  <2>2. d \in stack[k + 1].kids \/ stack[k].node = d \/ Done(d)
    BY <1>3, <2>1 DEF Progress, Looped
  <2>3. Done(d) => Done(d)'
    BY <1>3, <2>1, ChildInner, DoneStays
  <2>4. ASSUME stack[k].node = d PROVE (k > 1 /\ stack'[k - 1].node = d) \/ Done(d)'
    <3>1. CASE k = 1
      BY <1>2, <2>4, <3>1, ReturnDone
    <3>2. CASE k # 1
      <4>1. k - 1 \in 1..Len(stack') /\ (k - 1) + 1 = k /\ k > 1
        BY <1>1, <3>2
      <4>2. stack'[k - 1] = stack[k]
        BY <1>1, <4>1
      <4> QED BY <2>4, <4>1, <4>2
    <3> QED BY <3>1, <3>2
  <2> QED BY <2>1, <2>2, <2>3, <2>4
<1> QED BY <1>2, <1>3 DEF Looped

LEMMA LoopedDescended ==
  ASSUME PlainRun, Progress, Step, NEW e \in Top.kids, Descend(e)
  PROVE  \A k \in 1..Len(stack') : Looped(k)'
<1>1. /\ Len(stack) \in Nat /\ Len(stack) >= 1 /\ Len(stack') = Len(stack) + 1
      /\ stack'[1] = Frame(e)
      /\ stack'[2].pc = Top.pc /\ stack'[2].node = Top.node /\ stack'[2].kids = Top.kids \ {e}
      /\ \A k \in 2..Len(stack) : stack'[k + 1] = stack[k]
      /\ \A k \in 1..Len(stack') : k = 1 \/ k = 2 \/ k - 1 \in 2..Len(stack)
  BY TopActive, Pushed
<1>2. /\ UNCHANGED <<ns, view, target>> /\ Top.pc = "children" /\ Top = stack[1] /\ 1 \in 1..Len(stack)
      /\ Frame(e).node = e /\ Frame(e).pc = "search" /\ Node = Top.node
  BY TopActive, StepKeepsCall DEF Descend, At, Frame
<1>3. ASSUME NEW k \in 1..Len(stack'), stack'[k].pc = "children", NEW d \in Children(view, stack'[k].node)
      PROVE  d \in stack'[k].kids \/ (k > 1 /\ stack'[k - 1].node = d) \/ Done(d)'
  <2>1. CASE k = 1
    BY <1>1, <1>2, <1>3, <2>1
  <2>2. CASE k = 2
    <3>1. d \in Children(view, stack[1].node)
      BY <1>1, <1>2, <1>3, <2>2
    <3>2. d \in Top.kids \/ Done(d)
      BY <1>2, <3>1 DEF Progress, Looped
    <3>3. Done(d) => Done(d)'
      BY <1>2, <3>1, ChildInner, DoneStays
    <3>4. stack'[k - 1].node = e /\ k > 1
      BY <1>1, <1>2, <2>2
    <3> QED BY <1>1, <2>2, <3>2, <3>3, <3>4
  <2>3. CASE k - 1 \in 2..Len(stack)
    <3>1. /\ k - 1 \in 1..Len(stack) /\ (k - 1) + 1 = k /\ k - 1 > 1 /\ k > 1
          /\ (k - 1) - 1 \in 1..Len(stack)
      BY <1>1, <2>3
    <3>2. stack'[k] = stack[k - 1]
      BY <1>1, <2>3, <3>1
    <3>3. stack'[k - 1].node = stack[(k - 1) - 1].node
      <4>1. CASE k - 1 = 2
        <5>1. (k - 1) - 1 = 1
          BY <4>1
        <5> QED BY <1>1, <1>2, <4>1, <5>1
      <4>2. CASE k - 1 # 2
        <5>1. (k - 1) - 1 \in 2..Len(stack) /\ ((k - 1) - 1) + 1 = k - 1
          BY <1>1, <2>3, <4>2
        <5> QED BY <1>1, <5>1
      <4> QED BY <4>1, <4>2
    <3>4. d \in stack[k - 1].kids \/ stack[(k - 1) - 1].node = d \/ Done(d)
      BY <1>3, <3>1, <3>2 DEF Progress, Looped
    <3>5. Done(d) => Done(d)'
      BY <1>3, <3>1, <3>2, ChildInner, DoneStays
    <3> QED BY <3>1, <3>2, <3>3, <3>4, <3>5
  <2> QED BY <1>1, <2>1, <2>2, <2>3
<1> QED BY <1>2, <1>3 DEF Looped

(* Together: every step keeps the names and the progress of the loops.     *)
LEMMA ProgressStep ==
  ASSUME PlainRun, Progress, ~NameClash, Step, status' = "running"
  PROVE  Progress'
<1>1. IInv /\ LInv /\ status = "running" /\ UNCHANGED <<view, target>> /\ stack # <<>>
  BY TopActive, StepKeepsCall
<1>2. NamesKept'
  BY NamesStay
<1>3. ASSUME NEW pc, NEW clone, NEW names, NEW todo, NEW psnaps, NEW kids,
             Turns(pc, clone, names, todo, psnaps, kids), pc = "children" => kids = Children(view, Node),
             pc = "resolve" => names \subseteq NamesOf(view, clone)
      PROVE  Progress'
  <2>1. Top'.pc = pc /\ Top'.clone = clone /\ Top'.names = names
    BY <1>3 DEF Turns, Top
  <2>2. NamesSeen'
    BY <1>1, <1>3, <2>1 DEF NamesSeen
  <2> QED BY <1>2, <1>3, <2>2, LoopedTurned DEF Progress
<1>4. ASSUME ReturnNil,
             \/ DestroyNode /\ ~(Top.clone # NoClone /\ Top.psnaps # {})
             \/ SweepDone
      PROVE  Progress'
  <2>1. /\ Len(stack) \in Nat /\ Len(stack) >= 1 /\ Len(stack') = Len(stack) - 1
        /\ \A k \in 1..Len(stack') : stack'[k] = stack[k + 1] /\ k + 1 \in 2..Len(stack)
    BY <1>1, <1>4, Popped
  <2>2. stack' \in Seq(Frames)
    BY <1>1, <1>4, ReturnInside
  <2>3. ASSUME stack' # <<>> PROVE Top'.pc = "children"
    <3>1. 1 \in 1..Len(stack')
      BY <2>2, <2>3
    <3>2. stack'[1].pc = "children"
      BY <1>1, <2>1, <3>1 DEF LInv, Stacked
    <3> QED BY <3>2 DEF Top
  <2>4. NamesSeen'
    BY <2>3 DEF NamesSeen
  <2> QED BY <1>2, <1>4, <2>4, LoopedReturned DEF Progress
<1>5. CASE Search
  BY <1>1, <1>3, <1>5, SearchTurns
<1>6. CASE OpenClone
  <2>1. Turns("resolve", Top.clone, NamesOf(ns, Top.clone), Snapshots(view, Node), Top.psnaps, Top.kids)
    BY <1>1, <1>6, OpenTurns
  <2>2. NamesOf(ns, Top.clone) \subseteq NamesOf(view, Top.clone)
    BY <1>6, NamesOpened DEF OpenClone, At
  <2> QED BY <1>3, <2>1, <2>2
<1>7. ASSUME NEW i \in Top.todo, KeepName(i) \/ RenameConflict(i) PROVE Progress'
  <2>1. PICK n \in Names : Listed(i, n)
    BY <1>1, <1>7, NewNames DEF KeepName, RenameConflict
  <2>2. Turns("resolve", Top.clone, Top.names, Top.todo \ {i}, Top.psnaps \cup {n}, Top.kids)
    BY <1>1, <2>1, ListedTurns
  <2>3. Top.names \subseteq NamesOf(view, Top.clone)
    BY <1>1, <1>7 DEF KeepName, RenameConflict, At, Progress, NamesSeen
  <2> QED BY <1>3, <2>2, <2>3
<1>8. CASE PromoteClone
  <2>1. Turns("children", Top.clone, Top.names, Top.todo, Top.psnaps, Children(view, Node))
    BY <1>1, <1>8, PromoteTurns
  <2> QED BY <1>3, <2>1
<1>9. ASSUME NEW e \in Top.kids, Descend(e) PROVE Progress'
  <2>1. Top'.pc = "search"
    <3>1. Top' = Frame(e)
      BY <1>1, <1>9, Pushed DEF Top
    <3> QED BY <3>1 DEF Frame
  <2>2. NamesSeen'
    BY <2>1 DEF NamesSeen
  <2> QED BY <1>2, <1>9, <2>2, LoopedDescended DEF Progress
<1>10. CASE DestroyNode
  <2>1. ASSUME Turns("reopen", Top.clone, Top.names, Top.todo, Top.psnaps, Top.kids) PROVE Progress'
    BY <1>3, <2>1
  <2> QED BY <1>1, <1>4, <1>10, <2>1, DestroyTurns
<1>11. CASE ReopenClone
  <2>1. Turns("sweep", Top.clone, NamesOf(ns, Top.clone), Top.todo, Top.psnaps, Top.kids)
    BY <1>1, <1>11, ReopenTurns
  <2> QED BY <1>3, <2>1
<1>12. ASSUME NEW n \in Top.psnaps, Sweep(n) PROVE Progress'
  <2>1. Turns("sweep", Top.clone, Top.names, Top.todo, Top.psnaps \ {n}, Top.kids)
    BY <1>1, <1>12, SweepTurns
  <2> QED BY <1>3, <2>1
<1>13. CASE SweepDone
  BY <1>4, <1>13 DEF SweepDone
<1>14. CASE FailRefused \/ FailFault
  BY <1>14 DEF FailRefused, FailFault, Abort
<1> QED BY <1>5, <1>6, <1>7, <1>8, <1>9, <1>10, <1>11, <1>12, <1>13, <1>14 DEF Step

(* A call none of whose steps is refused or fails has no error.            *)
LEMMA NoError ==
  ASSUME PlainRun, Progress, ~NameClash, Step, UNCHANGED faults
  PROVE  status' # "error"
<1>1. IInv /\ status = "running" /\ faults \in Nat
  BY TopActive DEF IInv, TypeOK
<1>2. ~FailRefused
  BY NotRefused DEF FailRefused
<1>3. ~FailFault
  <2>1. faults' # faults + 1
    BY <1>1
  <2> QED BY <2>1 DEF FailFault
<1>4. ReturnNil => status' # "error"
  BY DEF ReturnNil
<1>5. CASE status' = "running"
  BY <1>5
<1> QED BY <1>1, <1>2, <1>3, <1>4 DEF Step, Search, OpenClone, KeepName, RenameConflict, PromoteClone,
        Descend, DestroyNode, ReopenClone, Sweep, SweepDone, callVars

LEMMA InitPInv == Init => PInv
  BY DEF Init, PInv, QuietSucceeds

LEMMA NextPInv == IInv /\ GInv /\ UInv /\ LInv /\ OInv /\ PInv /\ [Next]_vars => PInv'
<1> SUFFICES ASSUME IInv, GInv, UInv, LInv, OInv, PInv, [Next]_vars PROVE PInv'
  OBVIOUS
<1>1. CASE Client
  <2>1. CASE status = "idle"
    <3>1. status' = "idle"
      BY <1>1, <2>1 DEF Client, DatasetCreate, DatasetSnapshot, Clone, ClientPromote, clientVars
    <3> QED BY <3>1 DEF PInv, QuietSucceeds
  <2>2. CASE status # "idle"
    <3>1. quiet' = FALSE
      BY <1>1, <2>2 DEF Client, DatasetCreate, DatasetSnapshot, Clone, ClientPromote, Noticed
    <3> QED BY <3>1 DEF PInv, QuietSucceeds, PlainCall
  <2> QED BY <2>1, <2>2
<1>2. ASSUME NEW f \in Targets, Begin(f) PROVE PInv'
  <2>1. /\ status' = "running" /\ view' = ns /\ ns' = ns
        /\ stack' = <<Frame(FsNode(f))>>
    BY <1>2 DEF Begin
  <2>2. /\ Len(stack') = 1 /\ stack'[1] = Frame(FsNode(f)) /\ Top' = Frame(FsNode(f))
        /\ Frame(FsNode(f)).pc = "search"
    BY <2>1 DEF Top, Frame
  <2>3. NamesKept' /\ NamesSeen'
    BY <2>1, <2>2 DEF NamesKept, NamesSeen
  <2>4. ASSUME NEW k \in 1..Len(stack') PROVE Looped(k)'
    <3>1. k = 1
      BY <2>2
    <3> QED BY <2>2, <3>1 DEF Looped
  <2> QED BY <2>1, <2>3, <2>4 DEF PInv, Progress, QuietSucceeds
<1>3. CASE Collect
  BY <1>3 DEF Collect, PInv, QuietSucceeds
<1>4. CASE UNCHANGED vars
  <2>1. UNCHANGED <<ns, view, target, stack, status, quiet, faults>>
    BY <1>4 DEF vars
  <2>2. (PlainCall' <=> PlainCall) /\ (NameClash' <=> NameClash)
    BY <2>1 DEF PlainCall, InnerClone, HiddenClone, NameClash, CloneOf, Inner
  <2>3. Progress => Progress'
    BY <2>1 DEF Progress, NamesKept, NamesSeen, Looped, Done, Top
  <2> QED BY <2>1, <2>2, <2>3 DEF PInv, QuietSucceeds
<1>5. CASE status = "running" /\ Step
  <2>1. SUFFICES ASSUME PlainCall', ~NameClash'
                 PROVE  (status' = "running" => Progress') /\ status' # "error"
    BY DEF PInv, QuietSucceeds
  <2>2. PlainCall /\ ~NameClash /\ UNCHANGED faults
    BY <1>5, <2>1, PlainBefore
  <2>3. PlainRun /\ Progress
    BY <1>5, <2>2, PlainRunning DEF PInv
  <2> QED BY <1>5, <2>2, <2>3, ProgressStep, NoError
<1> QED BY <1>1, <1>2, <1>3, <1>4, <1>5 DEF Next

(* On a pool without inner and hidden clones, on which no snapshot of the  *)
(* subtree shares its name with one of its clones, DestroyPromote returns  *)
(* an error only if a libzfs call fails on its own account or a client     *)
(* acts: every promotion and every destroy (zfs.go:743-760) meets a pool   *)
(* that the kernel lets it change.                                         *)
THEOREM Succeeds == Spec => []QuietSucceeds
<1>1. PInv => QuietSucceeds
  BY DEF PInv
<1> QED BY InitIInv, NextIInv, InitGInv, NextGInv, InitUInv, NextUInv, InitLInv, NextLInv,
           InitOInv, NextOInv, InitPInv, NextPInv, <1>1, PTL DEF Spec
=============================================================================
