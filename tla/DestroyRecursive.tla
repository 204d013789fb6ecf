-------------------------- MODULE DestroyRecursive --------------------------
(***************************************************************************)
(* Dataset.DestroyRecursive (zfs.go), on a filesystem and on a snapshot.   *)
(*                                                                         *)
(* A filesystem is destroyed after the children it was opened with; each   *)
(* of its snapshots is destroyed by the snapshot branch.  That branch      *)
(* opens the snapshot's filesystem afresh and first destroys the snapshot  *)
(* of the same name of each filesystem below it.  The activations are a    *)
(* stack; the clients go on using the pool while the call runs.            *)
(***************************************************************************)
EXTENDS ZfsNamespace, FiniteSets

CONSTANTS
  Pools,      \* namespaces the call may find
  Paths,      \* filesystem paths that may exist
  SnapNames,  \* names of snapshots
  Targets,    \* dataset nodes the call is made on
  FirstTxg,   \* transaction group the call begins in
  MaxTxg,     \* bound: the last transaction group
  MaxFaults   \* bound: Destroy calls that fail for a reason of their own

(* A node is a filesystem, or the snapshot of that name of a filesystem.   *)
NoName == <<>>
Nodes == [of : Paths, name : SnapNames \cup {NoName}]
Fs(f) == [of |-> f, name |-> NoName]
Snap(f, n) == [of |-> f, name |-> n]
IsSnap(d) == d.name # NoName

(* What the kernel keeps so: the filesystems above a filesystem and the    *)
(* filesystem of a snapshot exist, and names in a filesystem are unique.   *)
IsPool(n) ==
  /\ n = [fs |-> n.fs, snap |-> n.snap]
  /\ FSet(n) \subseteq Paths /\ Ids(n) \subseteq Nat
  /\ n.fs \in [FSet(n) -> [born : Nat, origin : Nat]]
  /\ n.snap \in [Ids(n) -> [of : FSet(n), name : SnapNames]]
  /\ \A f \in FSet(n) : \A k \in 1..Len(f) : SubSeq(f, 1, k) \in FSet(n)
  /\ \A i, j \in Ids(n) : n.snap[i] = n.snap[j] => i = j

UpTo(n, t) == (\A i \in Ids(n) : i <= t) /\ (\A f \in FSet(n) : n.fs[f].born <= t)

ASSUME BoundsAssumption == FirstTxg \in Nat /\ MaxTxg \in Nat /\ FirstTxg <= MaxTxg /\ MaxFaults \in Nat
ASSUME NamesAssumption ==
  /\ \A p \in Paths : p \in Seq(STRING) /\ p # <<>>
  /\ NoName \notin SnapNames
  /\ Targets \subseteq Nodes
ASSUME PoolsAssumption == \A n \in Pools : IsPool(n) /\ UpTo(n, FirstTxg)

VARIABLES
  ns,      \* the pool's namespace
  txg,     \* the last transaction group used
  target,  \* the node the call was made on
  view,    \* the namespace when it was opened
  status,  \* of the call: "running", "nil" or "error"
  stack,   \* activations, innermost first
  faults   \* injected failures so far

vars == <<ns, txg, target, view, status, stack, faults>>
call == <<target, view, txg>>

Exists(n, d) == d.of \in FSet(n) /\ (IsSnap(d) => Holding(n, d.of, d.name) # {})

Frame(d) == [node |-> d, pc |-> "enter", kids |-> {}]

(* DatasetOpen, then DestroyRecursive.                                     *)
Init ==
  /\ ns \in Pools
  /\ txg = FirstTxg
  /\ target \in {d \in Targets : Exists(ns, d)}
  /\ view = ns
  /\ status = "running"
  /\ stack = <<Frame(target)>>
  /\ faults = 0

-----------------------------------------------------------------------------
(* Another client of the pool.                                             *)
ClientActs(new) ==
  /\ status = "running" /\ txg < MaxTxg
  /\ ns' = new
  /\ txg' = txg + 1
  /\ UNCHANGED <<target, view, status, stack, faults>>

DatasetCreate(f) == CanCreate(ns, f) /\ ClientActs(Create(ns, f, txg + 1, NoSnap))
DatasetSnapshot(f, n) == CanSnapshot(ns, f, n) /\ ClientActs(Snapshot(ns, f, n, txg + 1))
Clone(i, f) == CanCreate(ns, f) /\ ClientActs(Create(ns, f, txg + 1, i))

-----------------------------------------------------------------------------
Node == stack[1].node
Running(pc) == status = "running" /\ stack[1].pc = pc

Entered(kids) == stack' = [stack EXCEPT ![1].pc = "children", ![1].kids = kids]

Return(outcome) ==
  /\ stack' = IF outcome = "error" THEN <<>> ELSE Tail(stack)
  /\ status' = IF outcome = "nil" /\ Len(stack) > 1 THEN "running" ELSE outcome

(* Mutant: the snapshots are left out.                                     *)
TreeKidsFs(f) == {Fs(g) : g \in ChildFs(view, f)}

(* The children d was opened with.                                         *)
TreeKids(f) ==
  {Fs(g) : g \in ChildFs(view, f)} \cup {Snap(f, n) : n \in NamesOf(view, f)}

EnterFs ==
  /\ Running("enter") /\ ~IsSnap(Node)
  /\ Entered(TreeKids(Node.of))
  /\ UNCHANGED <<ns, status, faults, call>>

(* Mutant: only the dataset that the call was made on looks below.         *)
SameNameOnce == IF Len(stack) > 1 THEN {} ELSE {Snap(g, Node.name) : g \in ChildFs(ns, Node.of)}

(* parent, err = DatasetOpen(ppath); its snapshots are skipped.            *)
SameName == {Snap(g, Node.name) : g \in ChildFs(ns, Node.of)}

OpenParent ==
  /\ Running("enter") /\ IsSnap(Node)
  /\ Entered(SameName)
  /\ UNCHANGED <<ns, status, faults, call>>

(* Nobody else destroys a filesystem: opening it fails only for a reason   *)
(* of its own.                                                             *)
OpenFails ==
  /\ Running("enter") /\ IsSnap(Node)
  /\ faults < MaxFaults /\ faults' = faults + 1
  /\ Return("error")
  /\ UNCHANGED <<ns, call>>

Rest(k) == [stack EXCEPT ![1].kids = @ \ {k}]

(* c.DestroyRecursive(): filesystems come before snapshots, and the        *)
(* snapshot of a filesystem below is opened first.                         *)
Descend(k) ==
  /\ Running("children") /\ k \in stack[1].kids
  /\ IF IsSnap(Node) THEN Exists(ns, k)
     ELSE IsSnap(k) => \A j \in stack[1].kids : IsSnap(j)
  /\ stack' = <<Frame(k)>> \o Rest(k)
  /\ UNCHANGED <<ns, status, faults, call>>

(* DatasetOpen(path + "@" + snapname) fails, because there is no such      *)
(* snapshot or for any other reason: continue.                             *)
SkipMissing(k) ==
  /\ Running("children") /\ k \in stack[1].kids
  /\ IsSnap(Node)
  /\ \/ ~Exists(ns, k) /\ UNCHANGED faults
     \/ Exists(ns, k) /\ faults < MaxFaults /\ faults' = faults + 1
  /\ stack' = Rest(k)
  /\ UNCHANGED <<ns, status, call>>

(* err = d.Destroy(false)                                                  *)
Destroyable(d) ==
  IF IsSnap(d) THEN CanDestroySnap(ns, d.of, d.name) ELSE CanDestroyFs(ns, d.of)

(* Mutant: the snapshot's name is forgotten.                               *)
DestroyNodeUnnamed ==
  /\ Running("children") /\ stack[1].kids = {}
  /\ Destroyable(Node)
  /\ ns' = IF IsSnap(Node) THEN [ns EXCEPT !.snap = [i \in Ids(ns) \ SnapsOf(ns, Node.of) |-> @[i]]]
                          ELSE DestroyFs(ns, Node.of)
  /\ Return("nil")
  /\ UNCHANGED <<faults, call>>

DestroyNode ==
  /\ Running("children") /\ stack[1].kids = {}
  /\ Destroyable(Node)
  /\ ns' = IF IsSnap(Node) THEN DestroySnap(ns, Node.of, Node.name) ELSE DestroyFs(ns, Node.of)
  /\ Return("nil")
  /\ UNCHANGED <<faults, call>>

DestroyFails ==
  /\ Running("children") /\ stack[1].kids = {}
  /\ \/ ~Destroyable(Node) /\ UNCHANGED faults
     \/ faults < MaxFaults /\ faults' = faults + 1
  /\ Return("error")
  /\ UNCHANGED <<ns, call>>

Client ==
  \/ \E f \in Paths : DatasetCreate(f)
  \/ \E f \in FSet(ns), n \in SnapNames : DatasetSnapshot(f, n)
  \/ \E i \in Ids(ns), f \in Paths : Clone(i, f)

Step ==
  \/ EnterFs \/ OpenParent \/ OpenFails
  \/ \E k \in stack[1].kids : Descend(k) \/ SkipMissing(k)
  \/ DestroyNode \/ DestroyFails

Next == Client \/ (status = "running" /\ Step)

(* The goroutine that made the call is scheduled again.                    *)
Spec == Init /\ [][Next]_vars /\ WF_vars(status = "running" /\ Step)

-----------------------------------------------------------------------------
(* What the call is about: a filesystem with all below it, or the          *)
(* snapshots of one name of a filesystem and of those below it.            *)
Doomed(f) == ~IsSnap(target) /\ Under(f, target.of)
DoomedSnap(i) ==
  /\ Under(view.snap[i].of, target.of)
  /\ IsSnap(target) => view.snap[i].name = target.name

(* With no clone of a snapshot concerned, no failure and no other client,  *)
(* the call succeeds, in whatever order the children come.                 *)
Alone == faults = 0 /\ txg = FirstTxg

CloneFreeSucceeds ==
  (Alone /\ \A i \in Ids(view) : DoomedSnap(i) => ClonesOf(view, i) = {}) => status # "error"

(* "recursively destroy children of dataset and dataset" (zfs.go:246): the *)
(* snapshot branch reaches every filesystem to which an unbroken chain of  *)
(* filesystems with a snapshot of that name leads.  Below a gap the        *)
(* snapshots stay (zfs.go:283).                                            *)
Chained(f) ==
  \A g \in FSet(view) :
    (Under(g, target.of) /\ Under(f, g)) => Holding(view, g, target.name) # {}

ChainGone ==
  (status = "nil" /\ IsSnap(target) /\ Alone) =>
    \A i \in Ids(view) : DoomedSnap(i) /\ Chained(view.snap[i].of) => i \notin Ids(ns)

(* The abstract view: a dataset is a filesystem and its transaction group, *)
(* or a snapshot's; of a snapshot the call promises nothing below a gap.   *)
FsItem(f) == [path |-> f, txg |-> view.fs[f].born]
SnapItem(i) == [path |-> NoName, txg |-> i]
TheItem ==
  IF IsSnap(target) THEN SnapItem(CHOOSE i \in Holding(view, target.of, target.name) : TRUE)
  ELSE FsItem(target.of)

Still ==
  {FsItem(f) : f \in {g \in FSet(view) \cap FSet(ns) : ns.fs[g] = view.fs[g]}}
  \cup {SnapItem(i) : i \in Ids(view) \cap Ids(ns)}
Concerned ==
  {FsItem(f) : f \in {g \in FSet(view) : Doomed(g)}}
  \cup {SnapItem(i) : i \in {j \in Ids(view) : DoomedSnap(j)}}

Abstract == INSTANCE Destruction WITH
  there <- Still, scope <- Concerned, root <- TheItem, outcome <- status,
  whole <- ~IsSnap(target)

(* "recursively destroy children of dataset and dataset" (zfs.go:246) is   *)
(* what the call does, as Destruction states it: each of its steps is a    *)
(* step of that specification or none, and it ends.                        *)
DestroysAsPromised == Abstract!Spec
=============================================================================
