--------------------------- MODULE DestroyPromote ---------------------------
(***************************************************************************)
(* Dataset.DestroyPromote (zfs.go) at the granularity of its libzfs calls. *)
(*                                                                         *)
(* Clients build a namespace with the API's own operations; then one       *)
(* goroutine opens a filesystem and calls DestroyPromote on it.  The       *)
(* recursion is an explicit stack of frames, one per activation; every     *)
(* frame works from the dataset tree as it was opened (view), while the    *)
(* namespace changes under it, by its own promotions and, when Racing, by  *)
(* the clients.                                                            *)
(***************************************************************************)
EXTENDS ZfsNamespace, FiniteSets

CONSTANTS
  Paths,      \* filesystem paths that may exist
  Pool,       \* the path of the pool's root filesystem
  Targets,    \* datasets DestroyPromote is called on
  SnapNames,  \* names clients give to snapshots
  MaxTxg,     \* bound: creations of datasets and snapshots
  MaxCalls,   \* bound: DestroyPromote calls in a behaviour
  MaxFaults,  \* bound: libzfs calls that fail for a reason of their own
  Racing      \* TRUE iff clients act while a call runs

ASSUME PathsAssumption ==
  /\ Pool \in Paths
  /\ Targets \subseteq Paths \ {Pool}
  /\ \A p \in Paths : p \in Seq(STRING) /\ p # <<>>
  /\ SnapNames \subseteq Seq(STRING)

ASSUME BoundsAssumption ==
  /\ MaxTxg \in Nat
  /\ MaxCalls \in Nat
  /\ MaxFaults \in Nat
  /\ Racing \in BOOLEAN

VARIABLES
  ns,       \* the pool's namespace
  txg,      \* the last transaction group used
  status,   \* of the call: "idle", "running", "nil" or "error"
  target,   \* path of the dataset the call destroys
  view,     \* the namespace when the target was opened
  foreign,  \* snapshots that filesystems outside the target owned then or took since
  quiet,    \* no client has acted since the target was opened
  stack,    \* activations, innermost first
  calls,    \* DestroyPromote calls so far
  faults    \* injected failures so far

vars == <<ns, txg, status, target, view, foreign, quiet, stack, calls, faults>>
clientVars == <<status, target, view, stack, calls, faults>>
callVars == <<status, target, view, foreign, quiet, calls, txg>>

Empty == [fs |-> [p \in {} |-> 0], snap |-> [i \in {} |-> 0]]
NoClone == <<>>

Init ==
  /\ ns = [fs   |-> [p \in {Pool} |-> [born |-> 0, origin |-> NoSnap]],
           snap |-> [i \in {} |-> 0]]
  /\ txg = 0
  /\ status = "idle"
  /\ target = Pool
  /\ view = Empty
  /\ foreign = {}
  /\ quiet = TRUE
  /\ stack = <<>>
  /\ calls = 0
  /\ faults = 0

-----------------------------------------------------------------------------
(* Clients: the API operations that shape the namespace.                   *)
ClientMayAct ==
  txg < MaxTxg /\ (status = "idle" \/ (Racing /\ status = "running"))

Noticed == quiet' = (quiet /\ status = "idle")

DatasetCreate(f) ==
  /\ ClientMayAct
  /\ CanCreate(ns, f)
  /\ ns' = Create(ns, f, txg + 1, NoSnap)
  /\ txg' = txg + 1
  /\ Noticed
  /\ UNCHANGED <<foreign, clientVars>>

DatasetSnapshot(f, n) ==
  /\ ClientMayAct
  /\ CanSnapshot(ns, f, n)
  /\ ns' = Snapshot(ns, f, n, txg + 1)
  /\ txg' = txg + 1
  /\ foreign' = IF status = "running" /\ ~Under(f, target)
                THEN foreign \cup {txg + 1} ELSE foreign
  /\ Noticed
  /\ UNCHANGED clientVars

Clone(i, f) ==
  /\ ClientMayAct
  /\ i \in Ids(ns) /\ CanCreate(ns, f)
  /\ ns' = Create(ns, f, txg + 1, i)
  /\ txg' = txg + 1
  /\ Noticed
  /\ UNCHANGED <<foreign, clientVars>>

(* Bound: the pool's root filesystem is never made a clone.                *)
ClientPromote(c) ==
  /\ status = "idle"
  /\ CanPromote(ns, c)
  /\ ns.snap[ns.fs[c].origin].of # Pool
  /\ ns' = Promote(ns, c)
  /\ UNCHANGED <<txg, foreign, quiet, clientVars>>

-----------------------------------------------------------------------------
(* The call.                                                               *)
Frame(d) ==
  [node |-> d, pc |-> "search", clone |-> NoClone, names |-> {},
   todo |-> {}, psnaps |-> {}, kids |-> {}]

Top == stack[1]
Node == Top.node
Goto(pc, fr) == stack' = [stack EXCEPT ![1] = [fr EXCEPT !.pc = pc]]
At(pc) == status = "running" /\ Top.pc = pc

Begin(f) ==
  /\ status = "idle"
  /\ calls < MaxCalls
  /\ f \in FSet(ns)
  /\ status' = "running"
  /\ target' = f
  /\ view' = ns
  /\ foreign' = {i \in Ids(ns) : ~Under(ns.snap[i].of, f)}
  /\ quiet' = TRUE
  /\ stack' = <<Frame(FsNode(f))>>
  /\ calls' = calls + 1
  /\ UNCHANGED <<ns, txg, faults>>

(* Mutants: the error of one activation stays there, or is lost.           *)
AbortInnermost ==
  /\ status' = "error"
  /\ stack' = Tail(stack)
  /\ UNCHANGED <<target, view, foreign, quiet, calls, txg>>

AbortAsNil ==
  /\ status' = "nil"
  /\ stack' = <<>>
  /\ UNCHANGED <<target, view, foreign, quiet, calls, txg>>

(* An error returns through every activation.                              *)
Abort ==
  /\ status' = "error"
  /\ stack' = <<>>
  /\ UNCHANGED <<target, view, foreign, quiet, calls, txg>>

(* A nil return hands control to the caller's loop over its children.      *)
ReturnNil ==
  /\ stack' = Tail(stack)
  /\ status' = IF Len(stack) = 1 THEN "nil" ELSE "running"
  /\ UNCHANGED <<target, view, foreign, quiet, calls, txg>>

EnterChildren(fr) == Goto("children", [fr EXCEPT !.kids = Children(view, Node)])

(* clones, err = d.Clones(); only clones[0] is used.                       *)
Search ==
  /\ At("search")
  /\ \/ FoundClones(view, Node, ns) = {} /\ EnterChildren(Top)
     \/ \E c \in FSet(ns) :
          /\ IsFirstClone(view, Node, ns, c)
          /\ Goto("open", [Top EXCEPT !.clone = c])
  /\ UNCHANGED <<ns, faults, callVars>>

(* cds, err = DatasetOpen(clones[0]); snaps, err = d.Snapshots().  Of cds  *)
(* only the names of its snapshots are looked at.                          *)
OpenClone ==
  /\ At("open")
  /\ Top.clone \in FSet(ns)
  /\ Goto("resolve", [Top EXCEPT !.names = NamesOf(ns, Top.clone),
                                 !.todo = Snapshots(view, Node)])
  /\ UNCHANGED <<ns, faults, callVars>>

(* One turn of the loop over snaps: rename the snapshot on a conflict.     *)
Conflict(i) == view.snap[i].name \in Top.names
NewName(i) == Append(view.snap[i].name, Base(Node.of))

(* Mutant: all that the clone has is put down for the last loop.           *)
AllListed(i, n) ==
  Goto("resolve", [Top EXCEPT !.todo = @ \ {i}, !.psnaps = @ \cup {n} \cup Top.names])

Listed(i, n) ==
  Goto("resolve", [Top EXCEPT !.todo = @ \ {i}, !.psnaps = @ \cup {n}])

KeepName(i) ==
  /\ At("resolve") /\ i \in Top.todo
  /\ ~Conflict(i)
  /\ Listed(i, view.snap[i].name)
  /\ UNCHANGED <<ns, faults, callVars>>

RenameConflict(i) ==
  /\ At("resolve") /\ i \in Top.todo
  /\ Conflict(i)
  /\ CanRename(ns, Node.of, view.snap[i].name, NewName(i))
  /\ ns' = RenameSnap(ns, Node.of, view.snap[i].name, NewName(i))
  /\ Listed(i, NewName(i))
  /\ UNCHANGED <<faults, callVars>>

(* cds.Promote(), then the loop over d.Children starts.                    *)
PromoteClone ==
  /\ At("resolve") /\ Top.todo = {}
  /\ CanPromote(ns, Top.clone)
  /\ ns' = Promote(ns, Top.clone)
  /\ EnterChildren(Top)
  /\ UNCHANGED <<faults, callVars>>

(* cd.DestroyPromote(): openChildren lists filesystems before snapshots.   *)
Descend(k) ==
  /\ At("children") /\ k \in Top.kids
  /\ IsSnapshot(k) => \A j \in Top.kids : IsSnapshot(j)
  /\ stack' = <<Frame(k)>> \o [stack EXCEPT ![1] = [Top EXCEPT !.kids = @ \ {k}]]
  /\ UNCHANGED <<ns, faults, callVars>>

(* d.Destroy(false), on the name the handle was opened with.               *)
NodeName == view.snap[Node.id].name

CanDestroyNode ==
  IF IsSnapshot(Node) THEN CanDestroySnap(ns, Node.of, NodeName)
                      ELSE CanDestroyFs(ns, Node.of)

DestroyNode ==
  /\ At("children") /\ Top.kids = {}
  /\ CanDestroyNode
  /\ ns' = IF IsSnapshot(Node) THEN DestroySnap(ns, Node.of, NodeName)
                               ELSE DestroyFs(ns, Node.of)
  /\ IF Top.clone # NoClone /\ Top.psnaps # {}
     THEN Goto("reopen", Top) /\ UNCHANGED callVars
     ELSE ReturnNil
  /\ UNCHANGED faults

(* The second DatasetOpen(clones[0]).                                      *)
ReopenClone ==
  /\ At("reopen")
  /\ Top.clone \in FSet(ns)
  /\ Goto("sweep", [Top EXCEPT !.names = NamesOf(ns, Top.clone)])
  /\ UNCHANGED <<ns, faults, callVars>>

(* One turn of the last loop; the result of snap.Destroy is ignored.       *)
Sweep(n) ==
  /\ At("sweep") /\ n \in Top.psnaps
  /\ LET works == n \in Top.names /\ CanDestroySnap(ns, Top.clone, n)
     IN  \/ /\ works
            /\ ns' = DestroySnap(ns, Top.clone, n)
            /\ UNCHANGED faults
         \/ /\ ~works
            /\ UNCHANGED <<ns, faults>>
         \/ /\ works
            /\ faults < MaxFaults
            /\ faults' = faults + 1
            /\ UNCHANGED ns
  /\ Goto("sweep", [Top EXCEPT !.psnaps = @ \ {n}])
  /\ UNCHANGED callVars

(* Mutant: the clone is destroyed where it should be closed.               *)
SweepDoneDestroys ==
  /\ At("sweep") /\ Top.psnaps = {}
  /\ CanDestroyFs(ns, Top.clone)
  /\ ns' = DestroyFs(ns, Top.clone)
  /\ ReturnNil
  /\ UNCHANGED faults

SweepDone ==
  /\ At("sweep") /\ Top.psnaps = {}
  /\ ReturnNil
  /\ UNCHANGED <<ns, faults>>

(* Mutant: an error of the last loop's snap.Destroy is returned.           *)
RefusedInSweep ==
  /\ At("sweep")
  /\ \E n \in Top.psnaps \cap Top.names : ~CanDestroySnap(ns, Top.clone, n)

(* A libzfs call whose precondition does not hold returns an error.        *)
Refused ==
  \/ At("open") /\ Top.clone \notin FSet(ns)
  \/ /\ At("resolve")
     /\ \E i \in Top.todo :
          Conflict(i) /\ ~CanRename(ns, Node.of, view.snap[i].name, NewName(i))
  \/ At("resolve") /\ Top.todo = {} /\ ~CanPromote(ns, Top.clone)
  \/ At("children") /\ Top.kids = {} /\ ~CanDestroyNode
  \/ At("reopen") /\ Top.clone \notin FSet(ns)

FailRefused == Refused /\ Abort /\ UNCHANGED <<ns, faults>>

(* Any libzfs call whose result is looked at may fail on its own account   *)
(* (busy, held, no permission, I/O).                                       *)
Calling ==
  \/ At("search") \/ At("open") \/ At("reopen")
  \/ At("resolve") /\ (Top.todo = {} \/ \E i \in Top.todo : Conflict(i))
  \/ At("children") /\ Top.kids = {}

FailFault ==
  /\ faults < MaxFaults
  /\ Calling
  /\ faults' = faults + 1
  /\ Abort
  /\ UNCHANGED ns

(* The caller looks at the result and closes the dataset.                  *)
Collect ==
  /\ status \in {"nil", "error"}
  /\ calls < MaxCalls
  /\ status' = "idle"
  /\ view' = Empty
  /\ foreign' = {}
  /\ quiet' = TRUE
  /\ target' = Pool
  /\ UNCHANGED <<ns, txg, stack, calls, faults>>

Client ==
  \/ \E f \in Paths : DatasetCreate(f)
  \/ \E f \in FSet(ns), n \in SnapNames : DatasetSnapshot(f, n)
  \/ \E i \in Ids(ns), f \in Paths : Clone(i, f)
  \/ \E c \in FSet(ns) : ClientPromote(c)

Step ==
  \/ Search
  \/ OpenClone
  \/ \E i \in Top.todo : KeepName(i) \/ RenameConflict(i)
  \/ PromoteClone
  \/ \E k \in Top.kids : Descend(k)
  \/ DestroyNode
  \/ ReopenClone
  \/ \E n \in Top.psnaps : Sweep(n)
  \/ SweepDone
  \/ FailRefused
  \/ FailFault

Next ==
  \/ Client
  \/ \E f \in Targets : Begin(f)
  \/ status = "running" /\ Step
  \/ Collect

Spec == Init /\ [][Next]_vars

-----------------------------------------------------------------------------
Names == Seq(STRING)
Txgs == 1..MaxTxg
Nodes == [of : Paths, id : 0..MaxTxg]
Pcs == {"search", "open", "resolve", "children", "reopen", "sweep"}

IsNamespace(n) ==
  /\ n = [fs |-> n.fs, snap |-> n.snap]
  /\ FSet(n) \subseteq Paths /\ Ids(n) \subseteq Txgs
  /\ n.fs \in [FSet(n) -> [born : 0..MaxTxg, origin : 0..MaxTxg]]
  /\ n.snap \in [Ids(n) -> [of : Paths, name : Names]]

Frames ==
  [node : Nodes, pc : Pcs, clone : Paths \cup {NoClone}, names : SUBSET Names,
   todo : SUBSET Txgs, psnaps : SUBSET Names, kids : SUBSET Nodes]

(* No snapshot without its filesystem, no clone without its origin.        *)
Anchored(n) ==
  /\ \A i \in Ids(n) : n.snap[i].of \in FSet(n)
  /\ \A f \in FSet(n) : n.fs[f].origin \in Ids(n) \cup {NoSnap}

(* Every variable stays in its range, and the references of a namespace    *)
(* resolve: the code that reads a clone's origin or a snapshot's           *)
(* filesystem (zfs.go:819-833) always finds it.                            *)
TypeOK ==
  /\ IsNamespace(ns) /\ Anchored(ns)
  /\ IsNamespace(view) /\ Anchored(view)
  /\ txg \in 0..MaxTxg
  /\ status \in {"idle", "running", "nil", "error"}
  /\ target \in Paths
  /\ foreign \subseteq Txgs /\ quiet \in BOOLEAN
  /\ stack \in Seq(Frames)
  /\ (status = "running") <=> (stack # <<>>)
  /\ calls \in 0..MaxCalls /\ faults \in 0..MaxFaults

(* Every activation, at any depth and after any promotion, works on nodes  *)
(* of the tree that was opened for the target.                             *)
InTree(d) == Under(d.of, target) /\ (IsSnapshot(d) => d.id \in Ids(view))

FrameInside(fr) ==
  InTree(fr.node) /\ fr.todo \subseteq Ids(view) /\ \A d \in fr.kids : InTree(d)

FramesInside == \A k \in 1..Len(stack) : FrameInside(stack[k])

(* "it will not destroy any dependent clones" (zfs.go:693): whatever the   *)
(* clones, the failures and the other clients, a filesystem outside the    *)
(* target's subtree when the target was opened outlives the call.          *)
Survives(f) == f \in FSet(ns) /\ ns.fs[f].born = view.fs[f].born

OutsideUntouched ==
  \A f \in FSet(view) : Under(f, target) \/ Survives(f)

(* The final loop destroys snapshots of the promoted clone by name: no     *)
(* snapshot that belonged to a filesystem outside the subtree is destroyed *)
(* or renamed by the call.                                                 *)
ForeignSnapsKept ==
  \A i \in foreign :
    /\ i \in Ids(ns)
    /\ i \in Ids(view) => ns.snap[i] = view.snap[i]

(* A nil error means that the target and all that was opened below it is   *)
(* gone (the caller of DestroyPromote closes its handles on nil).          *)
NilMeansGone ==
  status = "nil" =>
    \A f \in FSet(view) : Under(f, target) => ~Survives(f)

-----------------------------------------------------------------------------
(* Shapes of the opened pool.                                              *)
Inner(f) == Under(f, target)
CloneOf(c, f) ==
  view.fs[c].origin # NoSnap /\ view.snap[view.fs[c].origin].of = f

(* Some clone below the target was cloned below the target.                *)
InnerClone ==
  \E c, f \in FSet(view) : Inner(c) /\ Inner(f) /\ CloneOf(c, f)

(* Some clone lives under a clone of something else.                       *)
HiddenClone ==
  \E c, f \in FSet(view) :
    /\ Inner(f) /\ ~Inner(c) /\ CloneOf(c, f)
    /\ \E g \in FSet(view) : /\ Under(c, g) /\ c # g
                             /\ view.fs[g].origin # NoSnap
                             /\ ~CloneOf(g, f)

(* Some snapshot below the target has the name of a snapshot of a clone.   *)
NameClash ==
  \E i, j \in Ids(view) :
    LET f == view.snap[i].of
        c == view.snap[j].of
    IN  /\ Inner(f) /\ CloneOf(c, f)
        /\ view.snap[i].name = view.snap[j].name

(* The target goes last (zfs.go:749): after an error that no injected      *)
(* fault explains it is still there, so that the caller can open it again  *)
(* and retry.  Left out are calls during which clients act, and inner      *)
(* clones: the second open of a promoted clone that the call itself        *)
(* destroyed fails after the target is gone.                               *)
QuietErrorLeavesTarget ==
  (status = "error" /\ quiet /\ faults = 0 /\ ~InnerClone) => target \in FSet(ns)

(* The name that conflict resolution makes up is in use outside the        *)
(* subtree.                                                                *)
SuffixClash ==
  \E i, j \in Ids(view) :
    /\ Inner(view.snap[i].of) /\ ~Inner(view.snap[j].of)
    /\ view.snap[j].name = Append(view.snap[i].name, Base(view.snap[i].of))

(* The last loop of DestroyPromote (zfs.go:761) finds the snapshots it     *)
(* destroys by name in the promoted clone: while no client acts it takes   *)
(* none that was not the target's, whatever fails, if no made-up name is   *)
(* in use.                                                                 *)
QuietKeepsForeignSnaps == (quiet /\ ~SuffixClash) => ForeignSnapsKept

(* The pools on which DestroyPromote does what its comment says: no inner  *)
(* clone and no hidden clone.  An inner clone may leave the subtree's      *)
(* sweep too early; a hidden clone may come into sight once the clone that *)
(* hid it is promoted, and is then promoted by a snapshot's activation,    *)
(* which sweeps nothing.                                                   *)
PlainCall == quiet /\ faults = 0 /\ ~InnerClone /\ ~HiddenClone

(* "it will destroy all snaphsot of destroyed dataset without dependencies *)
(* otherwise snapshot will move to promoted clone" (zfs.go:699-700): after *)
(* a nil error a snapshot of the subtree exists only if a clone needs it.  *)
NoOrphans == \A i \in Ids(view) \ foreign : i \in Ids(ns) => ClonesOf(ns, i) # {}

QuietLeavesNoOrphans == (status = "nil" /\ PlainCall) => NoOrphans

(* DestroyPromote "let[s] you remove dataset regardless of its cloned      *)
(* dependencies" (zfs.go:695-697): without an error on a plain pool where  *)
(* no clone has a snapshot of the same name.                               *)
QuietSucceeds == (status = "error" /\ PlainCall) => NameClash
=============================================================================
