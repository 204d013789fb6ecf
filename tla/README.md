# A verification project for go-libzfs

go-libzfs is a Go library over libzfs. It turns `zfs_handle_t`, `zpool_handle_t`
and nvlists into Go values (`Dataset`, `Pool`, `VDevTree`, `Property`) and builds a
few operations of its own on top of them. This directory holds TLA+ modules that
model these operations, TLC configurations that check them on small instances, and
TLAPS proofs for every instance. File and line references are to `src/`.

## Inventory

| component | state it keeps | operations | interacts with |
|---|---|---|---|
| pool namespace (libzfs and the kernel, external) | filesystems, snapshots, clones and their origins | create, snapshot, clone, promote, rename, destroy (`zfs.c`) | driven by every Dataset method; shared with all other clients of the pool |
| datasets with clones (`zfs.go`, `sort.go`) | the opened tree of a Dataset (`Children`, `Properties`), read once by `DatasetOpen` | `DestroyPromote`, `Clones`, `Snapshots`, `FindSnapshot` | many libzfs calls per operation, each by *name* |
| recursive destroy (`zfs.go`) | the opened tree; below a snapshot, a tree opened afresh at each level | `DestroyRecursive`, `Destroy` | as above; closes the handles of the children it destroyed |
| dataset handles (`zfs.go`, `zfs.c`) | one malloc'ed `dataset_list_t` per dataset, its `closeOnce`, the `list` pointer in each copy of the struct | `DatasetOpen`, `DatasetOpenAll`, `Close`, `DatasetCloseAll`, everything that passes `list` to C | copies share the memory, the `Once` and the array behind `Children` |
| send size (`sendrecv.go`, `common.c`) | descriptor 1 of the process and the C buffer for it, a pipe, a channel, a goroutine | `SendSize` | the process's standard output; a 60 s deadline |
| streams (`sendrecv.go`) | none | `Send`, `SendFrom`, `SendResume`, `Receive`, `ReceiveResumeAbort` | argument checks around one libzfs call each |
| dataset properties (`zfs.go`, `common.go`) | the `Properties` map, `Global.Mtx`, the last error of the one libzfs handle | `ReloadProperties`, `GetProperty`, `SetProperty`, `SetUserProperty`, `LastError` | all goroutines share the libzfs handle, copies of a Dataset the map |
| mounting, holds, rollback (`zfs.go`) | none | `Mount`, `Unmount`, `UnmountAll`, `Hold`, `Release`, `Holds`, `Rollback`, `Rename` | one libzfs call each, `UnmountAll` a loop |
| pool handles (`zpool.go`, `zpool.c`) | one malloc'ed `zpool_list_t` per Pool, chained by `zpool_iter` | `PoolOpen`, `PoolOpenAll`, `PoolCloseAll`, `Close` | `PoolOpenAll` cuts an iterator's chain into Pools |
| vdev configuration (`zpool.go`, `zpool.c`) | `VDevTree` values and nvlists | `buildVDevTree`, `poolGetConfig`, `VDevTree` | written by create, read by import and by the state changes |
| pool life cycle (`zpool.go`, `zpool.c`) | pools of the system, the nvlists of a call | `PoolCreate`, `PoolImport`, `PoolImportByGUID`, `PoolImportSearch`, `Destroy`, `Export`, `ExportForce` | works by name on a system that others use too |
| vdev state changes (`zpool_vdev.go`, `zpool_vdev.c`) | state of a pool's devices; the configuration cached in the handle | `Online`, `Offline`, `Clear`, `Initialize`, `RefreshStats` | the vdev configuration |
| enumerations and names (`common.go`, `common.h`, `zfs.h`, `zpool.h`) | none | string conversions | all of the above |

What is hard about this code, and what would make each component correct:

* **Destroying with clones.** A recursion over a tree that was read once, while the
  recursion's own promotions move snapshots between datasets and its renames change
  names. Correct means: never a filesystem outside the subtree, never a snapshot
  that belongs to someone else, nil only when the subtree is gone, success
  "regardless of its cloned dependencies" (zfs.go:697), and no snapshot left
  without a dependent (zfs.go:699-700). Failures in the middle, and other clients
  of the pool, come on top.
* **Clone search.** Breadth first over a channel that one goroutine both fills and
  drains: it must find the right clones, put the right one first, and return.
* **Recursive destroy.** Only the subtree (or the snapshots of one name), nil only
  when it is gone, the dataset itself last, and an end even though the snapshot
  branch opens new trees while clients change the pool.
* **Dataset and pool handles.** Each item freed once, however the struct was copied,
  chained or put in slices, and from however many goroutines; nothing forgotten;
  nothing used afterwards.
* **Send size.** One process-wide descriptor, several calls, failures of `dup`,
  `dup2` and `zfs_send`, an answer later than the deadline, and names that are cut up
  by hand.
* **Properties.** One map behind several copies, one mutex, one last error for the
  process, and calls that do without the mutex.
* **Pools.** Pools are found by guid and opened by name, in several steps; half-built
  nvlists are freed by deferred calls; destroyed pools are on disk with the others.
* **Devices.** The tree that comes back is the one that was asked for; calls over several
  devices report the truth about all of them; what is read is what the handle had cached.

## Modules

```
ZfsNamespace                    values and operators: the pool and the opened trees
  <- DestroyPromote   <- MCDestroyPromote     DPShapes DPSuffix
                      <- DestroyPromoteProofs (TLAPS)
  <- CloneSearch      <- MCCloneSearch        CloneSearch
                      <- CloneSearchProofs    (TLAPS)
  <- DestroyRecursive <- MCDestroyRecursive   DRTree
                      <- DestroyRecursiveProofs (TLAPS)
       implements Destruction                 (the abstract specification)
DatasetHandles        <- MCDatasetHandles     HandlesTree HandlesClosed
                      <- DatasetHandlesProofs (TLAPS)
SendNames <- SendSize <- MCSendSize           SendSize SendSizeLate
                      <- SendSizeProofs       (TLAPS)
PropertyCache         <- MCPropertyCache      PropertyCache
                      <- PropertyCacheProofs  (TLAPS)
VdevConfig <- Vdevs   <- MCVdevs              Vdevs VdevCache
                      <- VdevsProofs          (TLAPS)
Pools                 <- MCPools              Pools
                      <- PoolsProofs          (TLAPS)
```

Definitions after a comment that begins with "Mutant" are wrong on purpose. Each is a
plausible bug put in the place of the definition below it, to see that a property
notices.

### ZfsNamespace

A namespace is a value `[fs, snap]`: filesystem paths with birth time and origin, and
snapshots with their filesystem and name. A snapshot's id is its createtxg, which is
unique and ordered by age. Paths are sequences of components and names of snapshots
sequences of dot-separated parts, because DestroyPromote builds `@s.a` out of `@s`
and the base name of the dataset and the collision of such names is one of the
questions. The kernel's operations come as a guard `CanX` and a result `X`; they
are external, taken from the calls in `zfs.c`: promote moves the snapshots up to the
origin and fails on a common name; destroy fails for a filesystem with children and
for a snapshot with clones, and treats a name that does not exist as destroyed
(ENOENT is no error for the caller of `zfs_destroy`).

An opened tree is a path and the namespace at the time of opening (`view`):
`openChildren` reads every descendant. `FoundClones`, `Less` and `IsFirstClone`
are the result of `Clones` as a set and its first element; CloneSearch
checks that the loop computes it.

Left out: volumes and bookmarks (the code does not tell them from filesystems here),
deferred destruction (`Destroy(false)` everywhere), the pool root as a clone.

### DestroyPromote

Clients shape the namespace with `DatasetCreate`, `DatasetSnapshot`, `Clone` and
`ClientPromote`; one goroutine opens a target (`Begin`) and calls
DestroyPromote. The recursion is a stack of frames `[node, pc, clone, names, todo,
psnaps, kids]`: the local variables `clones[0]`, the snapshot names of `cds`, the
snapshots the loop has yet to look at, `psnaps`, and the children yet to be entered.
One action is one libzfs call with the Go code up to the next: `Search` (707-710),
`OpenClone` (711-723), `KeepName` / `RenameConflict` (724-737), `PromoteClone`
(738-741), `Descend` (742-747), `DestroyNode` (748-753), `ReopenClone` (755),
`Sweep` (760-764), `SweepDone`. A call whose precondition does not hold makes
every activation return its error (`FailRefused`); any call may also fail on its own
account (`FailFault`, at most `MaxFaults` times). With `Racing` the clients go on
between any two calls. Two history variables: `foreign`, the snapshots of filesystems
outside the subtree, at the beginning or taken since; `quiet`, that no client has acted since
the target was opened (`Noticed`).

Children are entered filesystems first: `zfs_iter_children` lists the snapshots and
then the filesystems, and `dataset_list_callb` prepends.

`OutsideUntouched` and `NilMeansGone` hold whatever fails and whoever interferes.
Other promises hold for a call that is alone and does not fail:
`QuietErrorLeavesTarget`, `QuietKeepsForeignSnaps` (whatever fails), `QuietLeavesNoOrphans` and
`QuietSucceeds`. The last two are about a `PlainCall`: no client, no failure, and none of the first
two shapes below. The shapes for which the doc's promises are not kept are definitions of their own:

* `InnerClone` — a clone inside the subtree of a filesystem of the subtree. It is
  promoted before it is destroyed, takes the snapshot of its parent with it, and the
  parent then has a child that depends on it, or the second `DatasetOpen(clones[0])`
  fails because the clone has been destroyed meanwhile. The call returns an error.
* `HiddenClone` — a clone below a clone of another dataset. `continue` (zfs.go:830)
  comes before `queue <- ch`, so `Clones` does not see it, and the destroy is refused.
* `NameClash` — a snapshot of the target with a name its clone also uses. When it is
  younger than the origin it is renamed although it will not move; the handle in
  `d.Children` keeps its old name, destroying that name does nothing, and the last
  `Destroy` fails.
* `SuffixClash` — a snapshot outside the subtree has a name that conflict resolution makes up
  for one inside. Run DPSuffix: the clone has a snapshot of the made-up name, and the last loop
  destroys it.

When other clients interfere, foreign snapshots may go too: the last loop looks for
names on the clone, and a client may have taken a snapshot of that name since.

### CloneSearch

The loop of `Clones` (803-848): the channel `queue` of capacity `QueueCap` (1024 in the
code), `Receive`, one action per child and branch (`SkipForeignClone`,
`RecordClone`, `SendPlain`), `Return` with the sort of `sort.go`. A send on a full
channel is not enabled, which is what blocks. `Sorted` is what `sort.Sort` promises: the same
elements, none less than one before it; equals in any order, since it is not stable.
`ReturnsFoundClones` connects the loop to what DestroyPromote is modelled with:
`FoundClones`, each once, and first one that `IsFirstClone` allows; `FirstCarriesAll` is the reason given at zfs.go:712-714;
`Returns` says when the call ends. It does not always: the send blocks on a full channel, the
same goroutine would have to receive, and Clones never returns (DestroyPromote, which calls it,
neither). With `QueueCap` 5 the run has pools on which the channel never fills, one that fills it
to the last place and returns, one that always overflows it, and pools for which that depends on the order in
which libzfs lists the children. The property gives the only way not to return: in a pool with
at least `QueueCap + 2` filesystems and snapshots (1026 in the code), and on a full channel.

### DestroyRecursive and Destruction

Both branches of the function, over every pool of `Pools`. `EnterFs` and `OpenParent`
choose the children (the opened tree; the same-named snapshots of the filesystems below
a freshly opened parent), `Descend` and `SkipMissing` walk them, `DestroyNode` and
`DestroyFails` end an activation. Clients create, snapshot and clone meanwhile.

`Destruction` says what a recursive destroy promises, without how: the datasets of its
scope vanish one at a time and nothing else does; the one it was called on goes last, in
the step in which the call returns nil; a call that fails leaves that one in place; a
filesystem goes with everything it was opened with; and the call ends. DestroyRecursive
implements it (`DestroysAsPromised`) under the refinement mapping in its last lines:
`there` is what of the opened tree still exists, recognized by its transaction group,
so that something new under an old name does not count. The abstract `whole` is FALSE
for a snapshot: below a filesystem without that snapshot the call looks no further
(zfs.go:282-285). What it does give of "recursively destroy children" (zfs.go:246) is
`ChainGone`.

### DatasetHandles

Items (`dataset_list_t`), their `Once`, and places where a struct lives: client variables and
the elements of a parent's `Children`. A struct is `[item, nilled, cut]`: which item,
whether `list` is nil in this copy, whether this copy's `Children` was replaced by an
empty slice. `Close` works on its receiver and then on copies of the children
(`for _, c := range`); `OnceEnter`, `ListClose` and `OnceDone` are the three moments
of `closeOnce.Do`, so that two goroutines can meet inside. DestroyRecursive and
DestroyPromote appear with what they do to handles; whether libzfs succeeds is
a free choice. One goroutine (Main) opens and destroys, any may close and use.

`NoDoubleFree` is what `zfsTestDoubleFreeOnDestroy` (zfs_test.go:350-372) tests for one
sequence. `NoLeak` excepts DestroyPromote (`shed`), which sets `d.Children` to
an empty slice (zfs.go:748) without closing what was in it, so that a later
`d.Close()` cannot. HandlesClosed shows that a child of a closed dataset still looks open:
`Close` sets `list = nil` in copies of the children only. The same happens
when a DestroyRecursive that failed half-way is called again on the same Dataset.

### SendNames and SendSize

`SendNames` has what `Send`, `SendFrom` and `SendSize` ask libzfs to send, from the names
they are given, as a function: a name is the sequence of its parts between the "@"s, an
outcome an error, a panic or a call of `zfs_send`. What it shows besides the property:

* a source with a "/" and no "@" panics in `send` (sendrecv.go:131); in SendSize this
  happens in a goroutine and ends the process;
* `SendFrom` panics when the source is the dataset's origin: the slice that line 221
  indexes is only made in the other branch;
* of a name `fs@a@b` the part `a` is taken;
* `send`, and with it SendSize, drops the filesystem of the source, so that a source of
  another filesystem silently becomes a snapshot of that name of this one.

`SendSize` is a call and its goroutine, per step of `redirect_libzfs_stdout` /
`restore_libzfs_stdout` (common.c:56-77). Descriptor 1 and the C buffer are shared.
`mixed` records the calls whose goroutines overlapped: `NilMeansOwnSize` and
`StdoutRestored` hold without overlap only, since nothing locks descriptor 1: of two
calls at once one may print into the other's pipe and return the other's size, or none,
with a nil error. A call that timed out leaves its goroutine behind, so a caller that
makes one call after the other can get this as well. `NilMeansSent`, `SourceAsAsked` and
`EveryCallReturns` hold throughout. SendSizeLate shows the late answer: `errch <- tmpe`
(254) on the channel that the deferred function closed (241), a panic in a goroutine.

Both `dup2` may fail. One that fails to redirect leaks the saved descriptor (common.c:62-66). One
that fails to *restore* (common.c:72-75) leaves descriptor 1 on the pipe and the saved one
open, and sendrecv.go:251 does not look at the result: what the program prints from then on goes into
a pipe, and the next call takes that pipe for the program's output and restores it. So
StdoutRestored cannot promise the terminal; it says that nothing but such a failure takes it away, and
that the failure does not pass for a success, since the pipe that is now descriptor 1 has no end and the
call can only give up at its deadline.

### PropertyCache

One property stands for all, its value is a version. It is in the kernel, in the libzfs
handle that all copies of a Dataset share, and in Go maps (`d.Properties`), which copies
share until one of them reloads. Goroutines call ReloadProperties, GetProperty,
GetUserProperty, SetProperty, SetUserProperty and Mount, which take `Global.Mtx`, and calls that
do not: Promote, Rename, Rollback (each with a reload after it) and Unmount (`bare`), and
ClearLastError. Some copies are closed (`Closed`): a call on one of them returns early (`NoHandle`),
under the mutex if it takes it. Each goroutine moves in steps (`Lock`, the libzfs call,
`Read`, `BeginWrite`, `EndWrite`, `ReadError`, `Unlock`); another client sets the property
at any time. `lasterr` is the goroutine whose libzfs call failed last: libzfs has one
last error for the process, and `LastError` reads it in a call of its own.

A write to a map has a beginning and an end because the Go runtime ends a process in which
two goroutines write one map (`NoConcurrentMapWrites`). `SetIsSeen` compares what a call
read with what had been set before it began: it holds although GetProperty does not refresh
the handle, because a setter does. GetProperty does not see what *another client* set,
in spite of the word "reload" in its doc (zfs.go:343). `OwnError`, of
SetProperty, SetUserProperty and Mount, has the two exceptions the code has: a call without the mutex
failed or cleared the error meanwhile (`mixed`); or the property was set and could not be read back,
which leaves no error in libzfs, so that SetProperty returns whatever error was there before, possibly
another goroutine's (zfs.go:404-406), although it did set the property. The getters read no
error of their own either and are not in the property.
PoolName reads the map without the mutex (zfs.go:313); readers are not in the model.

### VdevConfig and Vdevs

`VdevConfig` has the two conversions as functions: `BuildVDevTree` (zpool.go:769-896) and
`PoolGetConfig` (zpool.go:167-304), and `CollectLeaves` of zpool.c. An nvlist is a record of the
keys that are written or read. `Vdevs` is a pool created from a specification, with one open
handle: `VDevTree` reads the configuration the handle has *cached*, `RefreshStats` replaces
it; `Online` and `Offline` go over their devices one step at a time; `Clear` and
`Initialize` (start, suspend, cancel) work on the whole. Devices fail and are repaired,
another client adds devices and logs and removes logs, a removed log leaves a hole.

The code's recursions over a tree are functions on the vdevs of the tree (`Forest`, level by level,
`MaxDepth` levels at most): a RECURSIVE operator would keep the prover away. `BuildOne` and
`ReadOne` are one turn of the two loops, given what the recursion returns for the vdevs below.

What it shows besides the properties and the finding:

* `Offline` never returns nil: `set_zpool_vdev_offline` returns 0 or 1, which `offline`
  reads as vdev states, Unknown and Closed. After a success it returns the last error of
  libzfs, whatever that is; only the last device counts;
* of several logs VDevTree keeps the last (`Logs` is one pointer): `TreeIsPool` is
  about pools with one log at most;
* `Initialize` fails on a pool with a hole, because `collect_zpool_leaves` lists its name: then
  no device is initialized.

`zpool_initialize` refuses a device that cannot be written to, a start of what already runs, a suspend of what does
not, a cancel of what was not started (`Refuses`), and does the others; any refusal is the error of the
call (zpool.go:1108-1110). `initing` is the state of each device, and an initialization may end at any
time (`InitializationDone`). `InitializeReports`: on a refreshed handle the call returns nil exactly if there is no
hole and no device refuses, and without a hole a device that runs is reached whatever the others do.

### Pools

The system's pools (`world`: a guid, its name, imported, exported or destroyed, mounted), the
`zpool_list_t` items (`heap`), one Pool variable, the slice of PoolOpenAll, and the nvlists
of a running PoolCreate (`lists`, with how often each was freed). One goroutine makes calls in
steps of one libzfs call; a rival creates, imports, mounts, exports and destroys in
between. Items are chained by `next` as `zpool_list_callb` chains them and freed with
their chain as `zpool_list_free` does (`ChainFrom`, a recursive function over the heap).

`ItemsFreedOnce` is what PoolOpenAll owes to Close; the item that the callback of `zpool_iter`
drops (one for each PoolOpenAll) leaks and is excepted. PoolCloseAll ranges over copies (485-488): the pointers
in the caller's slice stay and dangle, as those of the children in HandlesClosed. The model has the
slice as it is then, `closed`; a `Close` of one of its elements, or a second PoolCloseAll, frees
an item twice. The property says that this is the only way to a second free (`again`); what the process
does after one is not modelled. `ListsFreedOnce` gives for each return of PoolCreate how often each
nvlist is freed, and names the two returns at which that is not once:
when a feature cannot be added the property list, and only that, is freed twice and the call returns a
nil error and no pool (961-967); a root nvlist that got no type is lost (909-914).
A nil map of features panics (923). PoolOpenAll is an error when there are no pools.
PoolImportSearch is one action that searches the disk (`Configs`) and one for each pool found
(`SearchTurn`, in any order), with the loop's early returns as failures. It may return a nil
error although a pool's tree could not be read, since the next pool overwrites the error; with a
nil error it has listed them all (`SearchListsAll`).

## Runs

| run | expects | what it asks | distinct states |
|---|---|---|---|
| DPShapes | pass | DestroyPromote on every filesystem of small pools: clones of clones, clones below clones, several clones with name conflicts, two calls with a failure and other clients in between | 1,433,502 |
| DPSuffix | violation | may the last loop destroy a snapshot that was the clone's own? | |
| CloneSearch | pass | does the search find, order and return what it should, for every assignment of origins to six filesystems, and when does it block on its own channel? | 285,864 |
| DRTree | pass | DestroyRecursive on filesystems and snapshots, with a failure and other clients anywhere: does it implement Destruction? | 678,923 |
| HandlesTree | pass | four datasets opened, copied, closed and destroyed by one goroutine while another uses and closes a copy | 618,717 |
| HandlesClosed | violation | does a child of a closed dataset know that it is closed? | |
| SendSize | pass | two calls of SendSize, Send, SendFrom, in turn or at once, with every failure and deadline | 414,942 |
| SendSizeLate | violation | is an answer after the deadline harmless? | |
| PropertyCache | pass | two goroutines get, set and reload properties of copies of a dataset, open and closed, beside calls without the mutex | 431,056 |
| Pools | pass | pools created, imported, searched, opened, closed, exported and destroyed against a rival client | 3,483,502 |
| Vdevs | pass | specifications of every kind created and read back; Online, Offline, Clear, Initialize while devices come, go and fail | 1,351,590 |
| VdevCache | violation | do cache devices become cache devices? | |

Bounds, and why they are enough for the questions asked:

* DPShapes is three models in one run. Undisturbed, one call on nested filesystems (5 paths,
  one snapshot name), or on 3 siblings with two names; disturbed, two calls in succession
  with one failure and clients between any two libzfs calls. `MaxTxg` limits creations: seven
  filesystems and snapshots give a target with a child, snapshots of both, clones of
  both, and clones of clones: each branch of DestroyPromote twice in one recursion.
  Three levels of paths make the recursion return into a loop that is not finished.
  The second call finds what the first left behind.
* One failure (`MaxFaults`) anywhere. A second changes nothing for the functions
  that return on the first; the exception is the last loop of DestroyPromote, where a
  failure is ignored.
* `QueueCap` 5 stands for 1024. The smallest pool that can overflow it has 7 datasets and always does; the
  largest that cannot has 6 of them. The pools with five filesystems below the root have 9 and 10.
* In DRTree the clients make two steps, enough to put a new filesystem with a snapshot
  below one that the call has passed or not yet reached.
* HandlesTree: root with two children, one of which has a child — a copy of a copy,
  a sibling to fail on. Two variables in two goroutines.
* SendSize: two calls. The shared descriptor is saved and restored in pairs, so two are
  the smallest number that can interleave, and a third adds no new kind of
  saved descriptor (terminal, one's own pipe, another's pipe). Names have up to three
  parts, with and without a "/" or "#", of this filesystem and another.
* PropertyCache: two goroutines, two copies that share a map or not and a closed one, three versions (before,
  set by this one, set by another), three calls: one that runs, one that overtakes it, one
  that looks at the result. For more of each there are the theorems.
* Vdevs: `MaxDepth` 3, one level more than the deepest specification. `MaxParity` 3 and `MaxRaidz` 4 stand for 254 and 255; the edges are parity 0 to 5
  and 0 to 6 devices. Lists of devices of Online and Offline have a good, a faulty and
  an unknown device in both orders. Three events: a device fails, a log comes, a log goes;
  one device may fail, the others are what must not be left out then.
* Pools: three calls make, use and look at a pool; two steps of the rival take its name and
  give it to another pool; two pools have the same name, one is destroyed, one cannot be
  read.

`CHECK_DEADLOCK FALSE` is set because each model ends: the calls have returned and the
bounds are used up, and CloneSearch may wait for itself. CloneSearch, DestroyRecursive, SendSize and PropertyCache have a liveness
property that says that the calls do return, and in CloneSearch when not.

Fairness: CloneSearch has `WF(Next)`, one goroutine that is scheduled, and that stays
blocked only where the channel blocks it. DestroyRecursive has weak fairness of
the call's own steps and none of the clients'. SendSize has weak fairness of each call's
goroutine and of its caller; with `Deadline` that includes that 60 seconds pass.
PropertyCache has weak fairness of each goroutine's steps and strong fairness of `Lock`:
a `sync.Mutex` hands itself over to a waiter that starved for a millisecond, so that a goroutine for
which it is free again and again gets it. The others have no liveness property and no fairness.

## Findings

Four runs expect a violation, one for each kind of promise that is broken; what else the models show of this
kind (the channel of Clones, the pointers that PoolCloseAll leaves, the property list freed twice, Offline's
error, the names that panic) is an exception or an outcome that the property in question names, and told of above. DPSuffix: a snapshot of the clone is destroyed because of the
name that conflict resolution made up. HandlesClosed: a child of a closed dataset passes freed
memory to libzfs. SendSizeLate: an answer after the deadline ends the process. VdevCache:
cache devices are written under the key of the spares (zpool.go:892) and replace them.

## Proofs

`DestroyPromoteProofs` proves, for all paths, snapshot names and bounds allowed by
`PathsAssumption` and `BoundsAssumption`:

* `TypeCorrect`: `Spec => []TypeOK`, which includes that the namespace and the opened
  view are anchored: no snapshot without its filesystem, no clone without its origin;
* `StaysInside`: `Spec => []FramesInside`, every activation works on a node of the tree;
* `NothingOutsideDestroyed`: `Spec => []OutsideUntouched`;
* `NilMeansDestroyed`: `Spec => []NilMeansGone`;
* `ErrorLeavesTarget`: `Spec => []QuietErrorLeavesTarget`;
* `KeepsForeignSnaps`: `Spec => []QuietKeepsForeignSnaps`;
* `LeavesNoOrphans`: `Spec => []QuietLeavesNoOrphans`;
* `Succeeds`: `Spec => []QuietSucceeds`.

The third is what "it will not destroy any dependent clones" (zfs.go:693) comes to, and
it needs an invariant that is inductive: `IInv == TypeOK /\ FramesInside /\
OutsideUntouched`. OutsideUntouched is preserved by DestroyNode because the node of
the top frame is inside the target's tree, which is FramesInside; FramesInside is
preserved by Descend because children of a node of the tree are nodes of the tree
(`ChildrenInside`), which uses TypeOK's anchored view. The lemmas `CreateWellFormed`,
..., `DestroySnapWellFormed` say that each kernel operation keeps a namespace
anchored; `NamespaceStep` lists, per step of the call, what becomes of the namespace, so
that the argument does not repeat itself for each action; `UnderTransitive` and
`UnderReflexive` are about paths.

NilMeansGone needs `GInv`: every filesystem's ancestors exist (`Rooted`), nothing is born after
`txg`, and `Fate`: the outermost frame is the target's, and when it has destroyed its node, everything
that was opened below is gone. It is, because the kernel destroys only a filesystem without
children, and below a filesystem of the tree there would be one (`ChildOnTheWay`); what
is created afterwards is younger than the view. QuietErrorLeavesTarget needs `EInv`: all
frames but the outermost are about nodes strictly below the target (`StackBelow`), so only the outermost
activation destroys it; and after that an undisturbed call can fail only to open its clone again, which
is outside the subtree unless the pool has an `InnerClone` (`TargetKept`).

The last three are about a call that no client disturbs, and each rests on the invariants before
it:

* `UInv`: within a filesystem a name belongs to one snapshot. Every step of the code finds snapshots by name, and this is
  what makes the name mean the one that was opened.
* `LInv`: `Stacked`, what the activations on the stack are about; `OwnClone`, an activation promotes a clone of
  its own node; `PoolPlain`, the root filesystem is no clone and does not become one.
* `KInv`: the snapshots that were outside are where they were, under their names (`ForeignSnapsKept`);
  the call knows the names of its clone's snapshots (`KnowsNames`), and those that an activation
  has to destroy at its end are none of them (`ListedApart`). A promotion moves snapshots of the node
  to the clone and takes none away; the names the loop at zfs.go:761 goes through are those the
  node had, some of them with the base name appended. Without SuffixClash such a name is no foreign
  snapshot's, hence `KeepsForeignSnaps`, although the loop finds the snapshot on a filesystem outside.
* `OInv`: on a plain pool each filesystem of the subtree is `Fresh`, as it was opened; or an activation
  of it is on the stack and it is in the state `Phase` says for the activation's `pc`; or `Settled`,
  that is gone, with its snapshots gone or in need of a clone. An inner clone would be promoted by one activation
  and belong to the tree of another, a hidden clone would come into sight in the middle:
  PlainCall excludes them, and `Fresh` then cannot be disturbed from elsewhere in the recursion. When the stack
  is empty all is Settled: `LeavesNoOrphans`.
* `PInv`: without NameClash nothing was renamed (`NamesKept`), so that the opened names are the names still (`NamesSeen`),
  and each loop has done with the children it has passed (`Looped`). So no libzfs call is
  refused: the promotion, because no names meet; the destroy, because the children are done with and
  the snapshots have no clones left; opening the clone again, because it is outside. Hence `Succeeds`.

`DatasetHandlesProofs` proves, for every tree `Kids`, any variables and any goroutines:

* `HandlesTypeCorrect`: `Spec => []TypeOK`, which includes that an item is freed exactly
  when its `Once` is done;
* `FreedOnce`: `Spec => []NoDoubleFree`;
* `NothingLeaks`: `Spec => []NoLeak`.

NoDoubleFree alone is not inductive: it needs `Counted` (an item was freed once
if its `Once` is done, else never), `Closing` (who frees an item has its `Once` running)
and `Exclusive` (no two goroutines are inside the same `Once`), and that what is
closed is an item at all. The latter is `Grown \/ Nobody`: either the tree was opened
and every element of a Children array holds its own item, or nobody holds anything yet.
`Aimed` gives DestroyRecursive a struct to change. The only assumptions are
`TreeAssumption` (the root is nobody's child) and `ProcsAssumption`.

NoLeak is about all items at once and needs `LInv` besides: a list field is nil only when its item is
freed and a `cut` struct's children are (`PlacesOK`); of a freed item, each child is freed or some
running Close still has it to do (`Covered`, `ActOK`); an activation of DestroyRecursive
has each child to destroy, in hand, or freed (`StackOK`). When nothing runs and the variables are closed,
the set of freed items contains the root and the children of its members, and by `WholeTreeAssumption`
(the tree has no other items; TLC evaluates it on every run's tree) it is the tree. The
assumption is how the proof does without induction over the tree.

`PropertyCacheProofs` proves, for any goroutines, copies and numbers of calls and changes:

* `CacheTypeCorrect`: `Spec => []TypeOK`;
* `MapsWrittenApart`: `Spec => []NoConcurrentMapWrites`;
* `NothingStaleShown`: `Spec => []SetIsSeen`;
* `ErrorsKeptApart`: `Spec => []OwnError`;
* `NoMapGoesBack`: `Spec => MapsNeverGoBack`, an action property.

All five come from one invariant. `Exclusive`: where the mutex is needed it is held. `Behind`:
what calls have set and what the maps hold is not newer than the handle, and `Floors`: neither is
what a call must show, but for a reload that has yet to refresh the handle. `Fresh`: between
reading and writing the value is still the handle's, since by Exclusive nobody else can have
set it; so a write replaces nothing newer (Behind), which is NoMapGoesBack, and shows nothing
older than the floor, which is SetIsSeen. `Owned`: from a failure to LastError the error is
the call's own or `mixed` tells why not; a SetProperty that fails later than that has `wasSet`. The assumptions are `ProcsAssumption`,
`CopiesAssumption` (there is a copy) and `BoundsAssumption`.

`CloneSearchProofs` proves, for every pool `PoolsAssumption` allows (the filesystems hang
from one root, origins are snapshots of the pool, a name is given once) and every capacity of
the channel:

* `SpecReturnsFoundClones`: `Spec => []ReturnsFoundClones`;
* `SpecFirstCarriesAll`: `Spec => []FirstCarriesAll`.

This is why DestroyPromote may use FoundClones in the place of the loop. The loop needs no
induction over the tree: `CInv` says of the datasets the search holds, in the channel or
among the children it looks at, that none is below another (`Apart`), that every clone to be found is
recorded or below one of them (`Complete`), and that no recorded one is (`Once`); the search
reaches nothing else (`Reachable`, `Sound`). Complete is kept when a dataset is
received because on the way down from it to the clone there is a child (`ChildOnTheWay`), and when
a foreign clone is skipped because what is below it is not in FoundClones either. When it
holds nothing, it has them all. `KeyIsOrigin`: the snapshot by which a clone is sorted
is its origin, because names within a filesystem are unique; hence FirstCarriesAll.

`DestroyRecursiveProofs` proves, for every pool and target, whatever fails and whoever
interferes:

* `ImplementsSafe`: `Spec => Abstract!Safe`, the safety part of the refinement: the
  call takes only steps Destruction allows;
* `SpecCloneFreeSucceeds` and `SpecChainGone`: `Spec => []CloneFreeSucceeds`, `Spec => []ChainGone`.

The invariant: what was opened is as it was or gone, and the rest is younger (`Kept`), so that
transaction groups tell them apart; every activation works in the target's scope and all but the outermost
strictly inside (`StackOK`), so that nothing else vanishes and the target goes last; and for a call that is
alone `Progress`: each child an activation has entered is waiting, being visited, or done with
(`Visited`), where done with means, for a snapshot, that no snapshot of the name that can be
reached is left below (`Settled`). Assumptions: paths are non-empty sequences, pools are closed
under parents, ids tell names apart (`NamesAssumption`, `PoolsAssumption`), and nothing in a pool
is younger than the transaction group at which it starts.

`SendSizeProofs` proves, for any number of concurrent calls, requests and failures:
`SpecNilMeansSent`, `SpecNilMeansOwnSize`, `SpecStdoutRestored` and `SpecSourceAsAsked`, each
`Spec => []P` of the property P of its name. The invariant is one call's point of view: `Stages` says what its
goroutine holds where it is; `Alone`, for calls outside `mixed`, that descriptor 1 is its
pipe between its own Dup2 and Restore, and later only if Restore failed, so that the first line in it is its own;
`Paired`, while nobody has mixed, that what is saved is the terminal or the pipe of a call that could not
restore, and that such a pipe stays open, as descriptor 1 or saved, so that its call reads no end; `Flushed`, that whoever has
printed will flush. `RequestsAssumption`: names are sequences of parts and a source is not
empty.

`PoolsProofs` proves, for any finite set of pools and any names, calls, failures and rival:
`SpecItemsFreedOnce`, `SpecListsFreedOnce`, `SpecHandleIsThePool`, `SpecImportFindsThePool`,
`SpecSearchListsAll`, `SpecRetireReports` (`Spec => []P`) and `SpecNoResurrection` (an action property). The
invariant is `PInv == WorldOK /\ HeapOK /\ CallOK /\ Answers`. HeapOK: no item is chained to
another one once PoolOpenAll has cut the chain, none is pointed to twice (`PointersOK`), and one was
freed as often as `FreesOf` says: never while a live Pool has it or the callback dropped it, twice if it was closed
again through the slice, else once. The slice PoolCloseAll had still holds distinct items, which is why
they are freed twice and not more often before the behaviour ends. CallOK: what the running call knows of
its pool is so as long as the rival has not moved (`calm`). WorldOK: no two imported pools
have one name, which is the kernel's rule and where HandleIsThePool comes from. For the search
`SInv` adds `Scanning`: each exported pool is listed or still to be looked at, and no other is.
`WorldsAssumption`: the system starts that way and has finitely many pools.

`VdevsProofs` proves, for any specifications, lists of devices, limits of parity and size, and
whatever fails, comes and goes:

* `RedundancyKept`: `Spec => []RedundancyAsAsked`;
* `OnlineTold`: `Spec => []OnlineReports`;
* `OfflineTried`: `Spec => []OfflineTriesAll`;
* `InitializeTold`: `Spec => []InitializeReports`;
* `CacheReplacesSpares`: `Spec => []SparesRead`, the finding of VdevCache in general: what VDevTree shows as
  spares are the cache devices, if any were specified, and no cache device is ever shown as one.

They share `VInv == PoolOK /\ CacheOK /\ CallOK` (`VdevsInductive`). PoolOK: the top-level vdevs are a
list in which a log or a hole is a leaf, a log shares its path with nothing (`Apart`), one is
neither a log nor a hole, so that removing logs never empties the pool, and a leaf has the name of
no hole. CacheOK: a handle that is not stale holds the pool. CallOK: the devices still to come
are the end of the arguments, so that `Passed` is the beginning. `Onlined` and `Offlined` say of
the devices passed what the property says of all of them: for Online that each runs unless it is bad, and that the
error is nil just when all are good (an earlier error must survive a later good device); for Offline that each is
offline or cannot be, which stays true because a further device offline leaves less
redundancy, never more (`LessRedundant`, on the cardinality of the devices that run). For
Initialize `Collected` compares what `collect_zpool_leaves` lists with the devices, on any tree.
For the spares `SInv`: pool and handle hold them as they were built, which no later step changes.
For the redundancy `Grown`: a group keeps its place in the list, since holes are only cut off at its end.
None of this needs induction over the tree: `Leaves` of a list is the union of the leaves of its members.
`SpecsAssumption`: specifications are finite trees within `MaxDepth` whose devices have names;
`NamesAssumption`: no new device is called "none", "hole" or "indirect"; `RaidzAssumption`.

What a prover does not do here, or has not yet done, is only model-checked:

* liveness: `Returns`, `EveryCallReturns` of SendSize and of PropertyCache, and that the abstract call of Destruction ends
  (the fairness part of `DestroysAsPromised`). The prover does not treat fairness and ENABLED;
* `CreatedAsSpecified` and `TreeIsPool` of Vdevs: what two recursions over a tree return,
  for every tree, takes induction over it, and the library's induction theorems have an operator
  as a parameter, which none of the provers instantiates.

## Not modelled

* `UnmountAll` (zfs.go:585) stops at the first child that cannot be unmounted; the mount state of
  a tree is not modelled. `Hold`, `Release`, `Holds`: one libzfs call and a conversion.
* `SendResume`, `Receive`, `ReceiveResumeAbort`, the resume token: the stream is libzfs's business, the code passes flags and a descriptor.
* What `Destroy` returns for a dataset with children (zfs.go:216-228), which is never destroyed: if
  it is closed, `Path` fails, its error is dropped and the caller gets nil; if its type cannot be
  read, `err.Error()` panics on an `err` that is nil. DestroyRecursive and DestroyPromote do not get
  there, they empty `Children` before they call it; a client may.
* `Dataset.Pool` (zfs.go:299) wraps the pool handle that libzfs keeps in the dataset's; closing
  that Pool frees a handle still in use. The handles of libzfs itself are not modelled.
  `DatasetOpenAll` and the error paths of `openChildren` are not either.
* Properties and features of a pool: read without a mutex, one libzfs call each; the
  error of `ReloadProperties` in PoolOpenAll.
* Failures of `zpool_iter`, and of `PoolOpen` for another reason than that there is no such pool.
* VDevTree drops an error of `poolGetSpares`, which the next line overwrites (zpool.go:1066-1067); the models
  have no failing nvlist lookup there.
* ashift, whole_disk, statistics, and failures of nvlist calls inside `buildVDevTree`
  but for the one step that may fail: without memory only.
* Readers of the shared map without the mutex (`PoolName`, zfs.go:313).
* Enumerations and their strings: no state.

## Plan

Done: all modules above, with eight proof modules. What is left, in this order:

1. `CreatedAsSpecified` and `TreeIsPool` for every tree, by a least counterexample among the levels (as
   `LastOf` in VdevsProofs takes the last of a set of numbers) instead of an induction theorem; the
   existence of the recursive functions has to be proved the same way first.
2. `UnmountAll`, and the handles of libzfs behind `Dataset.Pool`.
