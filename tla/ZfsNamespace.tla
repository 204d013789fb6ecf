---------------------------- MODULE ZfsNamespace ----------------------------
(***************************************************************************)
(* The pool namespace that go-libzfs drives through libzfs, as a value.    *)
(*                                                                         *)
(* A namespace ns is a record                                              *)
(*   fs   : live filesystem path |-> [born, origin]                        *)
(*   snap : live snapshot id     |-> [of, name]                            *)
(* A path is the sequence of its components, <<"p", "a">> for "p/a".  A    *)
(* snapshot id is its createtxg, so ids of one filesystem are ordered by   *)
(* age; NoSnap (0) is the origin of a filesystem that is not a clone.  A   *)
(* snapshot name is the sequence of its dot-separated parts, <<"s", "a">>  *)
(* for "@s.a", the shape DestroyPromote's conflict resolution builds.      *)
(*                                                                         *)
(* The kernel's operations are external code, modelled from the way zfs.c  *)
(* calls them: each has a guard CanX and a result X.  The rest translates  *)
(* the Go code that walks an opened Dataset tree: a tree opened by         *)
(* DatasetOpen is the pair of a path and the namespace at that moment (the *)
(* view), because openChildren reads every descendant.                     *)
(***************************************************************************)
EXTENDS Naturals, Sequences

NoSnap == 0

(* Paths. *)
Under(p, top) == Len(top) <= Len(p) /\ \A i \in 1..Len(top) : p[i] = top[i]
IsChild(p, q) == Under(p, q) /\ Len(p) = Len(q) + 1
Base(p) == p[Len(p)]

FSet(ns) == DOMAIN ns.fs
Ids(ns) == DOMAIN ns.snap
SnapsOf(ns, f) == {i \in Ids(ns) : ns.snap[i].of = f}
Holding(ns, f, n) == {i \in SnapsOf(ns, f) : ns.snap[i].name = n}
ChildFs(ns, f) == {g \in FSet(ns) : IsChild(g, f)}
NamesOf(ns, f) == {ns.snap[i].name : i \in SnapsOf(ns, f)}
ClonesOf(ns, i) == {g \in FSet(ns) : ns.fs[g].origin = i}

(***************************************************************************)
(* Kernel operations.                                                      *)
(***************************************************************************)
CanCreate(ns, f) ==
  f \notin FSet(ns) /\ \E q \in FSet(ns) : IsChild(f, q)

Create(ns, f, txg, origin) ==
  [fs   |-> [g \in FSet(ns) \cup {f} |->
               IF g = f THEN [born |-> txg, origin |-> origin] ELSE ns.fs[g]],
   snap |-> ns.snap]

CanSnapshot(ns, f, n) == f \in FSet(ns) /\ Holding(ns, f, n) = {}

Snapshot(ns, f, n, txg) ==
  [fs   |-> ns.fs,
   snap |-> [i \in Ids(ns) \cup {txg} |->
               IF i = txg THEN [of |-> f, name |-> n] ELSE ns.snap[i]]]

(* zfs_promote: the snapshots of the origin's filesystem up to the origin  *)
(* move to the clone; a name both have makes it fail with EEXIST.          *)
Shared(ns, c) ==
  LET o == ns.fs[c].origin
  IN  {i \in SnapsOf(ns, ns.snap[o].of) : i <= o}

CanPromote(ns, c) ==
  /\ c \in FSet(ns)
  /\ ns.fs[c].origin # NoSnap
  /\ \A i \in Shared(ns, c) : Holding(ns, c, ns.snap[i].name) = {}

Promote(ns, c) ==
  LET o == ns.fs[c].origin
      p == ns.snap[o].of
  IN  [fs   |-> [g \in FSet(ns) |->
                   [born   |-> ns.fs[g].born,
                    origin |-> IF g = c THEN ns.fs[p].origin
                               ELSE IF g = p THEN o ELSE ns.fs[g].origin]],
       snap |-> [i \in Ids(ns) |->
                   IF i \in Shared(ns, c)
                   THEN [of |-> c, name |-> ns.snap[i].name]
                   ELSE ns.snap[i]]]

CanRename(ns, f, n, m) == Holding(ns, f, n) # {} /\ Holding(ns, f, m) = {}

RenameSnap(ns, f, n, m) ==
  [fs   |-> ns.fs,
   snap |-> [i \in Ids(ns) |->
               IF i \in Holding(ns, f, n) THEN [of |-> f, name |-> m]
                                          ELSE ns.snap[i]]]

(* zfs_destroy works by name and treats a name that no longer exists as    *)
(* already destroyed (ENOENT).                                             *)
CanDestroyFs(ns, f) ==
  f \in FSet(ns) => ChildFs(ns, f) = {} /\ SnapsOf(ns, f) = {}

DestroyFs(ns, f) ==
  [fs |-> [g \in FSet(ns) \ {f} |-> ns.fs[g]], snap |-> ns.snap]

CanDestroySnap(ns, f, n) ==
  \A i \in Holding(ns, f, n) : ClonesOf(ns, i) = {}

DestroySnap(ns, f, n) ==
  [fs |-> ns.fs, snap |-> [i \in Ids(ns) \ Holding(ns, f, n) |-> ns.snap[i]]]

(***************************************************************************)
(* Dataset objects of an opened tree.  A node is [of, id]: the filesystem  *)
(* of when id is NoSnap, else the snapshot id of it.                       *)
(***************************************************************************)
FsNode(f) == [of |-> f, id |-> NoSnap]
SnapNode(f, i) == [of |-> f, id |-> i]
IsSnapshot(d) == d.id # NoSnap
Snapshots(view, d) == IF IsSnapshot(d) THEN {} ELSE SnapsOf(view, d.of)

Children(view, d) ==
  IF IsSnapshot(d) THEN {}
  ELSE {FsNode(g) : g \in ChildFs(view, d.of)}
       \cup {SnapNode(d.of, i) : i \in SnapsOf(view, d.of)}

(* The snapshots of d, as d was opened, that carry the name of the origin  *)
(* of dataset f of the freshly opened pool: FindSnapshot compares names,   *)
(* not ids.  For a snapshot d it is d itself.                              *)
OriginIn(view, d, pool, f) ==
  LET o == pool.snap[pool.fs[f].origin]
  IN  {i \in IF IsSnapshot(d) THEN {d.id} ELSE Snapshots(view, d) :
         o.of = d.of /\ o.name = view.snap[i].name}

IsHit(view, d, pool, f) ==
  pool.fs[f].origin # NoSnap /\ OriginIn(view, d, pool, f) # {}

(* Mutant: only the datasets right under the pool are looked at.           *)
ReachedAtTop(view, d, pool, f) == Len(f) = 2

(* Clones() walks the pool breadth first from its root; the children of a  *)
(* dataset whose origin is not one of d's snapshots are never queued.      *)
Reached(view, d, pool, f) ==
  /\ Len(f) > 1
  /\ \A g \in FSet(pool) :
       (Under(f, g) /\ 1 < Len(g) /\ Len(g) < Len(f)) =>
         (pool.fs[g].origin = NoSnap \/ IsHit(view, d, pool, g))

FoundClones(view, d, pool) ==
  {f \in FSet(pool) : Reached(view, d, pool, f) /\ IsHit(view, d, pool, f)}

(* sort.Sort(clonesCreateDesc): youngest origin snapshot first, then       *)
(* youngest dataset.                                                       *)
SortKey(view, d, pool, f) ==
  CHOOSE i \in OriginIn(view, d, pool, f) : TRUE

(* Mutant: the clone of the oldest snapshot comes first.                   *)
OldestFirst(view, d, pool, f, g) ==
  LET kf == SortKey(view, d, pool, f)
      kg == SortKey(view, d, pool, g)
  IN  kf < kg \/ (kf = kg /\ pool.fs[f].born < pool.fs[g].born)

Less(view, d, pool, f, g) ==
  LET kf == SortKey(view, d, pool, f)
      kg == SortKey(view, d, pool, g)
  IN  kf > kg \/ (kf = kg /\ pool.fs[f].born > pool.fs[g].born)

IsFirstClone(view, d, pool, f) ==
  /\ f \in FoundClones(view, d, pool)
  /\ \A g \in FoundClones(view, d, pool) : g = f \/ Less(view, d, pool, f, g)
=============================================================================
