----------------------------- MODULE VdevConfig -----------------------------
(***************************************************************************)
(* The two conversions between a Go VDevTree and libzfs's nvlists          *)
(* (zpool.go): buildVDevTree on the way to zpool_create, poolGetConfig on  *)
(* the way back.                                                           *)
(*                                                                         *)
(* A specification, what the caller of PoolCreate fills in, is a record    *)
(* [devices, spares, l2cache] of sequences of vdevs [type, parity, path,   *)
(* devices].  An nvlist is a record of the keys the code writes or reads;  *)
(* a key that holds a sequence is absent when the sequence is empty.  The  *)
(* state of a device is kept beside the tree, in a function on paths.      *)
(*                                                                         *)
(* Left out: ashift, whole_disk, guids, statistics other than the state,   *)
(* and the path, which get_vdev_path reads of absent devices only; the     *)
(* name of a leaf is its path.  An nvlist call fails only without memory.  *)
(***************************************************************************)
EXTENDS Naturals, Sequences, SequencesExt

CONSTANTS
  MaxParity,  \* the largest parity isGrouping lets through, 254 in the code
  MaxRaidz,   \* the largest number of devices of a raidz group, 255 in the code
  MaxDepth    \* bound: levels of vdevs below a top-level one

ASSUME RaidzAssumption ==
  /\ MaxParity \in Nat \ {0}
  /\ MaxRaidz = MaxParity + 1

ASSUME DepthAssumption == MaxDepth \in Nat

NoPath == "none"
HoleName == "hole"
IndirectName == "indirect"
Unlimited == 2147483647

-----------------------------------------------------------------------------
(* The vdevs of a tree, and of a list of trees: a vdev and what is below   *)
(* it, level by level, so that the recursion of the code is a function on  *)
(* them.  Below(v) is the list of the vdevs right below v.                 *)
Tree(v, Below(_)) ==
  LET level[d \in 0..MaxDepth] ==
        IF d = 0 THEN {v} ELSE UNION {ToSet(Below(w)) : w \in level[d - 1]}
  IN  IF Below(v) = <<>> THEN {v} ELSE {v} \cup UNION {level[d] : d \in 1..MaxDepth}

Forest(vs, Below(_)) == UNION {Tree(vs[i], Below) : i \in DOMAIN vs}

-----------------------------------------------------------------------------
(* Writing: isGrouping, buildVdev, buildVDevTree and its two helpers.      *)
GroupTypes == {"raidz", "mirror", "log", "spare", "l2cache"}
IsGrouping(v) == v.type \in GroupTypes

Parity(v) == IF v.parity = 0 THEN 1 ELSE IF v.parity > MaxParity THEN MaxParity ELSE v.parity

(* Mutant: a group as large as its parity will do.                         *)
MinDevsShort(v) ==
  IF v.type = "raidz" THEN Parity(v) ELSE IF v.type = "mirror" THEN 2
  ELSE IF IsGrouping(v) THEN 1 ELSE 0

MinDevs(v) ==
  CASE v.type = "raidz"  -> Parity(v) + 1
    [] v.type = "mirror" -> 2
    [] OTHER             -> IF IsGrouping(v) THEN 1 ELSE 0

MaxDevs(v) == IF v.type = "raidz" THEN MaxRaidz ELSE Unlimited

(* The devices of a vdev that groups nothing are counted and not looked at.*)
Grouped(v) == IF IsGrouping(v) THEN v.devices ELSE <<>>

ValidCounts(vdevs) ==
  \A v \in Forest(vdevs, Grouped) : Len(v.devices) \in MinDevs(v)..MaxDevs(v)

BuildVdev(v) ==
  [type |-> v.type, isLog |-> v.type = "log", nparity |-> 0, path |-> v.path,
   children |-> <<>>]

(* A group gets no IS_LOG, whatever its type.                              *)
Group(v, children) ==
  [type |-> v.type, isLog |-> FALSE,
   nparity |-> IF v.type = "raidz" THEN MinDevs(v) - 1 ELSE 0,
   path |-> NoPath, children |-> children]

(* One turn of the loop, with what it builds of the devices of a group.    *)
BuildOne(v, build) ==
  IF IsGrouping(v) THEN Group(v, [i \in DOMAIN v.devices |-> build[v.devices[i]]])
                   ELSE BuildVdev(v)

BuildChildren(vdevs) ==
  LET build[v \in Forest(vdevs, Grouped)] == BuildOne(v, build)
  IN  [i \in DOMAIN vdevs |-> BuildOne(vdevs[i], build)]

BuildLeaves(vdevs) == [i \in DOMAIN vdevs |-> BuildVdev(vdevs[i])]

Root == [type |-> "root", children |-> <<>>, spares |-> <<>>, l2cache |-> <<>>]

(* Mutant: the loop over the spares starts at the second.                  *)
BuildVdevSparesFromSecond(root, vdevs) ==
  IF vdevs = <<>> THEN root ELSE [root EXCEPT !.spares = BuildLeaves(Tail(vdevs))]

BuildVdevSpares(root, vdevs) ==
  IF vdevs = <<>> THEN root ELSE [root EXCEPT !.spares = BuildLeaves(vdevs)]

(* The key is ZPOOL_CONFIG_SPARES, which replaces what was there           *)
(* (NV_UNIQUE_NAME).                                                       *)
BuildVdevL2Cache(root, vdevs) ==
  IF vdevs = <<>> THEN root ELSE [root EXCEPT !.spares = BuildLeaves(vdevs)]

(* Without devices nothing is written, and that is no error.               *)
BuildVDevTree(spec) ==
  IF spec.devices = <<>> THEN Root
  ELSE BuildVdevL2Cache(
         BuildVdevSpares([Root EXCEPT !.children = BuildChildren(spec.devices)],
                         spec.spares),
         spec.l2cache)

-----------------------------------------------------------------------------
(* Reading: poolGetConfig, poolGetSpares, poolGetL2Cache.                  *)
Name(nv) == IF nv.children = <<>> THEN nv.path ELSE nv.type
StateOf(nv, state) == IF nv.path \in DOMAIN state THEN state[nv.path] ELSE NoPath
IsBare(nv) == nv.type \in {"missing", "hole"}

(* Mutant: what follows a log is a log.                                    *)
SplitAtLog(children) ==
  LET n == SelectInSeq(children, LAMBDA c : c.isLog)
  IN  IF n = 0 THEN [plain |-> children, logs |-> <<>>]
      ELSE [plain |-> SubSeq(children, 1, n - 1), logs |-> <<children[n]>>]

(* Logs is one pointer, so that the last log stays.                        *)
Split(children) ==
  LET logs == SelectSeq(children, LAMBDA c : c.isLog)
  IN  [plain |-> SelectSeq(children, LAMBDA c : ~c.isLog),
       logs  |-> IF logs = <<>> THEN <<>> ELSE <<Last(logs)>>]

Children(nv) == nv.children

ReadOne(nv, state, read) ==
  LET parts == Split(nv.children)
      ReadAll(s) == [i \in DOMAIN s |-> read[s[i]]]
  IN  IF IsBare(nv)
      THEN [name |-> Name(nv), type |-> nv.type, state |-> NoPath,
            devices |-> <<>>, logs |-> <<>>]
      ELSE [name |-> Name(nv), type |-> nv.type, state |-> StateOf(nv, state),
            devices |-> ReadAll(parts.plain), logs |-> ReadAll(parts.logs)]

PoolGetConfig(nv, state) ==
  LET read[x \in Tree(nv, Children)] == ReadOne(x, state, read)
  IN  ReadOne(nv, state, read)

ReadLeaves(nvs, state) == [i \in DOMAIN nvs |-> PoolGetConfig(nvs[i], state)]

(* Pool.VDevTree: the tree of the root, with its spares and cache devices. *)
VDevTreeOf(root, state) ==
  LET parts == Split(root.children)
  IN  [devices |-> ReadLeaves(parts.plain, state),
       logs    |-> ReadLeaves(parts.logs, state),
       spares  |-> ReadLeaves(root.spares, state),
       l2cache |-> ReadLeaves(root.l2cache, state)]

(* Mutant: the devices of a group are forgotten.                           *)
CollectLeavesAtTop(nvs) ==
  {Name(nvs[i]) : i \in {k \in DOMAIN nvs : nvs[k].children = <<>>}} \ {IndirectName}

(* collect_zpool_leaves (zpool.c), for initialize.                         *)
Leaves(nvs) == {nv \in Forest(nvs, Children) : nv.children = <<>>}
CollectLeaves(nvs) == {Name(nv) : nv \in Leaves(nvs)} \ {IndirectName}
=============================================================================
