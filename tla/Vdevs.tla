------------------------------- MODULE Vdevs -------------------------------
(***************************************************************************)
(* One pool, its devices, and one open Pool value: PoolCreate turns a      *)
(* specification into the pool, VDevTree reads its configuration back,     *)
(* Online, Offline and Clear (zpool_vdev.go) change the state of devices   *)
(* one by one, Initialize works on all of them.  Devices fail and are      *)
(* repaired, and another client adds devices and logs and removes logs, at *)
(* any time.                                                               *)
(*                                                                         *)
(* zpool_get_config returns what the handle read when it was opened, or    *)
(* at the last RefreshStats: that is the variable cached.                  *)
(***************************************************************************)
EXTENDS VdevConfig, FiniteSets

CONSTANTS
  Specs,      \* specifications PoolCreate is called with
  Args,       \* sequences of device names for Online and Offline
  NewDevs,    \* devices another client adds, as logs or not; logs it removes too
  Frail,      \* bound: devices that may fail
  MaxEvents,  \* bound: devices failing, repaired, added or removed
  MaxOps      \* bound: calls of Online, Offline and Initialize

ASSUME BoundsAssumption == MaxEvents \in Nat /\ MaxOps \in Nat

(* What zpool_vdev_name makes the name of something that is no device.     *)
NoDevice == {NoPath, HoleName, IndirectName}

(* A specification is a finite tree, within MaxDepth, of devices that have *)
(* names.                                                                  *)
ASSUME SpecsAssumption ==
  \A s \in Specs :
    /\ s.devices \in Seq(ToSet(s.devices))
    /\ \A i \in DOMAIN s.devices :
         s.devices[i].parity \in Nat /\ s.devices[i].devices \in Seq(ToSet(s.devices[i].devices))
    /\ \A v \in Forest(s.devices, Grouped) : ToSet(Grouped(v)) \subseteq Forest(s.devices, Grouped)
    /\ IsFiniteSet(Leaves(BuildChildren(s.devices)))
    /\ \A l \in Leaves(BuildChildren(s.devices)) :
         l.type # HoleName /\ l.path \notin {HoleName, IndirectName}

ASSUME NamesAssumption == /\ NewDevs \cap NoDevice = {}
                          /\ \A a \in Args : a \in Seq(ToSet(a))

VARIABLES
  spec,     \* what PoolCreate was called with
  pool,     \* the pool's root nvlist
  state,    \* state of each device of the pool
  bad,      \* devices that cannot be opened
  cached,   \* configuration held by the handle
  call,     \* the Online or Offline call that runs or has just returned
  tree,     \* the last result of VDevTree
  initing,  \* initialization of each device of the pool: idle, active or suspended
  inited,   \* the last result of Initialize; history: whether no device refused
  stale,    \* history: the pool has changed since the handle read it
  calm,     \* history: no device has failed or come since the call began
  events, ops

vars == <<spec, pool, state, bad, cached, call, tree, initing, inited, stale, calm,
          events, ops>>

NoTree == [devices |-> <<>>, logs |-> <<>>, spares |-> <<>>, l2cache |-> <<>>]
NotRun == [action |-> "none", err |-> "nil", willing |-> TRUE]
NoCall == [op |-> "none", args |-> <<>>, left |-> <<>>, err |-> "nil"]
NoPool == Root

-----------------------------------------------------------------------------
(* The pool, external.                                                     *)
LeavesOf(nvs) == {nv.path : nv \in {l \in Leaves(nvs) : l.type # HoleName}}

Devices(root) ==
  LeavesOf(root.children) \cup LeavesOf(root.spares) \cup LeavesOf(root.l2cache)

(* zpool_create refuses a pool without devices, and types that it does not *)
(* know at the top.                                                        *)
Accepts(root) ==
  /\ root.children # <<>>
  /\ \A i \in DOMAIN root.children :
       root.children[i].type \in {"file", "disk", "mirror", "raidz"}

Running(p) == state[p] = "online"

(* A top-level vdev keeps a copy of the data without device p.             *)
Redundant(nv, p) ==
  LET others == {c \in LeavesOf(<<nv>>) \ {p} : Running(c)}
  IN  IF nv.type = "mirror" THEN others # {}
      ELSE nv.type = "raidz" /\ Cardinality(others) >= Len(nv.children) - nv.nparity

CanOffline(p) ==
  \E i \in DOMAIN pool.children :
    /\ p \in LeavesOf(<<pool.children[i]>>)
    /\ Redundant(pool.children[i], p) \/ ~Running(p)

InPool(p) == p \in LeavesOf(pool.children)

-----------------------------------------------------------------------------
Init ==
  /\ spec = [devices |-> <<>>, spares |-> <<>>, l2cache |-> <<>>]
  /\ pool = NoPool
  /\ state = [p \in {} |-> "online"]
  /\ bad = {}
  /\ cached = [root |-> NoPool, state |-> state]
  /\ call = NoCall
  /\ tree = NoTree
  /\ initing = [p \in {} |-> "idle"]
  /\ inited = NotRun
  /\ stale = FALSE
  /\ calm = TRUE
  /\ events = 0
  /\ ops = 0

Idle == call.left = <<>>
Open == pool # NoPool

(* PoolCreate up to the pool's opening; a refused specification leaves     *)
(* nothing behind.                                                         *)
PoolCreate(s) ==
  /\ ~Open
  /\ ValidCounts(s.devices)
  /\ Accepts(BuildVDevTree(s))
  /\ spec' = s
  /\ pool' = BuildVDevTree(s)
  /\ state' = [p \in Devices(pool') |-> "online"]
  /\ initing' = [p \in Devices(pool') |-> "idle"]
  /\ cached' = [root |-> pool', state |-> state']
  /\ UNCHANGED <<bad, call, tree, inited, stale, calm, events, ops>>

(* Pool.VDevTree.                                                          *)
VDevTree ==
  /\ Idle /\ Open
  /\ tree' = VDevTreeOf(cached.root, cached.state)
  /\ call' = NoCall /\ inited' = NotRun
  /\ UNCHANGED <<spec, pool, state, bad, cached, initing, stale, calm, events, ops>>

RefreshStats ==
  /\ Idle /\ Open
  /\ cached' = [root |-> pool, state |-> state]
  /\ stale' = FALSE
  /\ call' = NoCall /\ tree' = NoTree /\ inited' = NotRun
  /\ UNCHANGED <<spec, pool, state, bad, initing, calm, events, ops>>

Changes == stale' = TRUE /\ tree' = NoTree /\ inited' = NotRun

-----------------------------------------------------------------------------
(* Online and Offline: one step for each device of devs.                   *)
Begin(op, args) ==
  /\ Idle /\ Open /\ ops < MaxOps
  /\ call' = [op |-> op, args |-> args, left |-> args, err |-> "nil"]
  /\ calm' = TRUE
  /\ ops' = ops + 1
  /\ tree' = NoTree /\ inited' = NotRun
  /\ UNCHANGED <<spec, pool, state, bad, cached, initing, stale, events>>

Dev == Head(call.left)
Next1(err) == call' = [call EXCEPT !.left = Tail(@), !.err = err]
DevVars == <<spec, pool, bad, cached, initing, calm, events, ops>>

(* Mutant: what was wrong with an earlier device is forgotten.             *)
FoundForgotten(new) ==
  CASE new = "unknown" -> "last" [] new = "online" -> "nil" [] OTHER -> "faulted"

(* The error after a device whose new state is new; that of an earlier     *)
(* device stays if this one is healthy.  LastError is an error always.     *)
Found(new) ==
  CASE new = "unknown" -> "last"
    [] new = "online"  -> call.err
    [] OTHER           -> "faulted"

(* A device that is not part of the pool's tree leaves newstate unknown.   *)
OnlineDev ==
  /\ ~Idle /\ call.op = "online"
  /\ LET new == IF Dev \in bad THEN "faulted" ELSE "online"
     IN  IF InPool(Dev)
         THEN Next1(Found(new)) /\ state' = [state EXCEPT ![Dev] = new] /\ Changes
         ELSE Next1(Found("unknown")) /\ UNCHANGED <<state, stale, tree, inited>>
  /\ UNCHANGED DevVars

(* Mutant: the first refusal ends the call.                                *)
OfflineStops ==
  /\ ~Idle /\ call.op = "offline"
  /\ IF InPool(Dev) /\ CanOffline(Dev)
     THEN Next1(Found("unknown")) /\ state' = [state EXCEPT ![Dev] = "offline"] /\ Changes
     ELSE /\ call' = [call EXCEPT !.left = <<>>, !.err = "faulted"]
          /\ UNCHANGED <<state, stale, tree, inited>>
  /\ UNCHANGED DevVars

(* set_zpool_vdev_offline returns 0 or 1, which offline() reads as a       *)
(* VDevState: success as Unknown, failure as Closed.                       *)
OfflineDev ==
  /\ ~Idle /\ call.op = "offline"
  /\ IF InPool(Dev) /\ CanOffline(Dev)
     THEN Next1(Found("unknown")) /\ state' = [state EXCEPT ![Dev] = "offline"] /\ Changes
     ELSE Next1(Found("closed")) /\ UNCHANGED <<state, stale, tree, inited>>
  /\ UNCHANGED DevVars

(* Clear of the whole pool, or of one device.                              *)
Clear(ps) ==
  /\ Idle /\ Open
  /\ \E p \in ps : InPool(p) /\ state[p] = "faulted" /\ p \notin bad
  /\ state' = [p \in DOMAIN state |->
                 IF p \in ps \ bad /\ state[p] = "faulted" THEN "online" ELSE state[p]]
  /\ Changes
  /\ call' = NoCall
  /\ UNCHANGED DevVars

(* zpool_initialize, external: a device refuses that cannot be written to, *)
(* a start that already runs, a suspend of what does not run, a cancel of  *)
(* what was not started.                                                   *)
Refuses(action, p) ==
  \/ ~Running(p)
  \/ action = "start" /\ initing[p] = "active"
  \/ action = "suspend" /\ initing[p] # "active"
  \/ action = "cancel" /\ initing[p] = "idle"

Aim(action) ==
  CASE action = "start" -> "active" [] action = "suspend" -> "suspended" [] OTHER -> "idle"

(* initialize(action), of all leaves of the configuration.  A name that is *)
(* no device of the pool's fails the call with no effect; a device that    *)
(* refuses fails it too, and the others do what they are asked.            *)
Initialize(action) ==
  /\ Idle /\ Open /\ ops < MaxOps
  /\ LET vds == CollectLeaves(cached.root.children)
         leaves == LeavesOf(pool.children)
         known == vds \subseteq leaves
         done == known /\ \A p \in vds : ~Refuses(action, p)
     IN  /\ initing' = [p \in DOMAIN state |->
                          IF known /\ p \in vds /\ ~Refuses(action, p) THEN Aim(action)
                          ELSE initing[p]]
         /\ inited' = [action |-> action, err |-> IF done THEN "nil" ELSE "failed",
                       willing |-> \A p \in leaves : ~Refuses(action, p)]
  /\ call' = NoCall /\ tree' = NoTree
  /\ ops' = ops + 1
  /\ UNCHANGED <<spec, pool, state, bad, cached, stale, calm, events>>

-----------------------------------------------------------------------------
(* The rest of the system.                                                 *)
Event ==
  /\ Open /\ events < MaxEvents
  /\ events' = events + 1
  /\ calm' = FALSE
  /\ Changes
  /\ UNCHANGED <<spec, cached, call, ops>>

DeviceFails(p) ==
  /\ Event
  /\ p \notin bad /\ InPool(p)
  /\ bad' = bad \cup {p}
  /\ state' = [state EXCEPT ![p] = IF @ = "online" THEN "faulted" ELSE @]
  /\ UNCHANGED <<pool, initing>>

DeviceRepaired(p) ==
  /\ Event
  /\ p \in bad
  /\ bad' = bad \ {p}
  /\ UNCHANGED <<pool, state, initing>>

NewNv(p, log) ==
  [type |-> "file", isLog |-> log, nparity |-> 0, path |-> p, children |-> <<>>]
HoleNv == [type |-> HoleName, isLog |-> FALSE, nparity |-> 0, path |-> HoleName, children |-> <<>>]

AddVdev(p, log) ==
  /\ Event
  /\ p \notin Devices(pool)
  /\ initing' = [q \in DOMAIN state \cup {p} |-> IF q = p THEN "idle" ELSE initing[q]]
  /\ pool' = [pool EXCEPT !.children = Append(@, NewNv(p, log))]
  /\ state' = [q \in DOMAIN state \cup {p} |-> IF q = p THEN "online" ELSE state[q]]
  /\ UNCHANGED bad

(* A log that is not the last vdev leaves a hole; holes at the end go.     *)
Trimmed(nvs) ==
  SubSeq(nvs, 1, SelectLastInSeq(nvs, LAMBDA c : c.type # HoleName))

RemoveLog(p) ==
  /\ Event
  /\ \E i \in DOMAIN pool.children : pool.children[i].isLog /\ pool.children[i].path = p
  /\ pool' = [pool EXCEPT !.children =
                Trimmed([i \in DOMAIN @ |-> IF @[i].path = p THEN HoleNv ELSE @[i]])]
  /\ state' = [q \in DOMAIN state \ {p} |-> state[q]]
  /\ bad' = bad \ {p}
  /\ initing' = [q \in DOMAIN state \ {p} |-> initing[q]]

(* A device has been initialized to its end.                               *)
InitializationDone(p) ==
  /\ Open /\ initing[p] = "active"
  /\ initing' = [initing EXCEPT ![p] = "idle"]
  /\ inited' = NotRun
  /\ UNCHANGED <<spec, pool, state, bad, cached, call, tree, stale, calm, events, ops>>

Environment ==
  \/ \E p \in Frail : DeviceFails(p) \/ DeviceRepaired(p)
  \/ \E p \in NewDevs : RemoveLog(p) \/ \E log \in BOOLEAN : AddVdev(p, log)

Client ==
  \/ \E s \in Specs : PoolCreate(s)
  \/ VDevTree
  \/ RefreshStats
  \/ \E op \in {"online", "offline"}, a \in Args : Begin(op, a)
  \/ OnlineDev
  \/ OfflineDev
  \/ Clear(DOMAIN state)
  \/ \E p \in DOMAIN state : Clear({p})
  \/ \E a \in {"start", "suspend", "cancel"} : Initialize(a)

Next == Client \/ Environment \/ \E p \in DOMAIN initing : InitializationDone(p)

Spec == Init /\ [][Next]_vars

-----------------------------------------------------------------------------
Paths(vs) == [i \in DOMAIN vs |-> vs[i].path]
NamesOf(ds) == [i \in DOMAIN ds |-> ds[i].name]

Read(d) == d.devices

SameShape(ds, vs) ==
  LET same[d \in Forest(ds, Read), v \in Forest(vs, Grouped)] ==
        /\ d.type = v.type /\ d.logs = <<>>
        /\ IF IsGrouping(v)
           THEN /\ Len(d.devices) = Len(v.devices)
                /\ \A i \in DOMAIN d.devices : same[d.devices[i], v.devices[i]]
           ELSE d.name = v.path /\ d.devices = <<>>
  IN  Len(ds) = Len(vs) /\ \A i \in DOMAIN ds : same[ds[i], vs[i]]

(* "PoolCreate create ZFS pool per specs" (zpool.go:898), read back by     *)
(* VDevTree: the same groups with the same devices in the same order, at   *)
(* any depth, and, where no cache devices were given, the same spares.     *)
CreatedAsSpecified ==
  (tree # NoTree /\ events = 0) =>
    /\ SameShape(tree.devices, spec.devices)
    /\ tree.logs = <<>>
    /\ spec.l2cache = <<>> => NamesOf(tree.spares) = Paths(spec.spares)

(* The same with cache devices let in.                                     *)
SparesAndCacheAsSpecified ==
  tree # NoTree => /\ NamesOf(tree.spares) = Paths(spec.spares)
                   /\ NamesOf(tree.l2cache) = Paths(spec.l2cache)

(* At the edges of parity and size (zpool.go:658-678, 785): a raidz group  *)
(* that is created has at least the parity asked for, up to 254, never     *)
(* none, and a device that parity does not use; a mirror has a second      *)
(* side.                                                                   *)
RedundancyAsAsked ==
  \A i \in DOMAIN spec.devices :
    LET v == spec.devices[i]
        nv == pool.children[i]
        least(n) == nv.nparity >= n
    IN  /\ v.type = "raidz" =>
             /\ least(1) /\ (IF v.parity > MaxParity THEN least(MaxParity) ELSE least(v.parity))
             /\ nv.nparity < Len(nv.children) /\ Len(nv.children) <= MaxRaidz
        /\ v.type = "mirror" => Len(nv.children) > 1

ReadLeafStates(ds) ==
  {<<d.name, d.state>> : d \in {l \in Forest(ds, Read) : l.devices = <<>> /\ l.type # HoleName}}

IsLogNv(nv) == nv.isLog
AtMostOneLog == Len(SelectSeq(pool.children, IsLogNv)) <= 1

(* "VDevTree - Fetch pool's current vdev tree configuration, state and     *)
(* stats" (zpool.go:1047): every device, with its state, once the handle   *)
(* is refreshed; of several logs only one is kept.                         *)
TreeIsPool ==
  (tree # NoTree /\ ~stale /\ AtMostOneLog) =>
    ReadLeafStates(tree.devices) \cup ReadLeafStates(tree.logs)
      = {<<p, state[p]>> : p \in LeavesOf(pool.children)}

Returned(op) == Idle /\ call.op = op /\ calm
ArgSet == {call.args[i] : i \in DOMAIN call.args}

(* Online over several devices, good, faulty and unknown ones in any       *)
(* order: no error if and only if every one of them is online now.         *)
OnlineReports ==
  Returned("online") => (call.err = "nil" <=> \A p \in ArgSet : InPool(p) /\ Running(p))

(* Offline over several devices goes on after one that is refused: what    *)
(* can be taken offline is.                                                *)
OfflineTriesAll ==
  Returned("offline") =>
    \A p \in ArgSet : InPool(p) => (state[p] = "offline" \/ ~CanOffline(p))

HasHole == \E i \in DOMAIN pool.children : pool.children[i].type = HoleName

(* "Initialization action %s failed" (zpool.go:1108-1110).  Initialize on a *)
(* refreshed handle reaches every device of the pool, at any depth: its    *)
(* error is nil exactly if none refuses and there is no hole, whose name   *)
(* collect_zpool_leaves lists too; without a hole, and whatever the error, *)
(* every device that can be written to is afterwards in the state asked    *)
(* for.                                                                    *)
Reached(action, s) == IF action = "suspend" THEN s # "active" ELSE s = Aim(action)

InitializeReports ==
  (inited # NotRun /\ ~stale) =>
    /\ inited.err = "nil" <=> ~HasHole /\ inited.willing
    /\ HasHole \/ \A p \in LeavesOf(pool.children) :
                    /\ Running(p) => Reached(inited.action, initing[p])
                    /\ inited.err = "nil" => initing[p] = Aim(inited.action)
=============================================================================
