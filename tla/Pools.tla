------------------------------- MODULE Pools -------------------------------
(***************************************************************************)
(* The life cycle of pools and of Pool values (zpool.go, zpool.c):         *)
(* PoolCreate, PoolImport, PoolImportByGUID, PoolImportSearch,             *)
(* PoolOpenAll, PoolCloseAll, Close, Destroy, Export, ExportForce.         *)
(*                                                                         *)
(* One goroutine makes one call after the other, in steps of one libzfs    *)
(* call each; a rival client of the system creates, imports, mounts,       *)
(* exports and destroys between any two of them.  A handle knows the name  *)
(* of its pool, and libzfs works by that name; a pool's identity is its    *)
(* guid.  The vdev tree of a pool is the business of Vdevs.                *)
(***************************************************************************)
EXTENDS Naturals, Sequences, FiniteSets, SequencesExt

CONSTANTS
  Guids,     \* pools that there are or may be
  Names,     \* their names
  NoGuid,    \* no pool
  Worlds,    \* initial values of world
  Broken,    \* pools whose vdev tree poolGetConfig cannot read
  MaxCalls,  \* bound: calls made
  MaxFaults, \* bound: calls into libzfs or libnvpair that fail of their own
  MaxRivals  \* bound: steps of the rival

ASSUME PoolsAssumption ==
  /\ NoGuid \notin Guids
  /\ Broken \subseteq Guids
  /\ MaxCalls \in Nat /\ MaxFaults \in Nat /\ MaxRivals \in Nat

(* The system has finitely many pools, and of those that are imported no   *)
(* two have one name.                                                      *)
ASSUME WorldsAssumption ==
  /\ IsFiniteSet(Guids)
  /\ \A w \in Worlds :
       /\ w \in [Guids -> [name : Names \cup {"none"},
                          where : {"free", "imported", "exported", "destroyed"},
                          mounted : BOOLEAN]]
       /\ \A g, h \in Guids :
            (w[g].where = "imported" /\ w[h].where = "imported" /\ w[g].name = w[h].name)
              => g = h

VARIABLES
  world,   \* guid |-> [name, where, mounted]
  heap,    \* the zpool_list_t items allocated so far: [guid, name, next, frees]
  one,     \* the list pointer of a Pool value, 0 when nil
  all,     \* the list pointers in the slice that PoolOpenAll returned
  closed,  \* history: the slice has been given to PoolCloseAll
  again,   \* history: items closed again through that slice
  call,    \* the call that runs or has just returned
  lists,   \* nvlists of that call: name |-> how often it was freed
  spare,   \* history: items that zpool_list_callb allocated and dropped
  calm,    \* history: no step of the rival since the call began
  calls, faults, rivals

vars == <<world, heap, one, all, closed, again, call, lists, spare, calm, calls, faults, rivals>>

NoLists == [l \in {} |-> 0]

Init ==
  /\ world \in Worlds
  /\ heap = <<>>
  /\ one = 0
  /\ all = <<>>
  /\ closed = FALSE /\ again = {}
  /\ call = [op |-> "none", pc |-> "done", at |-> "none", arg |-> NoGuid, err |-> "nil",
             pool |-> NoGuid, name |-> "none", listed |-> <<>>]
  /\ lists = NoLists
  /\ spare = {}
  /\ calm = TRUE
  /\ calls = 0 /\ faults = 0 /\ rivals = 0

-----------------------------------------------------------------------------
(* The system's pools, external.                                           *)
Imported == {g \in Guids : world[g].where = "imported"}
Named(n) == {g \in Imported : world[g].name = n}
OnDisk == {g \in Guids : world[g].where \in {"exported", "destroyed"}}

CanCreate(g, n) == world[g].where = "free" /\ Named(n) = {}
CanImport(g) == g \in OnDisk /\ Named(world[g].name) = {}
Retirable == {g \in Imported : ~world[g].mounted}

NewPool(g, n) == [world EXCEPT ![g] = [name |-> n, where |-> "imported", mounted |-> FALSE]]
Moved(g, where) == [world EXCEPT ![g].where = where, ![g].mounted = FALSE]

(* What the goroutine's calls leave alone.                                 *)
memory == <<heap, one, all, spare, closed, again>>
bounds == <<calls, rivals>>

Rival ==
  /\ rivals < MaxRivals
  /\ rivals' = rivals + 1
  /\ calm' = FALSE
  /\ \E g \in Guids :
       \/ \E n \in Names : CanCreate(g, n) /\ world' = NewPool(g, n)
       \/ CanImport(g) /\ world' = Moved(g, "imported")
       \/ g \in Imported /\ world' = [world EXCEPT ![g].mounted = ~@]
       \/ \E w \in {"exported", "destroyed"} : g \in Retirable /\ world' = Moved(g, w)
  /\ UNCHANGED <<memory, call, lists, calls, faults>>

-----------------------------------------------------------------------------
(* Calls.                                                                  *)
Idle == call.pc = "done"
At(pc) == call.pc = pc
Goto(pc) == call' = [call EXCEPT !.pc = pc]

Start(op, pc, arg, name) ==
  /\ Idle /\ calls < MaxCalls
  /\ calls' = calls + 1
  /\ calm' = TRUE
  /\ call' = [op |-> op, pc |-> pc, at |-> "none", arg |-> arg, err |-> "nil", pool |-> NoGuid,
              name |-> name, listed |-> <<>>]

(* A call whose C calls cannot be told from one.                           *)
AtOnce(op, err) ==
  /\ calm' = TRUE
  /\ call' = [op |-> op, pc |-> "done", at |-> "none", arg |-> NoGuid, err |-> err,
              pool |-> NoGuid, name |-> "none", listed |-> <<>>]

Deferred == {"root", "cprops", "cfsprops"} \cap DOMAIN lists

(* Every deferred nvlist_free runs when PoolCreate returns, the one of a   *)
(* list that was freed on the way included.                                *)
RunDeferred(kept) == lists' = [l \in DOMAIN lists |-> lists[l] + IF l \in kept THEN 1 ELSE 0]

(* at keeps the step a call was left in.                                   *)
ReturnWith(err) == call' = [call EXCEPT !.pc = "done", !.at = call.pc, !.err = err]
Finish(err) == ReturnWith(err) /\ RunDeferred(Deferred)

Fault == faults < MaxFaults /\ faults' = faults + 1
NoFault == UNCHANGED faults

(* zpool_list_open: a new item for the pool of that name.                  *)
Item(g, n, next) == [guid |-> g, name |-> n, next |-> next, frees |-> 0]

(* PoolOpen(call.name), the last step of PoolCreate and the imports.  The  *)
(* properties are always read: read_zpool_properties returns a list.       *)
Open ==
  /\ At("open")
  /\ IF Named(call.name) = {}
     THEN Finish("error") /\ UNCHANGED <<heap, one>>
     ELSE \E g \in Named(call.name) :
            /\ heap' = Append(heap, Item(g, call.name, 0))
            /\ one' = Len(heap')
            /\ Finish("nil")
  /\ NoFault
  /\ UNCHANGED <<world, all, spare, closed, again, calm, bounds>>

-----------------------------------------------------------------------------
(* PoolCreate.  arg says whether pool properties were given, and whether   *)
(* the map of features is nil.                                             *)
Alloc(l) == lists' = [m \in DOMAIN lists \cup {l} |-> IF m = l THEN 0 ELSE lists[m]]
createRest == <<world, memory, calm, bounds>>

PoolCreate(n, withProps, nilMap) ==
  /\ one = 0
  /\ Start("create", "build", [props |-> withProps, nilMap |-> nilMap], n)
  /\ lists' = NoLists
  /\ UNCHANGED <<world, memory, faults, rivals>>

(* The root nvlist: its type is added before its nvlist_free is deferred.  *)
BuildRoot ==
  /\ At("build")
  /\ \/ Alloc("root") /\ Goto("build2") /\ NoFault
     \/ Fault /\ ReturnWith("error") /\ (Alloc("root") \/ UNCHANGED lists)
  /\ UNCHANGED createRest

(* buildVDevTree may refuse.  Then the defaults are written into the       *)
(* caller's map of features.                                               *)
BuildTree ==
  /\ At("build2")
  /\ \/ Finish("error") /\ Fault
     \/ /\ NoFault
        /\ IF call.arg.nilMap THEN Finish("panic") ELSE Goto("props") /\ UNCHANGED lists
  /\ UNCHANGED createRest

(* toCPoolProperties: without memory there is no list, which is an error   *)
(* only if there are properties.                                           *)
ToCPoolProperties ==
  /\ At("props")
  /\ \/ Alloc("cprops") /\ Goto("fsprops") /\ NoFault
     \/ Fault /\ IF call.arg.props THEN Finish("error")
                 ELSE Goto("fsprops") /\ UNCHANGED lists
  /\ UNCHANGED createRest

ToCDatasetProperties ==
  /\ At("fsprops")
  /\ \/ Alloc("cfsprops") /\ Goto("features") /\ NoFault
     \/ Fault /\ Finish("error")
     \/ Fault /\ Goto("features") /\ UNCHANGED lists
  /\ UNCHANGED createRest

(* Mutant: the lists are freed after a success only.                       *)
ZpoolCreateNoDefer ==
  /\ At("create")
  /\ \/ \E g \in Guids :
          /\ CanCreate(g, call.name)
          /\ world' = NewPool(g, call.name)
          /\ call' = [call EXCEPT !.pc = "open", !.pool = g]
          /\ NoFault /\ UNCHANGED lists
     \/ /\ ReturnWith("error") /\ UNCHANGED <<world, lists>>
        /\ IF \E g \in Guids : CanCreate(g, call.name) THEN Fault ELSE NoFault
  /\ UNCHANGED <<memory, calm, bounds>>

(* The loop over the features.  A failure frees cprops at once, and again  *)
(* when the deferred calls run; the error it returns is nil.  Without      *)
(* cprops the first feature fails.                                         *)
AddFeatures ==
  /\ At("features")
  /\ \/ "cprops" \in DOMAIN lists /\ Goto("create") /\ NoFault /\ UNCHANGED lists
     \/ /\ IF "cprops" \in DOMAIN lists THEN Fault ELSE NoFault
        /\ ReturnWith("nil")
        /\ lists' = [l \in DOMAIN lists |-> lists[l] + IF l = "cprops" THEN 2 ELSE 1]
  /\ UNCHANGED createRest

ZpoolCreate ==
  /\ At("create")
  /\ \/ \E g \in Guids :
          /\ CanCreate(g, call.name)
          /\ world' = NewPool(g, call.name)
          /\ call' = [call EXCEPT !.pc = "open", !.pool = g]
          /\ NoFault /\ UNCHANGED lists
     \/ /\ \A g \in Guids : ~CanCreate(g, call.name)
        /\ Finish("error") /\ NoFault /\ UNCHANGED world
     \/ Finish("error") /\ Fault /\ UNCHANGED world
  /\ UNCHANGED <<memory, calm, bounds>>

-----------------------------------------------------------------------------
(* PoolImport (by name) and PoolImportByGUID: poolSearchImport, then       *)
(* PoolOpen of the name.                                                   *)
PoolImport(n) ==
  /\ one = 0
  /\ Start("import", "search", NoGuid, n)
  /\ lists' = NoLists
  /\ UNCHANGED <<world, memory, faults, rivals>>

PoolImportByGUID(g) ==
  /\ one = 0
  /\ Start("importGuid", "search", g, "none")
  /\ lists' = NoLists
  /\ UNCHANGED <<world, memory, faults, rivals>>

(* Mutants: destroyed pools are not skipped; the first of the rest matches.  *)
MatchesDestroyed(g) ==
  g \in OnDisk /\ IF call.op = "importGuid" THEN g = call.arg ELSE world[g].name = call.name

MatchesAny(g) == g \in OnDisk /\ world[g].where # "destroyed"

(* The pools in the order zpool_search_import lists them, which may be     *)
(* any: the first that matches.  Destroyed pools are skipped.              *)
Matches(g) ==
  /\ g \in OnDisk /\ world[g].where # "destroyed"
  /\ IF call.op = "importGuid" THEN g = call.arg ELSE world[g].name = call.name

(* Mutant: the first pool is the only one looked at.                       *)
SearchImportFirst ==
  /\ At("search")
  /\ \E g \in OnDisk :
       IF Matches(g)
       THEN call' = [call EXCEPT !.pc = "import", !.pool = g, !.name = world[g].name]
       ELSE ReturnWith("error")
  /\ NoFault
  /\ UNCHANGED <<world, memory, lists, calm, bounds>>

SearchImport ==
  /\ At("search")
  /\ \/ \E g \in Guids :
          /\ Matches(g)
          /\ call' = [call EXCEPT !.pc = "import", !.pool = g, !.name = world[g].name]
          /\ NoFault
     \/ (\A g \in Guids : ~Matches(g)) /\ ReturnWith("error") /\ NoFault
     \/ ReturnWith("error") /\ Fault
  /\ UNCHANGED <<world, memory, lists, calm, bounds>>

(* zpool_import_props with the configuration that was found.               *)
ZpoolImport ==
  /\ At("import")
  /\ \/ CanImport(call.pool) /\ world' = Moved(call.pool, "imported") /\ Goto("open") /\ NoFault
     \/ ~CanImport(call.pool) /\ UNCHANGED world /\ ReturnWith("error") /\ NoFault
     \/ UNCHANGED world /\ ReturnWith("error") /\ Fault
  /\ UNCHANGED <<memory, lists, calm, bounds>>

(* What go_zpool_search_import found: the pools on disk, as they are then. *)
Configs == {[guid |-> g, destroyed |-> world[g].where = "destroyed"] : g \in OnDisk}

PoolImportSearch ==
  /\ Start("list", "scan", Configs, "none")
  /\ lists' = NoLists
  /\ UNCHANGED <<world, memory, faults, rivals>>

(* Mutant: the loop ends at a destroyed pool.                              *)
SearchTurnBreak ==
  /\ At("scan")
  /\ \E c \in call.arg :
       IF c.destroyed THEN ReturnWith(call.err)
       ELSE call' = [call EXCEPT !.arg = @ \ {c}, !.listed = Append(@, c.guid)]
  /\ NoFault
  /\ UNCHANGED <<world, memory, lists, calm, bounds>>

(* One turn of the loop of PoolImportSearch.  The error of poolGetConfig   *)
(* does not end it, and the next turn overwrites it; others end it.        *)
SearchTurn ==
  /\ At("scan")
  /\ \E c \in call.arg :
       \/ /\ c.destroyed
          /\ call' = [call EXCEPT !.arg = @ \ {c}]
          /\ NoFault
       \/ /\ ~c.destroyed
          /\ call' = [call EXCEPT !.arg = @ \ {c}, !.listed = Append(@, c.guid),
                                  !.err = IF c.guid \in Broken THEN "error" ELSE "nil"]
          /\ NoFault
       \/ ReturnWith("error") /\ Fault
  /\ UNCHANGED <<world, memory, lists, calm, bounds>>

SearchDone ==
  /\ At("scan") /\ call.arg = {}
  /\ ReturnWith(call.err) /\ NoFault
  /\ UNCHANGED <<world, memory, lists, calm, bounds>>

-----------------------------------------------------------------------------
(* PoolOpenAll: zpool_iter chains the items, the newest first, and drops   *)
(* the item that zpool_list_callb allocates for the first pool.  The loop  *)
(* of PoolOpenAll then cuts the chain.                                     *)
Chained(order) ==
  [i \in DOMAIN order |->
     Item(order[i], world[order[i]].name, IF i = 1 THEN 0 ELSE Len(heap) + i - 1)]

(* Mutant: pool.list.pnext keeps its value.                                *)
CutNothing(items) == items

Cut(items) == [i \in DOMAIN items |-> [items[i] EXCEPT !.next = 0]]

Elements(order) == Reverse([i \in DOMAIN order |-> Len(heap) + i])

PoolOpenAll ==
  /\ closed \/ \A i \in DOMAIN all : all[i] = 0
  /\ Idle /\ calls < MaxCalls
  /\ calls' = calls + 1
  /\ AtOnce("openAll", IF Imported = {} THEN "error" ELSE "nil")
  /\ \E order \in SetToSeqs(Imported) :
       LET n == Len(heap) + Len(order)
           dropped == IF order = <<>> THEN <<>> ELSE <<Item(NoGuid, "none", 0)>>
       IN  /\ heap' = heap \o Cut(Chained(order)) \o dropped
           /\ all' = Elements(order)
           /\ spare' = IF order = <<>> THEN spare ELSE spare \cup {n + 1}
  /\ closed' = FALSE
  /\ lists' = NoLists
  /\ UNCHANGED <<world, one, again, faults, rivals>>

(* zpool_list_close frees the item and all that are chained to it, which   *)
(* are older ones.                                                         *)
ChainFrom(i) ==
  LET from[k \in 0..Len(heap)] == IF k = 0 THEN {} ELSE {k} \cup from[heap[k].next]
  IN  from[i]

(* What becomes of the items when the lists ps[1], ps[2], ... are closed.  *)
Freed(ps) ==
  [k \in DOMAIN heap |->
     [heap[k] EXCEPT !.frees = @ + Cardinality({i \in DOMAIN ps : k \in ChainFrom(ps[i])})]]

Seen == call' = [call EXCEPT !.op = "none", !.at = "none"]

Close ==
  /\ Idle /\ one # 0
  /\ heap' = Freed(<<one>>)
  /\ one' = 0
  /\ Seen
  /\ UNCHANGED <<world, all, closed, again, lists, spare, calm, calls, faults, rivals>>

(* Items of the slice that are freed already.                              *)
Stale(ps) == IF closed THEN Range(ps) \ {0} ELSE {}

(* pools[i].Close() leaves a nil list in the slice.                        *)
CloseElement(i) ==
  /\ Idle /\ all[i] # 0
  /\ heap' = Freed(<<all[i]>>)
  /\ all' = [all EXCEPT ![i] = 0]
  /\ again' = Stale(<<all[i]>>)
  /\ Seen
  /\ UNCHANGED <<world, one, closed, lists, spare, calm, calls, faults, rivals>>

(* The loop closes copies of the slice's elements: their list pointers     *)
(* stay, and now point to freed items.                                     *)
PoolCloseAll ==
  /\ Idle /\ all # <<>>
  /\ heap' = Freed(all)
  /\ closed' = TRUE
  /\ again' = Stale(all)
  /\ Seen
  /\ UNCHANGED <<world, one, all, lists, spare, calm, calls, faults, rivals>>

-----------------------------------------------------------------------------
(* Destroy, Export, ExportForce of the pool that has the handle's name.    *)
OnHandle(op, pc) ==
  /\ one # 0
  /\ Start(op, pc, Named(heap[one].name), heap[one].name)
  /\ lists' = NoLists
  /\ UNCHANGED <<world, memory, faults, rivals>>

onHandleRest == <<memory, lists, calm, bounds>>

(* One libzfs call that takes the pool away, or fails.                     *)
Retire(pc, able, where) ==
  /\ At(pc)
  /\ \/ \E g \in Named(call.name) \cap able :
          /\ world' = Moved(g, where)
          /\ call' = [call EXCEPT !.pc = "done", !.pool = g]
          /\ NoFault
     \/ Named(call.name) \cap able = {} /\ ReturnWith("error") /\ NoFault /\ UNCHANGED world
     \/ ReturnWith("error") /\ Fault /\ UNCHANGED world
  /\ UNCHANGED onHandleRest

Destroy == Retire("destroy", Retirable, "destroyed")

(* Mutant: the error of zpool_disable_datasets is set and not returned.    *)
DisableDatasetsLost ==
  /\ At("disable")
  /\ world' = [g \in Guids |-> IF g \in Named(call.name)
                                THEN [world[g] EXCEPT !.mounted = FALSE] ELSE world[g]]
  /\ \/ Goto("export") /\ NoFault
     \/ call' = [call EXCEPT !.pc = "export", !.err = "error"] /\ Fault
  /\ UNCHANGED onHandleRest

(* zpool_disable_datasets unmounts; a failure may come before or after.    *)
DisableDatasets ==
  /\ At("disable")
  /\ \/ /\ world' = [g \in Guids |-> IF g \in Named(call.name)
                                     THEN [world[g] EXCEPT !.mounted = FALSE] ELSE world[g]]
        /\ \/ Goto("export") /\ NoFault
           \/ ReturnWith("error") /\ Fault
     \/ UNCHANGED world /\ ReturnWith("error") /\ Fault
  /\ UNCHANGED onHandleRest

Export == Retire("export", Retirable, "exported")

ExportForce == Retire("exportForce", Imported, "exported")

Begins ==
  \/ \E n \in Names : PoolImport(n) \/ \E p, m \in BOOLEAN : PoolCreate(n, p, m)
  \/ \E g \in Guids : PoolImportByGUID(g)
  \/ PoolImportSearch
  \/ PoolOpenAll
  \/ OnHandle("destroy", "destroy")
  \/ OnHandle("export", "disable")
  \/ OnHandle("exportForce", "exportForce")

Steps ==
  \/ BuildRoot \/ BuildTree \/ ToCPoolProperties \/ ToCDatasetProperties
  \/ AddFeatures \/ ZpoolCreate
  \/ SearchImport \/ ZpoolImport
  \/ SearchTurn \/ SearchDone
  \/ Open
  \/ Destroy \/ DisableDatasets \/ Export \/ ExportForce

Closes ==
  \/ Close
  \/ \E i \in DOMAIN all : CloseElement(i)
  \/ PoolCloseAll

(* A second free is undefined behaviour: what follows it is not modelled.  *)
Next == again = {} /\ (Begins \/ Steps \/ Closes \/ Rival)

Spec == Init /\ [][Next]_vars

-----------------------------------------------------------------------------
Returned(op) == Idle /\ call.op = op
Quiet(op) == Returned(op) /\ calm

(* Each nvlist that a call of PoolCreate allocated is freed once when it   *)
(* has returned, however it returned (zpool.go:915, 943, 950), with two    *)
(* exceptions: the root that got no type (909-914) is lost, and when a     *)
(* feature cannot be added (961-967) the properties, and nothing else, are *)
(* freed twice; the error is nil then, and there is no pool.               *)
ListsFreedOnce ==
  Returned("create") =>
    \A l \in DOMAIN lists :
      lists[l] = CASE call.at = "build" -> 0
                   [] call.at = "features" /\ l = "cprops" -> 2
                   [] OTHER -> 1

(* PoolCreate and the imports without an error return an open handle, but  *)
(* for a feature that could not be added; and, when nobody interferes, the *)
(* handle of the pool they created or imported: the right guid, although   *)
(* they open it by name.                                                   *)
Makers == {"create", "import", "importGuid"}

HandleIsThePool ==
  \A op \in Makers :
    (Returned(op) /\ call.err = "nil") =>
      IF one = 0 THEN op = "create" /\ call.at = "features"
      ELSE calm => /\ heap[one].guid = call.pool
                   /\ call.pool \in Imported
                   /\ op = "importGuid" => call.pool = call.arg

(* No step of the goroutine brings a destroyed pool back, unless the rival *)
(* destroyed it after the search.                                          *)
NoResurrection ==
  [][\A g \in Guids :
       (world[g].where = "destroyed" /\ world'[g].where = "imported") => ~calm']_vars

(* "find and import pool with matching name" (zpool.go:435-436): an import *)
(* fails only if there is no such pool, or another one holds its name, or  *)
(* libzfs fails.                                                           *)
ImportFindsThePool ==
  (Quiet("import") /\ call.err = "error" /\ faults = 0) =>
    \/ \A g \in OnDisk : world[g].name = call.name => world[g].where = "destroyed"
    \/ Named(call.name) # {}

(* "Search pools available to import but not imported" (zpool.go:306):     *)
(* unless the loop was left with an error, all of them and no destroyed    *)
(* ones.                                                                   *)
SearchListsAll ==
  (Quiet("list") /\ (call.err = "nil" \/ faults = 0)) =>
    Range(call.listed) = {g \in Guids : world[g].where = "exported"}

(* An item that a Pool points to, in the slice or alone, was not freed; of *)
(* all others each was freed once, whatever was closed in which order and  *)
(* although closing one frees its whole chain.  Excepted are the items     *)
(* that the callback of zpool_iter drops, one for each PoolOpenAll.  The   *)
(* slice does not count any more once PoolCloseAll had it: its pointers    *)
(* dangle (zpool.go:485-488), and a Close through them, and only that,     *)
(* frees an item twice.                                                    *)
Live == ({one} \cup IF closed THEN {} ELSE Range(all)) \ {0}

ItemsFreedOnce ==
  \A k \in DOMAIN heap :
    heap[k].frees = CASE k \in Live \cup spare -> 0 [] k \in again -> 2 [] OTHER -> 1

(* Destroy and Export, when nobody interferes: nil means that the pool of  *)
(* the handle's name has gone, an error that it is still imported, though  *)
(* Export may have unmounted it (zpool.go:1016-1031).                      *)
RetireReports ==
  \A op \in {"destroy", "export", "exportForce"} :
    Quiet(op) => IF call.err = "nil" THEN call.arg = {call.pool} /\ call.pool \notin Imported
                                     ELSE call.arg \subseteq Imported
=============================================================================
