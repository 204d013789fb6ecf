--------------------------- MODULE DatasetHandles ---------------------------
(***************************************************************************)
(* The C memory behind Go Dataset values (zfs.go, zfs.c).                  *)
(*                                                                         *)
(* Every opened dataset owns one malloc'ed dataset_list_t, an item, freed  *)
(* through the sync.Once that was made with it.  A Dataset is a Go struct  *)
(* and is copied freely: `for _, c := range d.Children`, passing it to a   *)
(* function, assigning it.  A copy shares the item, the Once and the       *)
(* backing array of Children; its list field and its Children header are   *)
(* its own.  A place is where a struct lives: a client's variable, or the  *)
(* element of its parent's Children array, named by its item.              *)
(*                                                                         *)
(* One tree of items is opened.  Its shape is the constant Kids.           *)
(***************************************************************************)
EXTENDS Naturals, Sequences, FiniteSets

CONSTANTS
  Items,    \* dataset_list_t items of the opened tree
  Root,     \* the item of the dataset that was opened
  Kids,     \* Kids[i]: the items of its Children
  Vars,     \* client variables of type Dataset
  Procs,    \* client goroutines
  Main,     \* the one that opens the tree
  Owner,    \* Owner[v]: the goroutine variable v belongs to
  Ops,      \* API operations the clients use
  NoItem, NoPlace

ASSUME TreeAssumption ==
  /\ Root \in Items /\ Kids \in [Items -> SUBSET (Items \ {Root})]
  /\ Items \cap Vars = {} /\ NoItem \notin Items /\ NoPlace \notin Items \cup Vars

(* The tree has no other items: a set with Root and the Children of all    *)
(* its members has them all.                                               *)
ASSUME WholeTreeAssumption ==
  \A S \in SUBSET Items : (Root \in S /\ \A i \in S : Kids[i] \subseteq S) => S = Items

ASSUME ProcsAssumption == Main \in Procs /\ Owner \in [Vars -> Procs]

VARIABLES
  mem,     \* mem[i]: "none", "live" or "freed"
  frees,   \* frees[i]: how often item i was passed to free()
  once,    \* once[i]: its closeOnce, "new", "running" or "done"
  held,    \* held[v]: the struct in variable v
  elem,    \* elem[i]: the struct in its parent's Children array
  act,     \* act[g]: the Close goroutine g is in
  stack,   \* Main's DestroyRecursive activations, innermost first
  dplace,  \* the place it was called on
  uaf,     \* items a C call used after they were freed
  shed     \* a DestroyPromote has dropped Children without closing them

vars == <<mem, frees, once, held, elem, act, stack, dplace, uaf, shed>>
heap == <<mem, frees, once>>
places == <<held, elem>>
destroying == <<stack, dplace>>
seen == <<uaf, shed>>

(* nilled: list is nil.  cut: Children was replaced by an empty slice.     *)
Struct == [item : Items \cup {NoItem}, nilled : BOOLEAN, cut : BOOLEAN]
Zero == [item |-> NoItem, nilled |-> TRUE, cut |-> TRUE]
Opened(i) == [item |-> i, nilled |-> FALSE, cut |-> FALSE]

Idle == [pc |-> "idle", todo |-> {}, recv |-> NoPlace, cur |-> Zero]

Init ==
  /\ mem = [i \in Items |-> "none"]
  /\ frees = [i \in Items |-> 0]
  /\ once = [i \in Items |-> "new"]
  /\ held = [v \in Vars |-> Zero]
  /\ elem = [i \in Items |-> Zero]
  /\ act = [g \in Procs |-> Idle]
  /\ stack = <<>>
  /\ dplace = NoPlace
  /\ uaf = {}
  /\ shed = FALSE

At(p) == IF p \in Vars THEN held[p] ELSE elem[p]

Put(p, s) ==
  IF p \in Vars THEN held' = [held EXCEPT ![p] = s] /\ UNCHANGED elem
                ELSE elem' = [elem EXCEPT ![p] = s] /\ UNCHANGED held

(* A goroutine works through its own variables, Main also through the      *)
(* Children of a dataset it holds.                                         *)
Touches(g, p) ==
  \/ p \in Vars /\ Owner[p] = g /\ held[p].item # NoItem
  \/ /\ g = Main
     /\ \E v \in Vars : /\ Owner[v] = g
                        /\ held[v].item # NoItem /\ ~held[v].cut
                        /\ p \in Kids[held[v].item]

Free(g) == act[g].pc = "idle" /\ (g = Main => stack = <<>>)

(* A C call on items: what is freed already is used after free.            *)
Deref(is) == uaf' = uaf \cup {i \in is : mem[i] = "freed"}

-----------------------------------------------------------------------------
(* DatasetOpen: dataset_open, then openChildren down the tree.             *)
DatasetOpen(v) ==
  /\ Owner[v] = Main /\ held[v] = Zero
  /\ \A i \in Items : mem[i] = "none"
  /\ mem' = [i \in Items |-> "live"]
  /\ held' = [held EXCEPT ![v] = Opened(Root)]
  /\ elem' = [i \in Items |-> Opened(i)]
  /\ UNCHANGED <<frees, once, act, stack, dplace, seen>>

(* w := the struct at p, in the same goroutine or handed to another one.   *)
Copy(g, p, w) ==
  /\ "Copy" \in Ops
  /\ Free(g) /\ Touches(g, p)
  /\ held[w] = Zero /\ Free(Owner[w])
  /\ held' = [held EXCEPT ![w] = At(p)]
  /\ UNCHANGED <<heap, elem, act, destroying, seen>>

(* Any method that checks list for nil and calls C with it, Path() say.    *)
Use(g, p) ==
  /\ "Use" \in Ops
  /\ Free(g) /\ Touches(g, p)
  /\ ~At(p).nilled
  /\ Deref({At(p).item})
  /\ UNCHANGED <<heap, places, act, destroying, shed>>

-----------------------------------------------------------------------------
(* Close, on the receiver and then on copies of its children.              *)
CloseBegin(g, p) ==
  /\ "Close" \in Ops
  /\ Free(g) /\ Touches(g, p)
  /\ act' = [act EXCEPT ![g] = [pc |-> "close", todo |-> {At(p)}, recv |-> p, cur |-> Zero]]
  /\ UNCHANGED <<heap, places, destroying, seen>>

(* Mutant: the Children are left to the caller.                            *)
AfterDoNoChildren(g, x) ==
  LET now == act[g]
  IN  /\ act' = [act EXCEPT ![g] = Idle]
      /\ IF now.recv = NoPlace THEN UNCHANGED places
         ELSE Put(now.recv, [At(now.recv) EXCEPT !.nilled = TRUE])

(* What Close does after closeOnce.Do: list = nil on the receiver, then    *)
(* the loop over the Children of the struct x.                             *)
AfterDo(g, x) ==
  LET now  == act[g]
      more == (now.todo \ {x}) \cup
              IF x.cut THEN {} ELSE {elem[k] : k \in Kids[x.item]}
  IN  /\ act' = [act EXCEPT ![g] =
           IF more = {} THEN Idle
           ELSE [pc |-> "close", todo |-> more, recv |-> NoPlace, cur |-> Zero]]
      /\ IF now.recv = NoPlace THEN UNCHANGED places
         ELSE Put(now.recv, [At(now.recv) EXCEPT !.nilled = TRUE])

(* Mutant: the flag is tested without waiting for who is freeing.          *)
OnceEnterUnlocked(g, x) ==
  /\ act[g].pc = "close" /\ x \in act[g].todo
  /\ once[x.item] # "done"
  /\ once' = [once EXCEPT ![x.item] = "running"]
  /\ act' = [act EXCEPT ![g].pc = "free", ![g].cur = x]
  /\ UNCHANGED <<mem, frees, places, destroying, seen>>

OnceEnter(g, x) ==
  /\ act[g].pc = "close" /\ x \in act[g].todo
  /\ once[x.item] = "new"
  /\ once' = [once EXCEPT ![x.item] = "running"]
  /\ act' = [act EXCEPT ![g].pc = "free", ![g].cur = x]
  /\ UNCHANGED <<mem, frees, places, destroying, seen>>

(* Mutant: the Once is never done.                                         *)
FreeItemOnly(i) ==
  /\ mem' = [mem EXCEPT ![i] = "freed"]
  /\ frees' = [frees EXCEPT ![i] = @ + 1]
  /\ UNCHANGED once

FreeItem(i) ==
  /\ mem' = [mem EXCEPT ![i] = "freed"]
  /\ frees' = [frees EXCEPT ![i] = @ + 1]
  /\ once' = [once EXCEPT ![i] = "done"]

(* dataset_list_close(d.list)                                              *)
ListClose(g) ==
  /\ act[g].pc = "free"
  /\ FreeItem(act[g].cur.item)
  /\ AfterDo(g, act[g].cur)
  /\ UNCHANGED <<destroying, seen>>

(* A Once that is done is passed; one that runs elsewhere is waited for.   *)
OnceDone(g, x) ==
  /\ act[g].pc = "close" /\ x \in act[g].todo
  /\ once[x.item] = "done"
  /\ AfterDo(g, x)
  /\ UNCHANGED <<heap, destroying, seen>>

-----------------------------------------------------------------------------
(* DestroyRecursive on a filesystem, called by Main.                       *)
DFrame(s) ==
  [item |-> s.item, pc |-> "children", kids |-> IF s.cut THEN {} ELSE Kids[s.item]]

DestroyBegin(p) ==
  /\ "DestroyRecursive" \in Ops
  /\ Free(Main) /\ Touches(Main, p)
  /\ ~At(p).nilled
  /\ Deref({At(p).item})
  /\ stack' = <<DFrame(At(p))>>
  /\ dplace' = p
  /\ UNCHANGED <<heap, places, act, shed>>

Replace(fr) == stack' = [stack EXCEPT ![1] = fr]

(* c.DestroyRecursive() on the next child: its Path() is read first.       *)
DestroyChild(k) ==
  /\ stack # <<>> /\ k \in stack[1].kids
  /\ ~elem[k].nilled
  /\ Deref({elem[k].item})
  /\ stack' = <<DFrame(elem[k])>> \o [stack EXCEPT ![1].kids = @ \ {k}]
  /\ UNCHANGED <<heap, places, act, dplace, shed>>

(* The loop ended: Children is replaced in the struct DestroyRecursive was *)
(* called on; of the activations below only copies are changed.            *)
ClearChildren ==
  IF Len(stack) = 1 /\ Kids[stack[1].item] # {}
  THEN Put(dplace, [At(dplace) EXCEPT !.cut = TRUE])
  ELSE UNCHANGED places

DestroyOk ==
  /\ stack # <<>> /\ stack[1].pc = "children" /\ stack[1].kids = {}
  /\ Deref({stack[1].item})
  /\ ClearChildren
  /\ IF Len(stack) = 1 THEN stack' = <<>> ELSE Replace([stack[1] EXCEPT !.pc = "close"])
  /\ UNCHANGED <<heap, act, dplace, shed>>

(* libzfs refuses, or a child has a nil list: every activation returns.    *)
DestroyFails ==
  /\ stack # <<>> /\ stack[1].pc = "children"
  /\ \/ /\ stack[1].kids = {}
        /\ Deref({stack[1].item})
        /\ ClearChildren
     \/ /\ \E k \in stack[1].kids : elem[k].nilled
        /\ UNCHANGED <<places, uaf>>
  /\ stack' = <<>>
  /\ UNCHANGED <<heap, act, dplace, shed>>

(* c.Close() on the copy of the destroyed child, whose Children is empty.  *)
CloseChild ==
  /\ stack # <<>> /\ stack[1].pc = "close"
  /\ \/ once[stack[1].item] = "new" /\ FreeItem(stack[1].item)
     \/ once[stack[1].item] = "done" /\ UNCHANGED heap
  /\ stack' = Tail(stack)
  /\ UNCHANGED <<places, act, dplace, seen>>

(* DestroyPromote uses the whole tree and, when it succeeds, replaces      *)
(* Children without closing what was in it.                                *)
DestroyPromote(p) ==
  /\ "DestroyPromote" \in Ops
  /\ Free(Main) /\ Touches(Main, p)
  /\ ~At(p).nilled
  /\ Deref({At(p).item} \cup IF At(p).cut THEN {} ELSE Kids[At(p).item])
  /\ Put(p, [At(p) EXCEPT !.cut = TRUE])
  /\ shed' = TRUE
  /\ UNCHANGED <<heap, act, destroying>>

Places == Vars \cup Items

CloseStep(g) ==
  \/ \E x \in act[g].todo : OnceEnter(g, x) \/ OnceDone(g, x)
  \/ ListClose(g)

DestroyStep ==
  \/ \E k \in Items : DestroyChild(k)
  \/ DestroyOk
  \/ DestroyFails
  \/ CloseChild

Next ==
  \/ \E v \in Vars : DatasetOpen(v)
  \/ \E g \in Procs, p \in Places, w \in Vars : Copy(g, p, w)
  \/ \E g \in Procs, p \in Places : Use(g, p) \/ CloseBegin(g, p)
  \/ \E g \in Procs : CloseStep(g)
  \/ \E p \in Places : DestroyBegin(p) \/ DestroyPromote(p)
  \/ DestroyStep

Spec == Init /\ [][Next]_vars

-----------------------------------------------------------------------------
(* Every variable has its type, and an item is freed exactly when its Once *)
(* is done.                                                                *)
TypeOK ==
  /\ mem \in [Items -> {"none", "live", "freed"}]
  /\ frees \in [Items -> Nat]
  /\ once \in [Items -> {"new", "running", "done"}]
  /\ held \in [Vars -> Struct]
  /\ elem \in [Items -> Struct]
  /\ act \in [Procs -> [pc : {"idle", "close", "free"}, todo : SUBSET Struct,
                        recv : Vars \cup Items \cup {NoPlace}, cur : Struct]]
  /\ stack \in Seq([item : Items, pc : {"children", "close"}, kids : SUBSET Items])
  /\ dplace \in Vars \cup Items \cup {NoPlace}
  /\ uaf \subseteq Items /\ shed \in BOOLEAN
  /\ \A i \in Items : mem[i] = "freed" <=> once[i] = "done"

(* zfsTestDoubleFreeOnDestroy (zfs_test.go:350-372): however a Dataset is  *)
(* copied, closed, closed again, destroyed, and closed by another          *)
(* goroutine meanwhile, no item is passed to free() twice.                 *)
NoDoubleFree == \A i \in Items : frees[i] <= 1

(* "Close close dataset and all its recursive children datasets"           *)
(* (zfs.go:189-190): once every variable that holds a Dataset of the tree  *)
(* was closed, nothing of the tree is left allocated.  It holds as long as *)
(* DestroyPromote is not used, which drops the children (zfs.go:748).      *)
Quiet == stack = <<>> /\ \A g \in Procs : act[g].pc = "idle"

NoLeak ==
  (Quiet /\ ~shed /\ \A v \in Vars : held[v].nilled) => \A i \in Items : mem[i] # "live"

(* "Dataset handle not initialized or its closed" (zfs.go:22): a method    *)
(* called on a closed dataset reports it, it does not use freed memory.    *)
NoUseAfterFree == uaf = {}
=============================================================================
