------------------------ MODULE DatasetHandlesProofs ------------------------
(***************************************************************************)
(* Proofs about DatasetHandles, for any tree of datasets, any number of    *)
(* variables and goroutines: every item is freed at most once, and when    *)
(* every variable was closed none is left.                                 *)
(*                                                                         *)
(* At most once: an item is freed by the goroutine that is inside its      *)
(* Once, or by CloseChild when nobody ever was; only one goroutine is      *)
(* inside at a time, and afterwards the Once is done.  That needs to know  *)
(* that what is closed is an item at all, which is so because a goroutine  *)
(* reaches a Children element only through a variable that holds an opened *)
(* dataset.                                                                *)
(*                                                                         *)
(* None left: the Once of a dataset is done only when its children are     *)
(* done, or a goroutine has them among those it has yet to close (Covered) *)
(* and when no goroutine is in Close there are none of those.              *)
(***************************************************************************)
EXTENDS DatasetHandles, SequenceTheorems, TLAPS

USE TreeAssumption, ProcsAssumption

(* The types of act[g] and of an element of stack, as TypeOK has them.     *)
Closings ==
  [pc : {"idle", "close", "free"}, todo : SUBSET Struct,
   recv : Vars \cup Items \cup {NoPlace}, cur : Struct]

Destroyings == [item : Items, pc : {"children", "close"}, kids : SUBSET Items]

(* Either the tree was opened, and every element holds its own item, or    *)
(* nobody holds or does anything.                                          *)
Grown == \A i \in Items : elem[i].item = i

Nobody ==
  /\ \A v \in Vars : held[v].item = NoItem
  /\ \A g \in Procs : act[g] = Idle
  /\ stack = <<>>

(* What a Close works on are items, and the one it frees is in its Once.   *)
Closing(g) ==
  /\ \A x \in act[g].todo : x.item \in Items
  /\ act[g].pc = "free" =>
       act[g].cur.item \in Items /\ once[act[g].cur.item] = "running"

Exclusive(g, h) ==
  (act[g].pc = "free" /\ act[h].pc = "free" /\ act[g].cur.item = act[h].cur.item)
    => g = h

(* An activation of DestroyRecursive has a struct it was called on.        *)
Aimed == stack # <<>> => dplace \in Places

Counted(i) == frees[i] = IF once[i] = "done" THEN 1 ELSE 0

IInv ==
  /\ TypeOK
  /\ Grown \/ Nobody
  /\ \A g \in Procs : Closing(g)
  /\ \A g, h \in Procs : Exclusive(g, h)
  /\ Aimed
  /\ \A i \in Items : Counted(i)

-----------------------------------------------------------------------------
LEMMA InitIInv == Init => IInv
<1> SUFFICES ASSUME Init PROVE IInv
  OBVIOUS
<1>1. Zero \in Struct /\ Idle.cur = Zero /\ Idle.todo = {} /\ Idle.pc = "idle"
  BY DEF Zero, Struct, Idle
<1>2. TypeOK
  <2>1. Idle \in Closings
    BY <1>1 DEF Closings, Idle
  <2>2. stack \in Seq(Destroyings)
    BY DEF Init
  <2>3. act \in [Procs -> Closings]
    BY <2>1 DEF Init
  <2> QED BY <1>1, <2>2, <2>3 DEF Init, TypeOK, Closings, Destroyings
<1>3. Nobody
  BY DEF Init, Nobody, Zero
<1>4. \A g \in Procs : Closing(g)
  BY <1>1 DEF Init, Closing
<1>5. \A g, h \in Procs : Exclusive(g, h)
  BY <1>1 DEF Init, Exclusive
<1>6. \A i \in Items : Counted(i)
  BY DEF Init, Counted
<1>7. Aimed
  BY DEF Init, Aimed
<1> QED BY <1>2, <1>3, <1>4, <1>5, <1>6, <1>7 DEF IInv

-----------------------------------------------------------------------------
(* The struct at a place, and what a change of one struct leaves alone.    *)
Typed == held \in [Vars -> Struct] /\ elem \in [Items -> Struct]

SameItems ==
  /\ \A v \in Vars : held'[v].item = held[v].item
  /\ \A i \in Items : elem'[i].item = elem[i].item

LEMMA AtTyped ==
  ASSUME Typed, NEW p \in Places
  PROVE  At(p) \in Struct
  BY DEF Typed, Places, At

LEMMA PutKeepsItems ==
  ASSUME Typed, NEW p \in Places, NEW s \in Struct, s.item = At(p).item, Put(p, s)
  PROVE  Typed' /\ SameItems
  BY DEF Typed, Places, At, Put, SameItems

(* Who touches a place, touches an opened struct.                          *)
LEMMA TouchesOpened ==
  ASSUME IInv, NEW g \in Procs, NEW p \in Places, Touches(g, p)
  PROVE  Grown /\ At(p) \in Struct /\ At(p).item \in Items
<1>1. \E v \in Vars : held[v].item # NoItem
  BY DEF Touches
<1>2. Grown
  BY <1>1 DEF IInv, Nobody
<1>3. Typed
  BY DEF IInv, TypeOK, Typed
<1>4. At(p) \in Struct
  BY <1>3, AtTyped
<1>5. CASE p \in Vars
  <2>1. p \notin Items /\ \A v \in Vars : held[v].item # NoItem => Kids[held[v].item] \subseteq Items
    BY <1>3, <1>5 DEF Typed, Struct
  <2>2. At(p).item # NoItem
    BY <1>5, <2>1 DEF Touches, At
  <2> QED BY <2>2, <1>2, <1>4 DEF Struct
<1>6. CASE p \notin Vars
  <2>1. p \in Items
    BY <1>6 DEF Places
  <2> QED BY <2>1, <1>6, <1>2, <1>4 DEF Grown, At
<1> QED BY <1>5, <1>6

-----------------------------------------------------------------------------
(* The two halves of IInv that most steps leave alone.                     *)
HeapOK ==
  /\ mem \in [Items -> {"none", "live", "freed"}]
  /\ frees \in [Items -> Nat]
  /\ once \in [Items -> {"new", "running", "done"}]
  /\ \A i \in Items : mem[i] = "freed" <=> once[i] = "done"
  /\ \A i \in Items : Counted(i)

CallsOK ==
  /\ act \in [Procs -> Closings]
  /\ stack \in Seq(Destroyings)
  /\ dplace \in Places \cup {NoPlace}
  /\ \A g \in Procs : Closing(g)
  /\ \A g, h \in Procs : Exclusive(g, h)
  /\ Aimed

SeenOK == uaf \subseteq Items /\ shed \in BOOLEAN

LEMMA Parts ==
  IInv => HeapOK /\ CallsOK /\ SeenOK /\ Typed
  BY DEF IInv, TypeOK, HeapOK, CallsOK, SeenOK, Typed, Closings, Destroyings, Places

LEMMA Whole ==
  ASSUME HeapOK', CallsOK', SeenOK', Typed', (Grown \/ Nobody)'
  PROVE  IInv'
  BY DEF IInv, TypeOK, HeapOK, CallsOK, SeenOK, Typed, Closings, Destroyings, Places

(* Freeing an item whose Once is not done keeps the account.               *)
LEMMA FreeItemOnce ==
  ASSUME HeapOK, NEW i \in Items, once[i] # "done", FreeItem(i)
  PROVE  HeapOK' /\ once' = [once EXCEPT ![i] = "done"]
  BY DEF HeapOK, FreeItem, Counted

LEMMA DerefTyped ==
  ASSUME SeenOK, NEW is \in SUBSET Items, Deref(is)
  PROVE  uaf' \subseteq Items
  BY DEF SeenOK, Deref

(* Steps that change neither the heap nor act.                             *)
LEMMA CallsKept ==
  ASSUME CallsOK, UNCHANGED <<once, act>>,
         stack' \in Seq(Destroyings), dplace' \in Places \cup {NoPlace}, Aimed'
  PROVE  CallsOK'
  BY DEF CallsOK, Closing, Exclusive

LEMMA HeapKept ==
  ASSUME HeapOK, UNCHANGED heap
  PROVE  HeapOK'
  BY DEF HeapOK, heap, Counted

(* A tree that was opened stays so while items keep their place.           *)
LEMMA GrownKept ==
  ASSUME Typed, Typed', SameItems, Grown
  PROVE  Grown'
  BY DEF Grown, SameItems

LEMMA PlacesKept ==
  ASSUME Typed, UNCHANGED places
  PROVE  Typed' /\ SameItems
  BY DEF Typed, places, SameItems

-----------------------------------------------------------------------------
(* Each step keeps the invariant.                                          *)
LEMMA OpenStep ==
  ASSUME IInv, NEW v \in Vars, DatasetOpen(v)
  PROVE  IInv'
<1>1. HeapOK /\ CallsOK /\ SeenOK /\ Typed
  BY Parts
<1>2. Opened(Root) \in Struct /\ \A i \in Items : Opened(i) \in Struct /\ Opened(i).item = i
  BY DEF Opened, Struct
<1>3. HeapOK'
  BY <1>1 DEF DatasetOpen, HeapOK, Counted
<1>4. CallsOK'
  BY <1>1, CallsKept DEF DatasetOpen, CallsOK, Aimed
<1>5. Typed' /\ Grown'
  BY <1>1, <1>2 DEF DatasetOpen, Typed, Grown
<1>6. SeenOK'
  BY <1>1 DEF DatasetOpen, SeenOK, seen
<1> QED BY <1>3, <1>4, <1>5, <1>6, Whole

LEMMA CopyStep ==
  ASSUME IInv, NEW g \in Procs, NEW p \in Places, NEW w \in Vars, Copy(g, p, w)
  PROVE  IInv'
<1>1. HeapOK /\ CallsOK /\ SeenOK /\ Typed
  BY Parts
<1>2. Grown /\ At(p) \in Struct
  BY TouchesOpened DEF Copy
<1>3. HeapOK'
  BY <1>1, HeapKept DEF Copy
<1>4. CallsOK'
  BY <1>1, CallsKept DEF Copy, CallsOK, Aimed, heap, destroying
<1>5. Typed' /\ Grown'
  BY <1>1, <1>2 DEF Copy, Typed, Grown
<1>6. SeenOK'
  BY <1>1 DEF Copy, SeenOK, seen
<1> QED BY <1>3, <1>4, <1>5, <1>6, Whole

LEMMA UseStep ==
  ASSUME IInv, NEW g \in Procs, NEW p \in Places, Use(g, p)
  PROVE  IInv'
<1>1. HeapOK /\ CallsOK /\ SeenOK /\ Typed
  BY Parts
<1>2. Grown /\ At(p).item \in Items
  BY TouchesOpened DEF Use
<1>3. HeapOK'
  BY <1>1, HeapKept DEF Use
<1>4. CallsOK'
  BY <1>1, CallsKept DEF Use, CallsOK, Aimed, heap, destroying
<1>5. Typed' /\ Grown'
  BY <1>1, <1>2, PlacesKept, GrownKept DEF Use
<1>6. SeenOK'
  BY <1>1, <1>2, DerefTyped DEF Use, SeenOK
<1> QED BY <1>3, <1>4, <1>5, <1>6, Whole

LEMMA CloseBeginStep ==
  ASSUME IInv, NEW g \in Procs, NEW p \in Places, CloseBegin(g, p)
  PROVE  IInv'
<1>1. HeapOK /\ CallsOK /\ SeenOK /\ Typed
  BY Parts
<1>2. Grown /\ At(p) \in Struct /\ At(p).item \in Items
  BY TouchesOpened DEF CloseBegin
<1> DEFINE now == [pc |-> "close", todo |-> {At(p)}, recv |-> p, cur |-> Zero]
<1>3. now \in Closings
  BY <1>2 DEF Closings, Places, Zero, Struct
<1>4. act' = [act EXCEPT ![g] = now] /\ UNCHANGED <<heap, places, destroying, seen>>
  BY DEF CloseBegin
<1>5. HeapOK'
  BY <1>1, <1>4, HeapKept
<1>6. CallsOK'
  <2>1. act' \in [Procs -> Closings] /\ UNCHANGED <<once, stack, dplace>>
    BY <1>1, <1>3, <1>4 DEF CallsOK, heap, destroying
  <2>2. \A h \in Procs : h # g => act'[h] = act[h]
    BY <1>1, <1>4 DEF CallsOK
  <2>3. act'[g] = now
    BY <1>1, <1>4 DEF CallsOK
  <2>4. \A h \in Procs : Closing(h)'
    BY <1>1, <1>2, <2>1, <2>2, <2>3 DEF CallsOK, Closing
  <2>5. \A h, k \in Procs : Exclusive(h, k)'
    BY <1>1, <2>2, <2>3 DEF CallsOK, Exclusive
  <2> QED BY <1>1, <2>1, <2>4, <2>5 DEF CallsOK, Aimed
<1>7. Typed' /\ Grown'
  BY <1>1, <1>2, <1>4, PlacesKept, GrownKept
<1>8. SeenOK'
  BY <1>1, <1>4 DEF SeenOK, seen
<1> QED BY <1>5, <1>6, <1>7, <1>8, Whole

LEMMA OnceEnterStep ==
  ASSUME IInv, NEW g \in Procs, NEW x \in act[g].todo, OnceEnter(g, x)
  PROVE  IInv'
<1>1. HeapOK /\ CallsOK /\ SeenOK /\ Typed
  BY Parts
<1>2. x \in Struct /\ x.item \in Items /\ act[g] \in Closings
  BY <1>1 DEF CallsOK, Closings, Closing
<1>3. Grown
  BY DEF OnceEnter, IInv, Nobody, Idle
<1>4. /\ once[x.item] = "new" /\ once' = [once EXCEPT ![x.item] = "running"]
      /\ act' = [act EXCEPT ![g].pc = "free", ![g].cur = x]
      /\ UNCHANGED <<mem, frees, places, destroying, seen>>
  BY DEF OnceEnter
<1>5. HeapOK'
  BY <1>1, <1>2, <1>4 DEF HeapOK, Counted
<1>6. CallsOK'
  <2>1. act' \in [Procs -> Closings] /\ UNCHANGED <<stack, dplace>>
    BY <1>1, <1>2, <1>4 DEF CallsOK, Closings, destroying
  <2>2. \A h \in Procs : h # g => act'[h] = act[h]
    BY <1>1, <1>4 DEF CallsOK
  <2>3. act'[g].pc = "free" /\ act'[g].cur = x /\ act'[g].todo = act[g].todo
    BY <1>1, <1>2, <1>4 DEF CallsOK, Closings
  <2>4. \A h \in Procs : act[h].pc = "free" => act[h].cur.item # x.item
    BY <1>1, <1>4 DEF CallsOK, Closing
  <2>5. \A i \in Items : i # x.item => once'[i] = once[i]
    BY <1>1, <1>4 DEF HeapOK
  <2>6. once'[x.item] = "running"
    BY <1>1, <1>2, <1>4 DEF HeapOK
  <2>7. ASSUME NEW h \in Procs PROVE Closing(h)'
    BY <1>1, <1>2, <2>2, <2>3, <2>4, <2>5, <2>6 DEF CallsOK, Closing
  <2>8. ASSUME NEW h \in Procs, NEW k \in Procs PROVE Exclusive(h, k)'
    BY <1>1, <2>2, <2>3, <2>4 DEF CallsOK, Exclusive
  <2> QED BY <1>1, <2>1, <2>7, <2>8 DEF CallsOK, Aimed
<1>7. Typed' /\ Grown'
  BY <1>1, <1>3, <1>4, PlacesKept, GrownKept
<1>8. SeenOK'
  BY <1>1, <1>4 DEF SeenOK, seen
<1> QED BY <1>5, <1>6, <1>7, <1>8, Whole

(* What Close does after its Once: g is no longer inside, and goes on with *)
(* items only.                                                             *)
LEMMA AfterDoMoves ==
  ASSUME CallsOK, Typed, Grown, NEW g \in Procs, NEW x \in Struct, x.item \in Items,
         AfterDo(g, x)
  PROVE  /\ act' \in [Procs -> Closings]
         /\ \A h \in Procs : h # g => act'[h] = act[h]
         /\ act'[g].pc # "free" /\ \A y \in act'[g].todo : y.item \in Items
         /\ Typed' /\ SameItems
<1> DEFINE now  == act[g]
           more == (now.todo \ {x}) \cup IF x.cut THEN {} ELSE {elem[k] : k \in Kids[x.item]}
           next == [pc |-> "close", todo |-> more, recv |-> NoPlace, cur |-> Zero]
<1>1. now \in Closings
  BY DEF CallsOK
<1>2. Kids[x.item] \subseteq Items
  OBVIOUS
<1>3. ASSUME NEW y \in more PROVE y \in Struct /\ y.item \in Items
  <2>1. CASE y \in now.todo
    BY <1>1, <2>1 DEF CallsOK, Closing, Closings
  <2>2. CASE y \notin now.todo
    <3>1. PICK k \in Kids[x.item] : y = elem[k]
      BY <2>2
    <3> QED BY <1>2, <3>1 DEF Typed, Grown
  <2> QED BY <2>1, <2>2
<1>4. Idle \in Closings /\ next \in Closings
  <2>1. more \in SUBSET Struct
    BY <1>3
  <2>2. Zero \in Struct
    BY DEF Zero, Struct
  <2>3. Idle \in Closings
    BY <2>2 DEF Closings, Idle
  <2>4. next \in Closings
    <3> HIDE DEF more
    <3> QED BY <2>1, <2>2 DEF Closings
  <2> QED BY <2>3, <2>4
<1>5. act' = [act EXCEPT ![g] = Idle] \/ act' = [act EXCEPT ![g] = next]
  BY DEF AfterDo
<1>6. act' \in [Procs -> Closings] /\ \A h \in Procs : h # g => act'[h] = act[h]
  <2> HIDE DEF next
  <2> QED BY <1>4, <1>5 DEF CallsOK
<1>7. act'[g] = Idle \/ act'[g] = next
  BY <1>5 DEF CallsOK
<1>8. act'[g].pc # "free" /\ \A y \in act'[g].todo : y.item \in Items
  BY <1>3, <1>7 DEF Idle
<1>9. Typed' /\ SameItems
  <2>1. CASE now.recv = NoPlace
    BY <2>1, PlacesKept DEF AfterDo
  <2>2. CASE now.recv # NoPlace
    <3>1. now.recv \in Places
      BY <1>1, <2>2 DEF Closings, Places
    <3>2. At(now.recv) \in Struct
      BY <3>1, AtTyped
    <3>3. /\ [At(now.recv) EXCEPT !.nilled = TRUE] \in Struct
          /\ [At(now.recv) EXCEPT !.nilled = TRUE].item = At(now.recv).item
      BY <3>2 DEF Struct
    <3>4. Put(now.recv, [At(now.recv) EXCEPT !.nilled = TRUE])
      BY <2>2 DEF AfterDo
    <3> QED BY <3>1, <3>3, <3>4, PutKeepsItems
  <2> QED BY <2>1, <2>2
<1> QED BY <1>6, <1>8, <1>9

LEMMA ListCloseStep ==
  ASSUME IInv, NEW g \in Procs, ListClose(g)
  PROVE  IInv'
<1> DEFINE x == act[g].cur
<1>1. HeapOK /\ CallsOK /\ SeenOK /\ Typed
  BY Parts
<1>2. act[g].pc = "free" /\ FreeItem(x.item) /\ AfterDo(g, x) /\ UNCHANGED <<destroying, seen>>
  BY DEF ListClose
<1>3. x \in Struct /\ x.item \in Items /\ once[x.item] = "running"
  BY <1>1, <1>2 DEF CallsOK, Closings, Closing
<1>4. Grown
  BY <1>2 DEF IInv, Nobody, Idle
<1>5. HeapOK' /\ once' = [once EXCEPT ![x.item] = "done"]
  BY <1>1, <1>2, <1>3, FreeItemOnce
<1>6. /\ act' \in [Procs -> Closings]
      /\ \A h \in Procs : h # g => act'[h] = act[h]
      /\ act'[g].pc # "free" /\ \A y \in act'[g].todo : y.item \in Items
      /\ Typed' /\ SameItems
  BY <1>1, <1>2, <1>3, <1>4, AfterDoMoves
<1>7. CallsOK'
  <2>1. \A h \in Procs : h # g /\ act[h].pc = "free" => act[h].cur.item # x.item
    BY <1>1, <1>2 DEF CallsOK, Exclusive
  <2>2. \A i \in Items : i # x.item => once'[i] = once[i]
    BY <1>1, <1>5 DEF HeapOK
  <2>3. ASSUME NEW h \in Procs PROVE Closing(h)'
    BY <1>1, <1>6, <2>1, <2>2 DEF CallsOK, Closing
  <2>4. ASSUME NEW h \in Procs, NEW k \in Procs PROVE Exclusive(h, k)'
    BY <1>1, <1>6 DEF CallsOK, Exclusive
  <2>5. UNCHANGED <<stack, dplace>>
    BY <1>2 DEF destroying
  <2> QED BY <1>1, <1>6, <2>3, <2>4, <2>5 DEF CallsOK, Aimed
<1>8. Grown'
  BY <1>1, <1>4, <1>6, GrownKept
<1>9. SeenOK'
  BY <1>1, <1>2 DEF SeenOK, seen
<1> QED BY <1>5, <1>6, <1>7, <1>8, <1>9, Whole

LEMMA OnceDoneStep ==
  ASSUME IInv, NEW g \in Procs, NEW x \in act[g].todo, OnceDone(g, x)
  PROVE  IInv'
<1>1. HeapOK /\ CallsOK /\ SeenOK /\ Typed
  BY Parts
<1>2. AfterDo(g, x) /\ UNCHANGED <<heap, destroying, seen>>
  BY DEF OnceDone
<1>3. x \in Struct /\ x.item \in Items
  BY <1>1 DEF CallsOK, Closings, Closing
<1>4. Grown
  BY DEF OnceDone, IInv, Nobody, Idle
<1>5. HeapOK'
  BY <1>1, <1>2, HeapKept
<1>6. /\ act' \in [Procs -> Closings]
      /\ \A h \in Procs : h # g => act'[h] = act[h]
      /\ act'[g].pc # "free" /\ \A y \in act'[g].todo : y.item \in Items
      /\ Typed' /\ SameItems
  BY <1>1, <1>2, <1>3, <1>4, AfterDoMoves
<1>7. CallsOK'
  <2>1. ASSUME NEW h \in Procs PROVE Closing(h)'
    BY <1>1, <1>2, <1>6 DEF CallsOK, Closing, heap
  <2>2. ASSUME NEW h \in Procs, NEW k \in Procs PROVE Exclusive(h, k)'
    BY <1>1, <1>6 DEF CallsOK, Exclusive
  <2> QED BY <1>1, <1>2, <1>6, <2>1, <2>2 DEF CallsOK, Aimed, destroying
<1>8. Grown'
  BY <1>1, <1>4, <1>6, GrownKept
<1>9. SeenOK'
  BY <1>1, <1>2 DEF SeenOK, seen
<1> QED BY <1>5, <1>6, <1>7, <1>8, <1>9, Whole

-----------------------------------------------------------------------------
(* The steps of DestroyRecursive.                                          *)
LEMMA FrameTyped ==
  ASSUME NEW s \in Struct, s.item \in Items
  PROVE  DFrame(s) \in Destroyings
  BY DEF DFrame, Destroyings

LEMMA DestroyBeginStep ==
  ASSUME IInv, NEW p \in Places, DestroyBegin(p)
  PROVE  IInv'
<1>1. HeapOK /\ CallsOK /\ SeenOK /\ Typed
  BY Parts
<1>2. Grown /\ At(p) \in Struct /\ At(p).item \in Items
  BY TouchesOpened DEF DestroyBegin
<1>3. /\ Deref({At(p).item}) /\ stack' = <<DFrame(At(p))>> /\ dplace' = p
      /\ UNCHANGED <<heap, places, act, shed>>
  BY DEF DestroyBegin
<1>4. HeapOK'
  BY <1>1, <1>3, HeapKept
<1>5. CallsOK'
  <2>1. DFrame(At(p)) \in Destroyings
    BY <1>2, FrameTyped
  <2>2. stack' \in Seq(Destroyings) /\ dplace' \in Places \cup {NoPlace} /\ Aimed'
    BY <1>3, <2>1 DEF Aimed
  <2>3. UNCHANGED <<once, act>>
    BY <1>3 DEF heap
  <2> QED BY <1>1, <2>2, <2>3, CallsKept
<1>6. Typed' /\ Grown'
  BY <1>1, <1>2, <1>3, PlacesKept, GrownKept
<1>7. SeenOK'
  BY <1>1, <1>2, <1>3, DerefTyped DEF SeenOK
<1> QED BY <1>4, <1>5, <1>6, <1>7, Whole

(* The innermost activation is replaced.                                   *)
LEMMA InnermostReplaced ==
  ASSUME NEW S, NEW s \in Seq(S), s # <<>>, NEW fr \in S
  PROVE  [s EXCEPT ![1] = fr] \in Seq(S)
<1>1. 1 \in 1 .. Len(s)
  OBVIOUS
<1> QED BY <1>1, ExceptSeq

(* A step of an activation that goes on at the receiver's place.           *)
LEMMA Activation ==
  ASSUME IInv, stack # <<>>
  PROVE  /\ Grown /\ dplace \in Places /\ Len(stack) \in Nat /\ Len(stack) > 0
         /\ stack[1] \in Destroyings /\ stack[1].item \in Items
<1>1. stack \in Seq(Destroyings)
  BY Parts DEF CallsOK
<1>2. Grown /\ dplace \in Places
  BY DEF IInv, Nobody, Aimed
<1>3. stack[1] \in Destroyings
  BY <1>1
<1> QED BY <1>1, <1>2, <1>3 DEF Destroyings

LEMMA ClearKeepsItems ==
  ASSUME Typed, dplace \in Places, ClearChildren
  PROVE  Typed' /\ SameItems
<1>1. CASE UNCHANGED places
  BY <1>1, PlacesKept
<1>2. CASE Put(dplace, [At(dplace) EXCEPT !.cut = TRUE])
  <2>1. At(dplace) \in Struct
    BY AtTyped
  <2>2. /\ [At(dplace) EXCEPT !.cut = TRUE] \in Struct
        /\ [At(dplace) EXCEPT !.cut = TRUE].item = At(dplace).item
    BY <2>1 DEF Struct
  <2> QED BY <1>2, <2>2, PutKeepsItems
<1> QED BY <1>1, <1>2 DEF ClearChildren

LEMMA DestroyChildStep ==
  ASSUME IInv, NEW k \in Items, DestroyChild(k)
  PROVE  IInv'
<1>1. HeapOK /\ CallsOK /\ SeenOK /\ Typed
  BY Parts
<1>2. Grown /\ dplace \in Places /\ stack[1] \in Destroyings
  BY Activation DEF DestroyChild
<1>3. elem[k] \in Struct /\ elem[k].item \in Items
  BY <1>1, <1>2 DEF Typed, Grown
<1>4. /\ stack # <<>> /\ Deref({elem[k].item})
      /\ stack' = <<DFrame(elem[k])>> \o [stack EXCEPT ![1].kids = @ \ {k}]
      /\ UNCHANGED <<heap, places, act, dplace, shed>>
  BY DEF DestroyChild
<1>5. HeapOK'
  BY <1>1, <1>4, HeapKept
<1>6. CallsOK'
  <2>1. DFrame(elem[k]) \in Destroyings
    BY <1>3, FrameTyped
  <2>2. [stack[1] EXCEPT !.kids = @ \ {k}] \in Destroyings
    BY <1>2 DEF Destroyings
  <2>3. [stack EXCEPT ![1].kids = @ \ {k}] \in Seq(Destroyings)
    <3>1. stack \in Seq(Destroyings)
      BY <1>1 DEF CallsOK
    <3>2. [stack EXCEPT ![1] = [stack[1] EXCEPT !.kids = @ \ {k}]] \in Seq(Destroyings)
      BY <1>4, <2>2, <3>1, InnermostReplaced
    <3> QED BY <3>2, Zenon
  <2>4. stack' \in Seq(Destroyings)
    <3> DEFINE below == [stack EXCEPT ![1].kids = @ \ {k}]
               inner == <<DFrame(elem[k])>>
    <3>1. inner \in Seq(Destroyings)
      BY <2>1
    <3>2. stack' = inner \o below
      BY <1>4, Zenon
    <3> HIDE DEF inner
    <3> QED BY <2>3, <3>1, <3>2, ConcatProperties, Zenon
  <2>5. dplace' \in Places
    BY <1>2, <1>4
  <2>6. UNCHANGED <<once, act>>
    BY <1>4 DEF heap
  <2> QED BY <1>1, <2>4, <2>5, <2>6, CallsKept DEF Aimed
<1>7. Typed' /\ Grown'
  BY <1>1, <1>2, <1>4, PlacesKept, GrownKept
<1>8. SeenOK'
  BY <1>1, <1>3, <1>4, DerefTyped DEF SeenOK
<1> QED BY <1>5, <1>6, <1>7, <1>8, Whole

LEMMA DestroyOkStep ==
  ASSUME IInv, DestroyOk
  PROVE  IInv'
<1>1. HeapOK /\ CallsOK /\ SeenOK /\ Typed
  BY Parts
<1>2. Grown /\ dplace \in Places /\ stack[1] \in Destroyings /\ stack[1].item \in Items
  BY Activation DEF DestroyOk
<1>3. /\ stack # <<>> /\ Deref({stack[1].item}) /\ ClearChildren
      /\ IF Len(stack) = 1 THEN stack' = <<>> ELSE Replace([stack[1] EXCEPT !.pc = "close"])
      /\ UNCHANGED <<heap, act, dplace, shed>>
  BY DEF DestroyOk
<1>4. HeapOK'
  BY <1>1, <1>3, HeapKept
<1>5. CallsOK'
  <2>1. [stack[1] EXCEPT !.pc = "close"] \in Destroyings
    BY <1>2 DEF Destroyings
  <2>2. stack' \in Seq(Destroyings)
    <3>1. stack \in Seq(Destroyings)
      BY <1>1 DEF CallsOK
    <3>2. [stack EXCEPT ![1] = [stack[1] EXCEPT !.pc = "close"]] \in Seq(Destroyings)
      BY <1>3, <2>1, <3>1, InnermostReplaced
    <3>3. stack' = <<>> \/ stack' = [stack EXCEPT ![1] = [stack[1] EXCEPT !.pc = "close"]]
      BY <1>3, Zenon DEF Replace
    <3>4. <<>> \in Seq(Destroyings)
      OBVIOUS
    <3> QED BY <3>2, <3>3, <3>4, Zenon
  <2>3. dplace' \in Places /\ UNCHANGED <<once, act>>
    BY <1>2, <1>3 DEF heap
  <2> QED BY <1>1, <2>2, <2>3, CallsKept DEF Aimed
<1>6. Typed' /\ Grown'
  BY <1>1, <1>2, <1>3, ClearKeepsItems, GrownKept
<1>7. SeenOK'
  BY <1>1, <1>2, <1>3, DerefTyped DEF SeenOK
<1> QED BY <1>4, <1>5, <1>6, <1>7, Whole

LEMMA DestroyFailsStep ==
  ASSUME IInv, DestroyFails
  PROVE  IInv'
<1>1. HeapOK /\ CallsOK /\ SeenOK /\ Typed
  BY Parts
<1>2. Grown /\ dplace \in Places /\ stack[1].item \in Items
  BY Activation DEF DestroyFails
<1>3. /\ (Deref({stack[1].item}) /\ ClearChildren) \/ UNCHANGED <<places, uaf>>
      /\ stack' = <<>> /\ UNCHANGED <<heap, act, dplace, shed>>
  BY DEF DestroyFails
<1>4. HeapOK'
  BY <1>1, <1>3, HeapKept
<1>5. CallsOK'
  <2>1. stack' \in Seq(Destroyings) /\ dplace' \in Places /\ UNCHANGED <<once, act>>
    BY <1>2, <1>3 DEF heap
  <2> QED BY <1>1, <2>1, CallsKept DEF Aimed
<1>6. Typed' /\ SameItems
  BY <1>1, <1>2, <1>3, ClearKeepsItems, PlacesKept
<1>7. Grown'
  BY <1>1, <1>2, <1>6, GrownKept
<1>8. SeenOK'
  BY <1>1, <1>2, <1>3, DerefTyped DEF SeenOK
<1> QED BY <1>4, <1>5, <1>6, <1>7, <1>8, Whole

LEMMA CloseChildStep ==
  ASSUME IInv, CloseChild
  PROVE  IInv'
<1> DEFINE i == stack[1].item
<1>1. HeapOK /\ CallsOK /\ SeenOK /\ Typed
  BY Parts
<1>2. Grown /\ dplace \in Places /\ i \in Items
  BY Activation DEF CloseChild
<1>3. /\ stack # <<>> /\ stack' = Tail(stack) /\ UNCHANGED <<places, act, dplace, seen>>
      /\ (once[i] = "new" /\ FreeItem(i)) \/ UNCHANGED heap
  BY DEF CloseChild
<1>4. HeapOK' /\ \A j \in Items : once[j] = "running" => once'[j] = "running"
  <2>1. CASE UNCHANGED heap
    BY <1>1, <2>1, HeapKept DEF heap
  <2>2. CASE once[i] = "new" /\ FreeItem(i)
    <3>1. HeapOK' /\ once' = [once EXCEPT ![i] = "done"]
      BY <1>1, <1>2, <2>2, FreeItemOnce
    <3> QED BY <1>1, <1>2, <2>2, <3>1 DEF HeapOK
  <2> QED BY <1>3, <2>1, <2>2
<1>5. CallsOK'
  <2>1. stack' \in Seq(Destroyings)
    BY <1>1, <1>3 DEF CallsOK
  <2>2. ASSUME NEW g \in Procs PROVE Closing(g)'
    BY <1>1, <1>3, <1>4 DEF CallsOK, Closing
  <2>3. ASSUME NEW g \in Procs, NEW h \in Procs PROVE Exclusive(g, h)'
    BY <1>1, <1>3 DEF CallsOK, Exclusive
  <2> QED BY <1>1, <1>2, <1>3, <2>1, <2>2, <2>3 DEF CallsOK, Aimed
<1>6. Typed' /\ Grown'
  BY <1>1, <1>2, <1>3, PlacesKept, GrownKept
<1>7. SeenOK'
  BY <1>1, <1>3 DEF SeenOK, seen
<1> QED BY <1>4, <1>5, <1>6, <1>7, Whole

LEMMA DestroyPromoteStep ==
  ASSUME IInv, NEW p \in Places, DestroyPromote(p)
  PROVE  IInv'
<1>1. HeapOK /\ CallsOK /\ SeenOK /\ Typed
  BY Parts
<1>2. Grown /\ At(p) \in Struct /\ At(p).item \in Items
  BY TouchesOpened DEF DestroyPromote
<1> DEFINE used == {At(p).item} \cup IF At(p).cut THEN {} ELSE Kids[At(p).item]
<1>3. /\ Deref(used) /\ Put(p, [At(p) EXCEPT !.cut = TRUE])
      /\ shed' = TRUE /\ UNCHANGED <<heap, act, destroying>>
  BY DEF DestroyPromote
<1>4. HeapOK'
  BY <1>1, <1>3, HeapKept
<1>5. CallsOK'
  BY <1>1, <1>3, CallsKept DEF CallsOK, Aimed, heap, destroying
<1>6. Typed' /\ SameItems
  <2>1. /\ [At(p) EXCEPT !.cut = TRUE] \in Struct
        /\ [At(p) EXCEPT !.cut = TRUE].item = At(p).item
    BY <1>2 DEF Struct
  <2> QED BY <1>1, <1>3, <2>1, PutKeepsItems
<1>7. Grown'
  BY <1>1, <1>2, <1>6, GrownKept
<1>8. SeenOK'
  <2>1. used \in SUBSET Items
    BY <1>2
  <2> QED BY <1>1, <1>3, <2>1, DerefTyped DEF SeenOK
<1> QED BY <1>4, <1>5, <1>6, <1>7, <1>8, Whole

-----------------------------------------------------------------------------
LEMMA StutterStep ==
  ASSUME IInv, UNCHANGED vars
  PROVE  IInv'
<1>1. HeapOK /\ CallsOK /\ SeenOK /\ Typed
  BY Parts
<1>2. HeapOK'
  BY <1>1, HeapKept DEF vars, heap
<1>3. CallsOK'
  BY <1>1, CallsKept DEF vars, CallsOK, Aimed
<1>4. SeenOK' /\ Typed'
  BY <1>1 DEF vars, SeenOK, Typed
<1>5. (Grown \/ Nobody)'
  BY DEF IInv, vars, Grown, Nobody
<1> QED BY <1>2, <1>3, <1>4, <1>5, Whole

LEMMA NextIInv ==
  ASSUME IInv, [Next]_vars
  PROVE  IInv'
<1>1. CASE \E v \in Vars : DatasetOpen(v)
  BY <1>1, OpenStep
<1>2. CASE \E g \in Procs, p \in Places, w \in Vars : Copy(g, p, w)
  BY <1>2, CopyStep
<1>3. CASE \E g \in Procs, p \in Places : Use(g, p) \/ CloseBegin(g, p)
  BY <1>3, UseStep, CloseBeginStep
<1>4. CASE \E g \in Procs : CloseStep(g)
  BY <1>4, OnceEnterStep, OnceDoneStep, ListCloseStep DEF CloseStep
<1>5. CASE \E p \in Places : DestroyBegin(p) \/ DestroyPromote(p)
  BY <1>5, DestroyBeginStep, DestroyPromoteStep
<1>6. CASE DestroyStep
  BY <1>6, DestroyChildStep, DestroyOkStep, DestroyFailsStep, CloseChildStep DEF DestroyStep
<1>7. CASE UNCHANGED vars
  BY <1>7, StutterStep
<1> QED BY <1>1, <1>2, <1>3, <1>4, <1>5, <1>6, <1>7 DEF Next

LEMMA Invariance == Spec => []IInv
  BY InitIInv, NextIInv, PTL DEF Spec

(* Every variable keeps its type, and an item is freed exactly when its    *)
(* Once is done, whatever clients do with their copies.                    *)
THEOREM HandlesTypeCorrect == Spec => []TypeOK
<1>1. IInv => TypeOK
  BY DEF IInv
<1> QED BY <1>1, Invariance, PTL

(* closeOnce (zfs.go:64): no dataset_list_t is passed to free() twice,     *)
(* however many goroutines close, copy and destroy however many copies.    *)
THEOREM FreedOnce == Spec => []NoDoubleFree
<1>1. IInv => NoDoubleFree
  BY DEF IInv, Counted, NoDoubleFree
<1> QED BY <1>1, Invariance, PTL

-----------------------------------------------------------------------------
(* Nothing is left allocated.  The argument: a list field is set to nil    *)
(* only when the item is freed, so that the root is freed once every       *)
(* variable was closed; and the Children of a freed item are freed, or     *)
(* some Close has them still to do.  The Children of a struct that was cut *)
(* are freed: DestroyRecursive closed them one by one.                     *)
NilDone(s) == s.nilled /\ s.item \in Items => once[s.item] = "done"

CutDone(s) ==
  s.cut /\ s.item \in Items /\ ~shed => \A k \in Kids[s.item] : once[k] = "done"

PlacesOK == \A p \in Places : NilDone(At(p)) /\ CutDone(At(p))

ActOK(g) ==
  /\ \A x \in act[g].todo : CutDone(x)
  /\ act[g].pc = "idle" => act[g].todo = {}
  /\ act[g].pc = "free" => act[g].cur \in act[g].todo
  /\ act[g].recv # NoPlace => \A x \in act[g].todo : x.item = At(act[g].recv).item

Pending(i) == \E g \in Procs : \E x \in act[g].todo : x.item = i

Covered ==
  ~shed => \A p \in Items : once[p] = "done" =>
             \A i \in Kids[p] : once[i] = "done" \/ Pending(i)

(* The Children of an activation's dataset are still to be destroyed,      *)
(* being destroyed, or closed.                                             *)
Handled(s, k) ==
  \A i \in Kids[s[k].item] :
    i \in s[k].kids \/ once[i] = "done" \/ (k > 1 /\ s[k - 1].item = i)

StackOK ==
  /\ ~shed => \A k \in 1..Len(stack) : Handled(stack, k)
  /\ \A k \in 1..Len(stack) : stack[k].pc = "close" => stack[k].kids = {}
  /\ stack # <<>> => At(dplace).item = stack[Len(stack)].item

Sprouted ==
  \/ Nobody /\ \A i \in Items : mem[i] = "none"
  \/ Grown /\ (\A i \in Items : mem[i] # "none") /\ \E v \in Vars : held[v].item = Root

LInv ==
  /\ Sprouted
  /\ PlacesOK
  /\ \A g \in Procs : ActOK(g)
  /\ Covered
  /\ StackOK

LEMMA ClosedTree ==
  ASSUME IInv, LInv
  PROVE  NoLeak
<1> SUFFICES ASSUME Quiet, ~shed, \A v \in Vars : held[v].nilled
             PROVE  \A i \in Items : mem[i] # "live"
  BY DEF NoLeak
<1>1. CASE Nobody /\ \A i \in Items : mem[i] = "none"
  BY <1>1
<1>2. CASE Grown /\ (\A i \in Items : mem[i] # "none") /\ \E v \in Vars : held[v].item = Root
  <2> DEFINE S == {i \in Items : once[i] = "done"}
  <2>1. Root \in S
    <3>1. PICK v \in Vars : held[v].item = Root
      BY <1>2
    <3>2. NilDone(At(v))
      BY DEF LInv, PlacesOK, Places
    <3> QED BY <3>1, <3>2 DEF NilDone, At
  <2>2. ASSUME NEW p \in S, NEW i \in Kids[p] PROVE i \in S
    <3>1. \A g \in Procs : act[g].todo = {}
      BY DEF LInv, ActOK, Quiet
    <3> QED BY <3>1 DEF LInv, Covered, Pending
  <2>3. S = Items
    BY <2>1, <2>2, WholeTreeAssumption
  <2> QED BY <2>3 DEF IInv, TypeOK
<1> QED BY <1>1, <1>2 DEF LInv, Sprouted

(* What only grows.                                                        *)
Mono ==
  /\ \A i \in Items : once[i] = "done" => once'[i] = "done"
  /\ shed => shed'

ItemsStay == \A p \in Places : At(p).item \in Items => At(p)'.item = At(p).item

LEMMA DoneKept ==
  ASSUME Mono
  PROVE  \A s : (NilDone(s) => NilDone(s)') /\ (CutDone(s) => CutDone(s)')
  BY DEF Mono, NilDone, CutDone

LEMMA PutAt ==
  ASSUME Typed, NEW p \in Places, NEW s \in Struct, Put(p, s)
  PROVE  \A q \in Places : At(q)' = IF q = p THEN s ELSE At(q)
  BY DEF Typed, Put, At, Places

LEMMA PutKeepsPlaces ==
  ASSUME Typed, PlacesOK, Mono, NEW p \in Places, NEW s \in Struct, Put(p, s),
         s.item = At(p).item, NilDone(s)', CutDone(s)'
  PROVE  PlacesOK' /\ ItemsStay
<1>1. \A q \in Places : At(q)' = IF q = p THEN s ELSE At(q)
  BY PutAt
<1>2. ASSUME NEW q \in Places
      PROVE  /\ NilDone(At(q))' /\ CutDone(At(q))'
             /\ At(q).item \in Items => At(q)'.item = At(q).item
  <2>1. CASE q = p
    BY <1>1, <2>1 DEF NilDone, CutDone
  <2>2. CASE q # p
    <3>1. At(q)' = At(q)
      BY <1>1, <2>2
    <3>2. NilDone(At(q)) /\ CutDone(At(q))
      BY DEF PlacesOK
    <3> QED BY <3>1, <3>2 DEF Mono, NilDone, CutDone
  <2> QED BY <2>1, <2>2
<1> QED BY <1>2 DEF PlacesOK, ItemsStay

LEMMA PlacesSame ==
  ASSUME PlacesOK, Mono, UNCHANGED places
  PROVE  PlacesOK' /\ ItemsStay
<1>1. \A q \in Places : At(q)' = At(q)
  BY DEF At, places
<1>2. ASSUME NEW q \in Places PROVE NilDone(At(q))' /\ CutDone(At(q))'
  <2>1. NilDone(At(q)) /\ CutDone(At(q))
    BY DEF PlacesOK
  <2> QED BY <1>1, <2>1 DEF Mono, NilDone, CutDone
<1> QED BY <1>1, <1>2 DEF PlacesOK, ItemsStay

LEMMA ActKept ==
  ASSUME CallsOK, NEW g \in Procs, ActOK(g), Mono, ItemsStay, act'[g] = act[g]
  PROVE  ActOK(g)'
<1>1. act[g] \in Closings /\ \A x \in act[g].todo : x.item \in Items
  BY DEF CallsOK, Closing
<1>2. \A x \in act'[g].todo : CutDone(x)'
  BY DoneKept DEF ActOK
<1>3. ASSUME NEW q, q = act[g].recv, q # NoPlace, NEW x \in act[g].todo
      PROVE  x.item = At(q)'.item
  <2>1. q \in Places /\ x.item = At(q).item /\ x.item \in Items
    BY <1>1, <1>3 DEF Closings, Places, ActOK
  <2> QED BY <2>1 DEF ItemsStay
<1>4. act'[g].recv # NoPlace => \A x \in act'[g].todo : x.item = At(act[g].recv)'.item
  BY <1>3 DEF At
<1> QED BY <1>2, <1>4 DEF ActOK

LEMMA CoveredKept ==
  ASSUME Covered, Mono, UNCHANGED act,
         ~shed' => \A p \in Items : once'[p] = "done" =>
                     once[p] = "done" \/ \A i \in Kids[p] : once'[i] = "done"
  PROVE  Covered'
<1>1. \A i : Pending(i)' <=> Pending(i)
  BY DEF Pending
<1> QED BY <1>1 DEF Covered, Mono

LEMMA StackKept ==
  ASSUME CallsOK, StackOK, Mono, ItemsStay, UNCHANGED destroying
  PROVE  StackOK'
<1>1. stack' = stack /\ dplace' = dplace
  BY DEF destroying
<1>2. ASSUME ~shed', NEW k \in 1..Len(stack') PROVE Handled(stack, k)'
  <2>1. Handled(stack, k) /\ k \in 1..Len(stack)
    BY <1>1, <1>2 DEF StackOK, Mono
  <2>2. stack \in Seq(Destroyings)
    BY DEF CallsOK
  <2>3. stack[k] \in Destroyings
    BY <2>1, <2>2
  <2>4. stack[k].item \in Items
    BY <2>3 DEF Destroyings
  <2>5. Kids[stack[k].item] \subseteq Items
    BY <2>4
  <2> QED BY <1>1, <2>1, <2>5 DEF Handled, Mono
<1>3. ASSUME stack # <<>>, NEW q, q = dplace PROVE At(q)'.item = stack[Len(stack)].item
  <2>1. stack \in Seq(Destroyings) /\ q \in Places
    BY <1>3 DEF CallsOK, Aimed
  <2>2. stack[Len(stack)] \in Destroyings
    BY <1>3, <2>1
  <2>3. At(q).item = stack[Len(stack)].item /\ stack[Len(stack)].item \in Items
    BY <1>3, <2>2 DEF StackOK, Destroyings
  <2> QED BY <2>1, <2>3 DEF ItemsStay
<1>4. stack' # <<>> => At(dplace)'.item = stack'[Len(stack')].item
  BY <1>1, <1>3 DEF At
<1> QED BY <1>1, <1>2, <1>4 DEF StackOK

LEMMA SproutedKept ==
  ASSUME Sprouted, ~Nobody, Grown', ItemsStay,
         \A i \in Items : mem[i] # "none" => mem'[i] # "none"
  PROVE  Sprouted'
<1>1. (\A i \in Items : mem'[i] # "none") /\ \E v \in Vars : held[v].item = Root
  BY DEF Sprouted
<1>2. PICK v \in Vars : held[v].item = Root
  BY <1>1
<1>3. v \in Places /\ At(v) = held[v] /\ At(v)' = held'[v] /\ Root \in Items
  BY DEF Places, At
<1>4. held'[v].item = Root
  BY <1>2, <1>3 DEF ItemsStay
<1> QED BY <1>1, <1>4 DEF Sprouted

-----------------------------------------------------------------------------
LEMMA InitLInv == Init => LInv
<1> SUFFICES ASSUME Init PROVE LInv
  OBVIOUS
<1>1. \A p \in Places : At(p) = Zero
  BY DEF Init, At, Places
<1>2. PlacesOK
  BY <1>1 DEF PlacesOK, NilDone, CutDone, Zero
<1>3. \A g \in Procs : ActOK(g)
  BY DEF Init, ActOK, Idle
<1>4. Covered
  BY DEF Init, Covered
<1>5. StackOK
  <2>1. stack = <<>> /\ Len(stack) = 0
    BY DEF Init
  <2> QED BY <2>1 DEF StackOK
<1>6. Sprouted
  BY DEF Init, Sprouted, Nobody, Zero
<1> QED BY <1>2, <1>3, <1>4, <1>5, <1>6 DEF LInv

(* Steps that leave the heap and the Closes alone.                         *)
LEMMA QuietStep ==
  ASSUME IInv, LInv, IInv', UNCHANGED <<heap, act>>, shed => shed', ~Nobody,
         PlacesOK', ItemsStay, StackOK'
  PROVE  LInv'
<1>1. Mono /\ CallsOK /\ CallsOK'
  BY Parts DEF Mono, heap, Parts, IInv, TypeOK, CallsOK, Closings, Destroyings, Places
<1>2. \A g \in Procs : ActOK(g)'
  BY <1>1, ActKept DEF LInv
<1>3. Covered'
  BY <1>1, CoveredKept DEF LInv, heap
<1>4. Grown
  BY DEF IInv
<1>5. Grown'
  <2>1. Typed /\ Typed'
    BY DEF IInv, TypeOK, Typed
  <2>2. \A i \in Items : i \in Places /\ At(i) = elem[i] /\ At(i)' = elem'[i]
    BY DEF Places, At
  <2> QED BY <1>4, <2>2 DEF Grown, ItemsStay
<1>6. Sprouted'
  BY <1>5, SproutedKept DEF LInv, heap
<1> QED BY <1>2, <1>3, <1>6 DEF LInv

LEMMA ToucherIsSomebody ==
  ASSUME NEW g \in Procs, NEW p \in Places, Touches(g, p)
  PROVE  ~Nobody
  BY DEF Touches, Nobody

LEMMA OpenLInv ==
  ASSUME IInv, LInv, IInv', NEW v \in Vars, DatasetOpen(v)
  PROVE  LInv'
<1>1. /\ held[v] = Zero /\ \A i \in Items : mem[i] = "none"
      /\ mem' = [i \in Items |-> "live"] /\ held' = [held EXCEPT ![v] = Opened(Root)]
      /\ elem' = [i \in Items |-> Opened(i)]
      /\ UNCHANGED <<once, act, stack, dplace, shed>>
  BY DEF DatasetOpen, seen
<1>2. /\ Nobody /\ Typed /\ \A i \in Items : once[i] # "done"
  BY <1>1 DEF LInv, Sprouted, IInv, TypeOK, Typed
<1>3. \A i \in Items : once'[i] # "done"
  BY <1>1, <1>2
<1>4. /\ held'[v] = Opened(Root) /\ \A w \in Vars : w # v => held'[w] = held[w]
      /\ \A i \in Items : elem'[i] = Opened(i)
  BY <1>1, <1>2 DEF Typed
<1>5. PlacesOK'
  <2> SUFFICES ASSUME NEW p \in Places PROVE NilDone(At(p))' /\ CutDone(At(p))'
    BY DEF PlacesOK
  <2>1. CASE p \in Vars /\ p # v
    <3>1. At(p)'.item = NoItem
      BY <1>2, <1>4, <2>1 DEF At, Nobody
    <3> QED BY <3>1 DEF NilDone, CutDone
  <2>2. CASE p = v \/ p \notin Vars
    <3>1. At(p)' = IF p \in Vars THEN held'[p] ELSE elem'[p]
      BY DEF At
    <3>2. p \notin Vars => p \in Items
      BY DEF Places
    <3>3. At(p)' = Opened(Root) \/ \E i \in Items : At(p)' = Opened(i)
      BY <1>4, <2>2, <3>1, <3>2
    <3>4. ~At(p)'.nilled /\ ~At(p)'.cut
      BY <3>3 DEF Opened
    <3> QED BY <3>4 DEF NilDone, CutDone
  <2> QED BY <2>1, <2>2
<1>6. \A g \in Procs : ActOK(g)'
  BY <1>1, <1>2 DEF ActOK, Nobody, Idle
<1>7. Covered'
  BY <1>3 DEF Covered
<1>8. StackOK'
  <2>1. stack' = <<>> /\ Len(stack') = 0
    BY <1>1, <1>2 DEF Nobody
  <2> QED BY <2>1 DEF StackOK
<1>9. Sprouted'
  <2>1. Grown' /\ \A i \in Items : mem'[i] # "none"
    BY <1>1, <1>4 DEF Grown, Opened
  <2>2. held'[v].item = Root
    BY <1>4 DEF Opened
  <2> QED BY <2>1, <2>2 DEF Sprouted
<1> QED BY <1>5, <1>6, <1>7, <1>8, <1>9 DEF LInv

LEMMA CopyLInv ==
  ASSUME IInv, LInv, IInv', NEW g \in Procs, NEW p \in Places, NEW w \in Vars, Copy(g, p, w)
  PROVE  LInv'
<1>1. /\ held[w] = Zero /\ held' = [held EXCEPT ![w] = At(p)]
      /\ UNCHANGED <<heap, elem, act, destroying, shed>> /\ ~Nobody
  BY ToucherIsSomebody DEF Copy, seen
<1>2. Typed /\ CallsOK /\ PlacesOK /\ StackOK
  BY Parts DEF LInv
<1>3. Mono
  BY <1>1 DEF Mono, heap
<1>4. \A q \in Places : At(q)' = IF q = w THEN At(p) ELSE At(q)
  BY <1>1, <1>2 DEF Typed, At, Places
<1>5. PlacesOK'
  <2> SUFFICES ASSUME NEW q \in Places PROVE NilDone(At(q))' /\ CutDone(At(q))'
    BY DEF PlacesOK
  <2>1. PICK o \in Places : At(q)' = At(o)
    BY <1>4
  <2>2. NilDone(At(o)) /\ CutDone(At(o))
    BY <1>2 DEF PlacesOK
  <2> QED BY <1>3, <2>1, <2>2 DEF NilDone, CutDone, Mono
<1>6. ItemsStay
  <2>1. w \in Places /\ At(w).item \notin Items
    BY <1>1 DEF At, Places, Zero
  <2> QED BY <1>4, <2>1 DEF ItemsStay
<1>7. StackOK'
  BY <1>1, <1>2, <1>3, <1>6, StackKept
<1> QED BY <1>1, <1>5, <1>6, <1>7, QuietStep

LEMMA UseLInv ==
  ASSUME IInv, LInv, IInv', NEW g \in Procs, NEW p \in Places, Use(g, p)
  PROVE  LInv'
<1>1. UNCHANGED <<heap, places, act, destroying, shed>> /\ ~Nobody
  BY ToucherIsSomebody DEF Use
<1>2. Mono /\ CallsOK /\ PlacesOK /\ StackOK
  BY <1>1, Parts DEF LInv, Mono, heap
<1>3. PlacesOK' /\ ItemsStay
  BY <1>1, <1>2, PlacesSame
<1>4. StackOK'
  BY <1>1, <1>2, <1>3, StackKept
<1> QED BY <1>1, <1>3, <1>4, QuietStep

(* A step of a Close leaves DestroyRecursive's activations alone.          *)
LEMMA ClosingStep ==
  ASSUME IInv, LInv, IInv', Mono, UNCHANGED destroying, ~Nobody, PlacesOK', ItemsStay,
         \A i \in Items : mem[i] # "none" => mem'[i] # "none",
         \A h \in Procs : ActOK(h)', Covered'
  PROVE  LInv'
<1>1. CallsOK /\ StackOK /\ Sprouted
  BY Parts DEF LInv
<1>2. StackOK'
  BY <1>1, StackKept
<1>3. Grown /\ \A i \in Items : i \in Places /\ At(i) = elem[i] /\ At(i)' = elem'[i]
  BY DEF IInv, Places, At
<1>4. Grown'
  BY <1>3 DEF Grown, ItemsStay
<1>5. Sprouted'
  BY <1>1, <1>4, SproutedKept
<1> QED BY <1>2, <1>5 DEF LInv

LEMMA CloseBeginLInv ==
  ASSUME IInv, LInv, IInv', NEW g \in Procs, NEW p \in Places, CloseBegin(g, p)
  PROVE  LInv'
<1> DEFINE now == [pc |-> "close", todo |-> {At(p)}, recv |-> p, cur |-> Zero]
<1>1. /\ act' = [act EXCEPT ![g] = now] /\ act[g].pc = "idle"
      /\ UNCHANGED <<heap, places, destroying, shed>> /\ ~Nobody
  BY ToucherIsSomebody DEF CloseBegin, seen, Free
<1>2. Mono /\ CallsOK /\ PlacesOK /\ Covered /\ \A h \in Procs : ActOK(h)
  BY <1>1, Parts DEF LInv, Mono, heap
<1>3. PlacesOK' /\ ItemsStay
  BY <1>1, <1>2, PlacesSame
<1>4. act'[g] = now /\ \A h \in Procs : h # g => act'[h] = act[h]
  BY <1>1, <1>2 DEF CallsOK
<1>5. At(p)' = At(p) /\ UNCHANGED <<once, shed>>
  BY <1>1 DEF At, places, heap
<1>6. ActOK(g)'
  <2>1. CutDone(At(p))
    BY <1>2 DEF PlacesOK
  <2>2. \A x \in act'[g].todo : CutDone(x)'
    BY <1>4, <1>5, <2>1 DEF CutDone
  <2>3. act'[g].pc = "close" /\ \A x \in act'[g].todo : x.item = At(p)'.item
    BY <1>4, <1>5
  <2>4. act'[g].recv = p
    BY <1>4
  <2> QED BY <2>2, <2>3, <2>4 DEF ActOK, At
<1>7. ASSUME NEW h \in Procs PROVE ActOK(h)'
  <2>1. CASE h = g
    BY <1>6, <2>1
  <2>2. CASE h # g
    BY <1>2, <1>3, <1>4, <2>2, ActKept
  <2> QED BY <2>1, <2>2
<1>8. Covered'
  <2>1. act[g].todo = {}
    BY <1>1, <1>2 DEF ActOK
  <2>2. \A i : Pending(i) => Pending(i)'
    BY <1>4, <2>1 DEF Pending
  <2> QED BY <1>2, <1>5, <2>2 DEF Covered
<1>9. \A i \in Items : mem[i] # "none" => mem'[i] # "none"
  BY <1>1 DEF heap
<1> QED BY <1>1, <1>2, <1>3, <1>7, <1>8, <1>9, ClosingStep

LEMMA OnceEnterLInv ==
  ASSUME IInv, LInv, IInv', NEW g \in Procs, NEW x \in act[g].todo, OnceEnter(g, x)
  PROVE  LInv'
<1>1. /\ once[x.item] = "new" /\ once' = [once EXCEPT ![x.item] = "running"]
      /\ act' = [act EXCEPT ![g].pc = "free", ![g].cur = x]
      /\ UNCHANGED <<mem, frees, places, destroying, shed>> /\ act[g].pc = "close"
  BY DEF OnceEnter, seen
<1>2. /\ CallsOK /\ HeapOK /\ PlacesOK /\ Covered /\ \A h \in Procs : ActOK(h)
      /\ x.item \in Items /\ act[g] \in Closings
  BY Parts DEF LInv, CallsOK, Closing
<1>3. \A i \in Items : once'[i] = "done" <=> once[i] = "done"
  BY <1>1, <1>2 DEF HeapOK
<1>4. Mono
  BY <1>1, <1>3 DEF Mono
<1>5. PlacesOK' /\ ItemsStay
  BY <1>1, <1>2, <1>4, PlacesSame
<1>6. /\ act'[g].pc = "free" /\ act'[g].cur = x /\ act'[g].todo = act[g].todo
      /\ act'[g].recv = act[g].recv
      /\ \A h \in Procs : h # g => act'[h] = act[h]
  BY <1>1, <1>2 DEF CallsOK, Closings
<1>7. ActOK(g)'
  <2>1. \A y \in act'[g].todo : CutDone(y)'
    BY <1>2, <1>4, <1>6, DoneKept DEF ActOK
  <2>2. UNCHANGED <<held, elem>>
    BY <1>1 DEF places
  <2> QED BY <1>2, <1>6, <2>1, <2>2 DEF ActOK, At
<1>8. ASSUME NEW h \in Procs PROVE ActOK(h)'
  <2>1. CASE h = g
    BY <1>7, <2>1
  <2>2. CASE h # g
    BY <1>2, <1>4, <1>5, <1>6, <2>2, ActKept
  <2> QED BY <2>1, <2>2
<1>9. Covered'
  <2>1. \A i : Pending(i) => Pending(i)'
    BY <1>6 DEF Pending
  <2>2. \A q \in Items : Kids[q] \subseteq Items
    OBVIOUS
  <2> QED BY <1>1, <1>2, <1>3, <2>1, <2>2 DEF Covered
<1>10. ~Nobody
  BY <1>1 DEF Nobody, Idle
<1> QED BY <1>1, <1>4, <1>5, <1>8, <1>9, <1>10, ClosingStep

(* What follows a Once: x is done, and its Children are to do unless they  *)
(* are done.                                                               *)
LEMMA AfterDoLInv ==
  ASSUME IInv, LInv, IInv', Mono, NEW g \in Procs, NEW x \in act[g].todo, act[g].pc # "idle",
         AfterDo(g, x), once'[x.item] = "done",
         \A i \in Items : once'[i] = "done" => once[i] = "done" \/ i = x.item,
         \A i \in Items : mem[i] # "none" => mem'[i] # "none",
         UNCHANGED destroying, shed' = shed
  PROVE  LInv'
<1> DEFINE now  == act[g]
           more == (now.todo \ {x}) \cup IF x.cut THEN {} ELSE {elem[k] : k \in Kids[x.item]}
           next == [pc |-> "close", todo |-> more, recv |-> NoPlace, cur |-> Zero]
<1>0. ~Nobody
  BY DEF Nobody, Idle
<1>1. /\ CallsOK /\ Typed /\ PlacesOK /\ Covered /\ \A h \in Procs : ActOK(h)
      /\ Grown /\ x.item \in Items /\ x \in Struct /\ now \in Closings
  BY <1>0, Parts DEF LInv, IInv, CallsOK, Closing, Closings
<1>2. Kids[x.item] \subseteq Items
  BY <1>1
<1>3. ASSUME NEW k \in Items PROVE elem[k].item = k /\ CutDone(elem[k])
  <2>1. k \in Places /\ At(k) = elem[k]
    BY DEF Places, At
  <2> QED BY <1>1, <2>1 DEF Grown, PlacesOK
<1>4. ASSUME NEW y \in more PROVE CutDone(y)
  BY <1>1, <1>2, <1>3 DEF ActOK
<1>5. act' = [act EXCEPT ![g] = IF more = {} THEN Idle ELSE next]
  BY DEF AfterDo
<1>6. PlacesOK' /\ ItemsStay
  <2>1. CASE now.recv = NoPlace
    BY <1>1, <2>1, PlacesSame DEF AfterDo
  <2>2. ASSUME NEW q, q = now.recv, q # NoPlace, NEW s, s = [At(q) EXCEPT !.nilled = TRUE]
        PROVE  PlacesOK' /\ ItemsStay
    <3>1. q \in Places /\ Put(q, s)
      BY <1>1, <2>2 DEF AfterDo, Closings, Places
    <3>2. At(q) \in Struct /\ CutDone(At(q)) /\ x.item = At(q).item
      BY <1>1, <2>2, <3>1, AtTyped DEF PlacesOK, ActOK
    <3>3. s \in Struct /\ s.item = x.item /\ s.cut = At(q).cut
      BY <2>2, <3>2 DEF Struct
    <3>4. NilDone(s)'
      BY <3>3 DEF NilDone
    <3>5. CutDone(s)'
      BY <3>2, <3>3 DEF CutDone, Mono
    <3> QED BY <1>1, <3>1, <3>2, <3>3, <3>4, <3>5, PutKeepsPlaces
  <2> QED BY <2>1, <2>2
<1> HIDE DEF more, next
<1>7. /\ act'[g] = IF more = {} THEN Idle ELSE next
      /\ \A h \in Procs : h # g => act'[h] = act[h]
  BY <1>1, <1>5 DEF CallsOK
<1>8. act'[g].todo = more /\ act'[g].recv = NoPlace /\ act'[g].pc # "free"
      /\ (act'[g].pc = "idle" => more = {})
  BY <1>7 DEF Idle, next
<1>9. ActOK(g)'
  <2>1. \A y \in act'[g].todo : CutDone(y)'
    BY <1>4, <1>8, DoneKept
  <2> QED BY <1>8, <2>1 DEF ActOK
<1>10. ASSUME NEW h \in Procs PROVE ActOK(h)'
  <2>1. CASE h = g
    BY <1>9, <2>1
  <2>2. CASE h # g
    BY <1>1, <1>6, <1>7, <2>2, ActKept
  <2> QED BY <2>1, <2>2
<1>11. Covered'
  <2> SUFFICES ASSUME ~shed, NEW p \in Items, once'[p] = "done", NEW i \in Kids[p]
               PROVE  once'[i] = "done" \/ Pending(i)'
    BY DEF Covered
  <2>0. i \in Items
    OBVIOUS
  <2>1. CASE once[p] = "done"
    <3>1. CASE once[i] = "done"
      BY <2>0, <3>1 DEF Mono
    <3>2. CASE Pending(i)
      <4>0. PICK h \in Procs : \E y \in act[h].todo : y.item = i
        BY <3>2 DEF Pending
      <4>1. PICK y \in act[h].todo : y.item = i
        BY <4>0
      <4>2. CASE h # g
        BY <1>7, <4>1, <4>2 DEF Pending
      <4>3. CASE h = g /\ y = x
        BY <4>1, <4>3
      <4>4. CASE h = g /\ y # x
        <5>1. y \in more
          BY <4>1, <4>4 DEF more
        <5> QED BY <1>8, <4>1, <5>1 DEF Pending
      <4> QED BY <4>2, <4>3, <4>4
    <3> QED BY <1>1, <2>1, <3>1, <3>2 DEF Covered
  <2>2. CASE p = x.item /\ x.cut
    <3>1. CutDone(x)
      BY <1>1 DEF ActOK
    <3>2. once[i] = "done"
      BY <1>1, <2>2, <3>1 DEF CutDone
    <3> QED BY <2>0, <3>2 DEF Mono
  <2>3. CASE p = x.item /\ ~x.cut
    <3>1. elem[i] \in more /\ elem[i].item = i
      BY <1>3, <2>0, <2>3 DEF more
    <3> QED BY <1>8, <3>1 DEF Pending
  <2> QED BY <2>1, <2>2, <2>3
<1> QED BY <1>0, <1>6, <1>10, <1>11, ClosingStep

LEMMA ListCloseLInv ==
  ASSUME IInv, LInv, IInv', NEW g \in Procs, ListClose(g)
  PROVE  LInv'
<1> DEFINE x == act[g].cur
<1>1. /\ act[g].pc = "free" /\ FreeItem(x.item) /\ AfterDo(g, x)
      /\ UNCHANGED <<destroying, shed>>
  BY DEF ListClose, seen
<1>2. x \in act[g].todo /\ x.item \in Items /\ once \in [Items -> {"new", "running", "done"}]
      /\ mem \in [Items -> {"none", "live", "freed"}]
  BY <1>1, Parts DEF LInv, ActOK, CallsOK, Closing, HeapOK
<1> HIDE DEF x
<1>3. once' = [once EXCEPT ![x.item] = "done"] /\ mem' = [mem EXCEPT ![x.item] = "freed"]
  BY <1>1 DEF FreeItem
<1>4. Mono /\ once'[x.item] = "done"
  BY <1>1, <1>2, <1>3 DEF Mono
<1>5. \A i \in Items : once'[i] = "done" => once[i] = "done" \/ i = x.item
  BY <1>2, <1>3
<1>6. \A i \in Items : mem[i] # "none" => mem'[i] # "none"
  BY <1>2, <1>3
<1> QED BY <1>1, <1>2, <1>4, <1>5, <1>6, AfterDoLInv

LEMMA OnceDoneLInv ==
  ASSUME IInv, LInv, IInv', NEW g \in Procs, NEW x \in act[g].todo, OnceDone(g, x)
  PROVE  LInv'
<1>1. /\ act[g].pc = "close" /\ once[x.item] = "done" /\ AfterDo(g, x)
      /\ UNCHANGED <<mem, frees, once, destroying, shed>>
  BY DEF OnceDone, heap, seen
<1>2. Mono
  BY <1>1 DEF Mono
<1> QED BY <1>1, <1>2, AfterDoLInv

-----------------------------------------------------------------------------
(* The steps of DestroyRecursive.                                          *)
LEMMA DestroyBeginLInv ==
  ASSUME IInv, LInv, IInv', NEW p \in Places, DestroyBegin(p)
  PROVE  LInv'
<1> DEFINE fr == DFrame(At(p))
<1>1. /\ stack' = <<fr>> /\ dplace' = p /\ UNCHANGED <<heap, places, act, shed>> /\ ~Nobody
  BY ToucherIsSomebody DEF DestroyBegin
<1>2. Mono /\ PlacesOK /\ At(p).item \in Items /\ CutDone(At(p))
  BY <1>1, TouchesOpened DEF LInv, Mono, heap, PlacesOK, DestroyBegin
<1>3. PlacesOK' /\ ItemsStay
  BY <1>1, <1>2, PlacesSame
<1>4. fr.item = At(p).item /\ fr.pc = "children" /\ fr.kids = IF At(p).cut THEN {} ELSE Kids[fr.item]
  BY DEF DFrame
<1> HIDE DEF fr
<1>5. Len(stack') = 1 /\ stack'[1] = fr /\ \A k \in 1..Len(stack') : k = 1
  BY <1>1
<1>6. ASSUME ~shed' PROVE Handled(stack, 1)'
  <2>1. At(p).cut => \A i \in Kids[fr.item] : once[i] = "done"
    BY <1>1, <1>2, <1>4, <1>6 DEF CutDone
  <2> QED BY <1>1, <1>4, <1>5, <2>1 DEF Handled, heap
<1>7. ASSUME NEW q, q = dplace' PROVE At(q)'.item = fr.item
  BY <1>1, <1>4, <1>7 DEF At, places
<1>8. At(dplace)'.item = stack'[Len(stack')].item
  BY <1>5, <1>7 DEF At
<1>9. StackOK'
  BY <1>4, <1>5, <1>6, <1>8 DEF StackOK
<1> QED BY <1>1, <1>3, <1>9, QuietStep

(* A frame on top of a stack whose innermost frame is replaced.            *)
LEMMA Pushed ==
  ASSUME NEW S, NEW s \in Seq(S), s # <<>>, NEW f \in S, NEW fr \in S, NEW t,
         t = <<f>> \o [s EXCEPT ![1] = fr]
  PROVE  /\ Len(t) = Len(s) + 1 /\ t[1] = f /\ t[2] = fr
         /\ \A j \in 2..Len(s) : t[j + 1] = s[j]
<1> DEFINE below == [s EXCEPT ![1] = fr]
<1>1. below \in Seq(S) /\ Len(below) = Len(s) /\ below[1] = fr /\ \A j \in 2..Len(s) : below[j] = s[j]
  <2>1. 1 \in 1..Len(s)
    OBVIOUS
  <2> QED BY <2>1, ExceptSeq
<1>2. <<f>> \in Seq(S) /\ Len(<<f>>) = 1 /\ <<f>>[1] = f
  OBVIOUS
<1>3. t = <<f>> \o below
  OBVIOUS
<1> HIDE DEF below
<1>4. Len(s) \in Nat /\ Len(s) >= 1
  OBVIOUS
<1>5. /\ Len(t) = Len(s) + 1
      /\ \A j \in 1..(1 + Len(s)) : t[j] = IF j <= 1 THEN <<f>>[j] ELSE below[j - 1]
  BY <1>1, <1>2, <1>3, ConcatProperties
<1>6. t[1] = f /\ t[2] = fr
  BY <1>1, <1>2, <1>4, <1>5
<1>7. ASSUME NEW j \in 2..Len(s) PROVE t[j + 1] = s[j]
  BY <1>1, <1>4, <1>5
<1> QED BY <1>5, <1>6, <1>7

LEMMA DestroyChildLInv ==
  ASSUME IInv, LInv, IInv', NEW c \in Items, DestroyChild(c)
  PROVE  LInv'
<1> DEFINE f  == DFrame(elem[c])
           fr == [stack[1] EXCEPT !.kids = @ \ {c}]
<1>1. /\ stack # <<>> /\ c \in stack[1].kids /\ stack' = <<f>> \o [stack EXCEPT ![1] = fr]
      /\ UNCHANGED <<heap, places, act, dplace, shed>> /\ ~Nobody
  BY Zenon DEF DestroyChild, Nobody
<1>2. /\ CallsOK /\ StackOK /\ PlacesOK /\ Typed /\ Mono /\ Grown
      /\ stack \in Seq(Destroyings) /\ stack[1] \in Destroyings
  BY <1>1, Parts, Activation DEF LInv, CallsOK, Mono, heap
<1>3. PlacesOK' /\ ItemsStay
  BY <1>1, <1>2, PlacesSame
<1>4. elem[c] \in Struct /\ elem[c].item = c /\ CutDone(elem[c])
  <2>1. c \in Places /\ At(c) = elem[c]
    BY DEF Places, At
  <2> QED BY <1>2, <2>1 DEF Typed, Grown, PlacesOK
<1>5. f \in Destroyings /\ f.item = c /\ f.pc = "children" /\ f.kids = IF elem[c].cut THEN {} ELSE Kids[c]
  BY <1>4, FrameTyped DEF DFrame
<1>6. fr \in Destroyings /\ fr.item = stack[1].item /\ fr.pc = stack[1].pc /\ fr.kids = stack[1].kids \ {c}
  BY <1>2 DEF Destroyings
<1> HIDE DEF f, fr
<1>7. /\ Len(stack') = Len(stack) + 1 /\ stack'[1] = f /\ stack'[2] = fr
      /\ \A j \in 2..Len(stack) : stack'[j + 1] = stack[j]
  BY <1>1, <1>2, <1>5, <1>6, Pushed
<1>8. Len(stack) \in Nat /\ Len(stack) >= 1
  BY <1>1, <1>2
<1>9. ASSUME NEW k \in 1..Len(stack')
      PROVE  \/ k = 1
             \/ k = 2
             \/ \E j \in 2..Len(stack) : k = j + 1
  BY <1>7, <1>8
<1>10. ASSUME NEW j \in 1..Len(stack)
       PROVE  stack[j].item \in Items /\ Kids[stack[j].item] \subseteq Items
  <2>1. stack[j] \in Destroyings
    BY <1>2
  <2>2. stack[j].item \in Items
    BY <2>1 DEF Destroyings
  <2> QED BY <2>2
<1>11. ASSUME NEW j \in 1..Len(stack) PROVE stack'[j + 1].item = stack[j].item
  <2>1. CASE j = 1
    BY <1>6, <1>7, <2>1
  <2>2. CASE j # 1
    BY <1>7, <1>8, <2>2
  <2> QED BY <2>1, <2>2
<1>12. ASSUME ~shed', NEW k \in 1..Len(stack') PROVE Handled(stack, k)'
  <2>1. CASE k = 1
    <3>1. elem[c].cut => \A i \in Kids[c] : once[i] = "done"
      BY <1>1, <1>4, <1>12 DEF CutDone
    <3> QED BY <1>1, <1>5, <1>7, <2>1, <3>1 DEF Handled, heap
  <2>2. CASE k = 2
    <3>0. ~shed /\ StackOK /\ 1 \in 1..Len(stack)
      <4>1. ~shed
        BY <1>1, <1>12
      <4>2. 1 \in 1..Len(stack)
        BY <1>8
      <4> QED BY <1>2, <4>1, <4>2
    <3>1. Handled(stack, 1)
      BY <3>0, Zenon DEF StackOK
    <3>2. \A i \in Kids[stack[1].item] : i \in stack[1].kids \/ once[i] = "done"
      BY <3>1 DEF Handled
    <3>3. k > 1 /\ k - 1 = 1
      BY <2>2
    <3> QED BY <1>1, <1>5, <1>6, <1>7, <2>2, <3>2, <3>3 DEF Handled, heap
  <2>3. ASSUME NEW j \in 2..Len(stack), k = j + 1 PROVE Handled(stack, k)'
    <3>1. j \in 1..Len(stack) /\ j - 1 \in 1..Len(stack) /\ j > 1 /\ k > 1 /\ k - 1 = j /\ (j - 1) + 1 = j
      BY <1>8, <2>3
    <3>2. Handled(stack, j)
      BY <1>1, <1>2, <1>12, <3>1 DEF StackOK
    <3>3. stack'[k] = stack[j]
      BY <1>7, <2>3
    <3>4. stack'[j].item = stack[j - 1].item
      BY <1>11, <3>1
    <3>5. once' = once
      BY <1>1 DEF heap
    <3> QED BY <3>1, <3>2, <3>3, <3>4, <3>5 DEF Handled
  <2> QED BY <1>9, <2>1, <2>2, <2>3
<1>13. ASSUME NEW k \in 1..Len(stack'), stack'[k].pc = "close" PROVE stack'[k].kids = {}
  <2>1. k # 1
    BY <1>5, <1>7, <1>13
  <2>2. k # 2
    <3>1. stack[1].pc = "close" => stack[1].kids = {}
      BY <1>2, <1>8 DEF StackOK
    <3> QED BY <1>1, <1>6, <1>7, <1>13, <3>1
  <2>3. ASSUME NEW j \in 2..Len(stack), k = j + 1 PROVE stack'[k].kids = {}
    BY <1>2, <1>7, <1>8, <1>13, <2>3 DEF StackOK
  <2> QED BY <1>9, <2>1, <2>2, <2>3
<1>14. ASSUME NEW q, q = dplace PROVE At(q)'.item = stack'[Len(stack')].item
  <2>1. At(q)'.item = stack[Len(stack)].item
    BY <1>1, <1>2, <1>14 DEF StackOK, At, places
  <2>2. stack'[Len(stack) + 1].item = stack[Len(stack)].item
    BY <1>8, <1>11
  <2> QED BY <1>7, <2>1, <2>2
<1>15. At(dplace)'.item = stack'[Len(stack')].item
  BY <1>1, <1>14 DEF At
<1>16. StackOK'
  BY <1>12, <1>13, <1>15 DEF StackOK
<1> QED BY <1>1, <1>3, <1>16, QuietStep

(* Children is replaced when all that was in it was destroyed and closed.  *)
LEMMA ClearLInv ==
  ASSUME IInv, LInv, stack # <<>>, stack[1].kids = {}, ClearChildren,
         UNCHANGED <<heap, shed>>
  PROVE  PlacesOK' /\ ItemsStay
<1>1. /\ PlacesOK /\ StackOK /\ Typed /\ Mono /\ dplace \in Places /\ stack[1].item \in Items
  BY Parts, Activation DEF LInv, Mono, heap
<1>2. CASE UNCHANGED places
  BY <1>1, <1>2, PlacesSame
<1>3. ASSUME NEW q, q = dplace, Len(stack) = 1,
             NEW s, s = [At(q) EXCEPT !.cut = TRUE], Put(q, s)
      PROVE  PlacesOK' /\ ItemsStay
  <2>1. q \in Places /\ At(q) \in Struct /\ NilDone(At(q)) /\ At(q).item = stack[1].item
    BY <1>1, <1>3, AtTyped DEF PlacesOK, StackOK
  <2>2. s \in Struct /\ s.item = At(q).item /\ s.nilled = At(q).nilled
    BY <1>3, <2>1 DEF Struct
  <2>3. ~shed => Handled(stack, 1)
    BY <1>1, <1>3 DEF StackOK
  <2>4. ~shed => \A i \in Kids[stack[1].item] : once[i] = "done"
    BY <2>3 DEF Handled
  <2>6. NilDone(s)'
    BY <1>1, <2>1, <2>2 DEF NilDone, Mono
  <2>7. CutDone(s)'
    BY <2>1, <2>2, <2>4 DEF CutDone, heap
  <2> QED BY <1>1, <1>3, <2>1, <2>2, <2>6, <2>7, PutKeepsPlaces
<1> QED BY <1>2, <1>3 DEF ClearChildren

LEMMA DestroyOkLInv ==
  ASSUME IInv, LInv, IInv', DestroyOk
  PROVE  LInv'
<1> DEFINE fr == [stack[1] EXCEPT !.pc = "close"]
<1>1. /\ stack # <<>> /\ stack[1].kids = {} /\ ClearChildren
      /\ UNCHANGED <<heap, act, dplace, shed>> /\ ~Nobody
      /\ stack' = <<>> \/ stack' = [stack EXCEPT ![1] = fr]
  BY Zenon DEF DestroyOk, Nobody, Replace
<1>2. /\ StackOK /\ CallsOK /\ stack \in Seq(Destroyings) /\ stack[1] \in Destroyings
      /\ Len(stack) \in Nat /\ Len(stack) > 0 /\ dplace \in Places
  BY <1>1, Parts, Activation DEF LInv, CallsOK
<1>3. PlacesOK' /\ ItemsStay
  BY <1>1, ClearLInv
<1>4. CASE stack' = <<>>
  <2>1. Len(stack') = 0
    BY <1>4
  <2>2. StackOK'
    BY <1>4, <2>1 DEF StackOK
  <2> QED BY <1>1, <1>3, <2>2, QuietStep
<1>5. CASE stack' = [stack EXCEPT ![1] = fr]
  <2>1. fr.item = stack[1].item /\ fr.kids = {}
    BY <1>1, <1>2 DEF Destroyings
  <2> HIDE DEF fr
  <2>2. /\ Len(stack') = Len(stack) /\ stack'[1] = fr
        /\ \A k \in 1..Len(stack) : k # 1 => stack'[k] = stack[k]
    BY <1>2, <1>5
  <2>3. ASSUME NEW k \in 1..Len(stack)
        PROVE  stack'[k].item = stack[k].item /\ stack'[k].kids = stack[k].kids
    <3>1. CASE k = 1
      BY <1>1, <2>1, <2>2, <3>1
    <3>2. CASE k # 1
      BY <2>2, <3>2
    <3> QED BY <3>1, <3>2
  <2>4. ASSUME ~shed', NEW k \in 1..Len(stack) PROVE Handled(stack, k)'
    <3>1. Handled(stack, k)
      BY <1>1, <1>2, <2>4 DEF StackOK
    <3>2. k > 1 => k - 1 \in 1..Len(stack)
      BY <1>2
    <3>3. k > 1 => stack'[k - 1].item = stack[k - 1].item
      BY <2>3, <3>2
    <3> QED BY <1>1, <2>3, <3>1, <3>3 DEF Handled, heap
  <2>5. ASSUME NEW k \in 1..Len(stack), stack'[k].pc = "close" PROVE stack'[k].kids = {}
    <3>1. CASE k = 1
      BY <2>1, <2>2, <3>1
    <3>2. CASE k # 1
      BY <1>2, <2>2, <2>5, <3>2 DEF StackOK
    <3> QED BY <3>1, <3>2
  <2>6. ASSUME NEW q, q = dplace PROVE At(q)'.item = stack'[Len(stack')].item
    <3>1. Len(stack) \in 1..Len(stack)
      BY <1>2
    <3>2. At(q).item = stack[Len(stack)].item /\ stack[Len(stack)].item \in Items /\ q \in Places
      <4>1. stack[Len(stack)] \in Destroyings
        BY <1>2, <3>1
      <4> QED BY <1>1, <1>2, <2>6, <4>1 DEF StackOK, Destroyings
    <3>3. At(q)'.item = At(q).item
      BY <1>3, <3>2 DEF ItemsStay
    <3> QED BY <2>2, <2>3, <3>1, <3>2, <3>3
  <2>7. At(dplace)'.item = stack'[Len(stack')].item
    BY <1>1, <2>6 DEF At
  <2>8. StackOK'
    BY <2>2, <2>4, <2>5, <2>7 DEF StackOK
  <2> QED BY <1>1, <1>3, <2>8, QuietStep
<1> QED BY <1>1, <1>4, <1>5

LEMMA DestroyFailsLInv ==
  ASSUME IInv, LInv, IInv', DestroyFails
  PROVE  LInv'
<1>1. /\ stack # <<>> /\ stack' = <<>> /\ UNCHANGED <<heap, act, dplace, shed>> /\ ~Nobody
      /\ (stack[1].kids = {} /\ ClearChildren) \/ UNCHANGED places
  BY DEF DestroyFails, Nobody
<1>2. PlacesOK /\ Mono
  BY <1>1 DEF LInv, Mono, heap
<1>3. PlacesOK' /\ ItemsStay
  <2>1. CASE UNCHANGED places
    BY <1>2, <2>1, PlacesSame
  <2>2. CASE stack[1].kids = {} /\ ClearChildren
    BY <1>1, <2>2, ClearLInv
  <2> QED BY <1>1, <2>1, <2>2
<1>4. StackOK'
  <2>1. Len(stack') = 0
    BY <1>1
  <2> QED BY <1>1, <2>1 DEF StackOK
<1> QED BY <1>1, <1>3, <1>4, QuietStep

(* The child that was destroyed is closed; its Children were before it.    *)
LEMMA CloseChildLInv ==
  ASSUME IInv, LInv, IInv', CloseChild
  PROVE  LInv'
<1> DEFINE c == stack[1].item
<1>1. /\ stack # <<>> /\ stack[1].pc = "close" /\ stack' = Tail(stack)
      /\ UNCHANGED <<places, act, dplace, shed>> /\ ~Nobody
      /\ (once[c] = "new" /\ FreeItem(c)) \/ (once[c] = "done" /\ UNCHANGED heap)
  BY DEF CloseChild, Nobody, seen
<1>2. /\ LInv /\ StackOK /\ CallsOK /\ HeapOK /\ stack \in Seq(Destroyings) /\ c \in Items
      /\ Len(stack) \in Nat /\ Len(stack) > 0 /\ dplace \in Places /\ Grown
      /\ PlacesOK /\ Covered /\ Sprouted /\ \A g \in Procs : ActOK(g)
  BY <1>1, Parts, Activation DEF LInv, CallsOK
<1>3. ~shed => \A i \in Kids[c] : once[i] = "done"
  <2>1. stack[1].kids = {} /\ (~shed => Handled(stack, 1))
    BY <1>1, <1>2 DEF StackOK
  <2> QED BY <2>1 DEF Handled
<1> HIDE DEF c
<1>4. /\ once'[c] = "done"
      /\ \A i \in Items : i # c => once'[i] = once[i]
      /\ \A i \in Items : mem[i] # "none" => mem'[i] # "none"
  <2>1. CASE once[c] = "done" /\ UNCHANGED heap
    BY <2>1 DEF heap
  <2>2. CASE once[c] = "new" /\ FreeItem(c)
    <3>1. mem' = [mem EXCEPT ![c] = "freed"] /\ once' = [once EXCEPT ![c] = "done"]
      BY <2>2 DEF FreeItem
    <3> QED BY <1>2, <3>1 DEF HeapOK
  <2> QED BY <1>1, <2>1, <2>2
<1>5. Mono
  BY <1>1, <1>4 DEF Mono
<1>6. PlacesOK' /\ ItemsStay
  BY <1>1, <1>2, <1>5, PlacesSame
<1>7. \A g \in Procs : ActOK(g)'
  BY <1>1, <1>2, <1>5, <1>6, ActKept
<1>8. Covered'
  <2>1. ASSUME ~shed', NEW p \in Items, once'[p] = "done"
        PROVE  once[p] = "done" \/ \A i \in Kids[p] : once'[i] = "done"
    <3>1. CASE p = c
      <4>1. Kids[c] \subseteq Items
        BY <1>2
      <4> QED BY <1>1, <1>3, <1>5, <2>1, <3>1, <4>1 DEF Mono
    <3>2. CASE p # c
      BY <1>4, <2>1, <3>2
    <3> QED BY <3>1, <3>2
  <2> QED BY <1>1, <1>2, <1>5, <2>1, CoveredKept
<1>9. Sprouted'
  <2>1. Grown'
    BY <1>1, <1>2 DEF Grown, places
  <2> QED BY <1>1, <1>2, <1>4, <1>6, <2>1, SproutedKept
<1>10. Len(stack') = Len(stack) - 1 /\ \A k \in 1..Len(stack') : stack'[k] = stack[k + 1]
  BY <1>1, <1>2
<1>11. ASSUME ~shed', NEW k \in 1..Len(stack') PROVE Handled(stack, k)'
  <2>1. k + 1 \in 1..Len(stack) /\ k + 1 > 1 /\ (k + 1) - 1 = k /\ k \in 1..Len(stack)
    BY <1>2, <1>10
  <2>2. Handled(stack, k + 1)
    BY <1>1, <1>2, <1>11, <2>1 DEF StackOK
  <2>3. stack[k + 1] \in Destroyings
    BY <1>2, <2>1
  <2>4. stack[k + 1].item \in Items
    BY <2>3 DEF Destroyings
  <2>5. Kids[stack[k + 1].item] \subseteq Items
    BY <2>4
  <2> SUFFICES ASSUME NEW i \in Kids[stack[k + 1].item]
               PROVE  i \in stack[k + 1].kids \/ once'[i] = "done" \/ (k > 1 /\ stack'[k - 1].item = i)
    BY <1>10 DEF Handled
  <2>6. i \in stack[k + 1].kids \/ once[i] = "done" \/ stack[k].item = i
    BY <2>1, <2>2 DEF Handled
  <2>7. CASE once[i] = "done"
    BY <1>5, <2>5, <2>7 DEF Mono
  <2>8. CASE stack[k].item = i /\ k = 1
    BY <1>4, <2>8 DEF c
  <2>9. CASE stack[k].item = i /\ k # 1
    <3>1. k > 1 /\ k - 1 \in 1..Len(stack') /\ (k - 1) + 1 = k
      BY <1>2, <1>10, <2>9
    <3> QED BY <1>10, <2>9, <3>1
  <2> QED BY <2>6, <2>7, <2>8, <2>9
<1>12. ASSUME NEW k \in 1..Len(stack'), stack'[k].pc = "close" PROVE stack'[k].kids = {}
  <2>1. k + 1 \in 1..Len(stack)
    BY <1>2, <1>10
  <2> QED BY <1>2, <1>10, <1>12, <2>1 DEF StackOK
<1>13. ASSUME stack' # <<>>, NEW q, q = dplace PROVE At(q)'.item = stack'[Len(stack')].item
  <2>1. Len(stack') \in 1..Len(stack') /\ Len(stack') + 1 = Len(stack)
    BY <1>1, <1>2, <1>10, <1>13
  <2>2. stack'[Len(stack')] = stack[Len(stack)]
    BY <1>10, <2>1
  <2>3. At(q)'.item = stack[Len(stack)].item
    BY <1>1, <1>2, <1>13 DEF StackOK, At, places
  <2> QED BY <2>2, <2>3
<1>14. stack' # <<>> => At(dplace)'.item = stack'[Len(stack')].item
  BY <1>1, <1>13 DEF At
<1>15. StackOK'
  BY <1>11, <1>12, <1>14 DEF StackOK
<1> QED BY <1>6, <1>7, <1>8, <1>9, <1>15 DEF LInv

LEMMA DestroyPromoteLInv ==
  ASSUME IInv, LInv, IInv', NEW p \in Places, DestroyPromote(p)
  PROVE  LInv'
<1> SUFFICES ASSUME NEW s, s = [At(p) EXCEPT !.cut = TRUE] PROVE LInv'
  OBVIOUS
<1>1. /\ Put(p, s) /\ shed' = TRUE /\ ~At(p).nilled
      /\ UNCHANGED <<heap, act, destroying>> /\ ~Nobody
  BY ToucherIsSomebody DEF DestroyPromote
<1>2. Typed /\ CallsOK /\ PlacesOK /\ StackOK /\ At(p) \in Struct
  BY Parts, AtTyped DEF LInv
<1>3. s \in Struct /\ s.item = At(p).item /\ s.nilled = At(p).nilled
  BY <1>2 DEF Struct
<1>4. Mono
  BY <1>1 DEF Mono, heap
<1>5. NilDone(s)' /\ CutDone(s)'
  BY <1>1, <1>3 DEF NilDone, CutDone
<1>6. PlacesOK' /\ ItemsStay
  BY <1>1, <1>2, <1>3, <1>4, <1>5, PutKeepsPlaces
<1>7. StackOK'
  BY <1>1, <1>2, <1>4, <1>6, StackKept
<1> QED BY <1>1, <1>6, <1>7, QuietStep

-----------------------------------------------------------------------------
LEMMA StutterLInv ==
  ASSUME LInv, UNCHANGED vars
  PROVE  LInv'
<1>1. Sprouted'
  BY DEF LInv, Sprouted, Nobody, Grown, vars
<1>2. PlacesOK'
  BY DEF LInv, PlacesOK, NilDone, CutDone, At, vars
<1>3. \A g \in Procs : ActOK(g)'
  BY DEF LInv, ActOK, CutDone, At, vars
<1>4. Covered'
  BY DEF LInv, Covered, Pending, vars
<1>5. StackOK'
  BY DEF LInv, StackOK, Handled, At, vars
<1> QED BY <1>1, <1>2, <1>3, <1>4, <1>5 DEF LInv

LEMMA NextLInv ==
  ASSUME IInv, LInv, [Next]_vars
  PROVE  LInv'
<1>0. IInv'
  BY NextIInv
<1>1. CASE \E v \in Vars : DatasetOpen(v)
  BY <1>0, <1>1, OpenLInv
<1>2. CASE \E g \in Procs, p \in Places, w \in Vars : Copy(g, p, w)
  BY <1>0, <1>2, CopyLInv
<1>3. CASE \E g \in Procs, p \in Places : Use(g, p) \/ CloseBegin(g, p)
  BY <1>0, <1>3, UseLInv, CloseBeginLInv
<1>4. CASE \E g \in Procs : CloseStep(g)
  BY <1>0, <1>4, OnceEnterLInv, OnceDoneLInv, ListCloseLInv DEF CloseStep
<1>5. CASE \E p \in Places : DestroyBegin(p) \/ DestroyPromote(p)
  BY <1>0, <1>5, DestroyBeginLInv, DestroyPromoteLInv
<1>6. CASE DestroyStep
  BY <1>0, <1>6, DestroyChildLInv, DestroyOkLInv, DestroyFailsLInv, CloseChildLInv DEF DestroyStep
<1>7. CASE UNCHANGED vars
  BY <1>7, StutterLInv
<1> QED BY <1>1, <1>2, <1>3, <1>4, <1>5, <1>6, <1>7 DEF Next

(* Close (zfs.go:189-201): whatever is copied, closed in whatever order    *)
(* and destroyed recursively, once every variable was closed no item of    *)
(* the tree is left allocated.                                             *)
THEOREM NothingLeaks == Spec => []NoLeak
<1>1. Init => IInv /\ LInv
  BY InitIInv, InitLInv
<1>2. IInv /\ LInv /\ [Next]_vars => (IInv /\ LInv)'
  BY NextIInv, NextLInv
<1>3. IInv /\ LInv => NoLeak
  BY ClosedTree
<1> QED BY <1>1, <1>2, <1>3, PTL DEF Spec
=============================================================================
