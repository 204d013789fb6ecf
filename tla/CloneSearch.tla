----------------------------- MODULE CloneSearch -----------------------------
(***************************************************************************)
(* Dataset.Clones (zfs.go), one step per channel operation.                *)
(*                                                                         *)
(* The pool is opened afresh and walked breadth first.  The frontier is a  *)
(* buffered channel that one and the same goroutine sends to and receives  *)
(* from; everything opened below a dataset, its snapshots included, is     *)
(* sent to it unless its origin is not one of d's snapshots.               *)
(***************************************************************************)
EXTENDS ZfsNamespace, FiniteSets, SequencesExt

CONSTANTS
  Pools,     \* the namespaces to search
  Root,      \* path of the pool's root filesystem
  Wanted,    \* paths of the filesystems whose clones are searched
  QueueCap   \* capacity of the channel, 1024 in the code

ASSUME QueueCapAssumption == QueueCap \in Nat \ {0}

(* A pool as libzfs lists it: the filesystems hang from the root, an       *)
(* origin is a snapshot of one of them, and a name is given once.          *)
IsPool(n) ==
  /\ Root \in FSet(n) /\ FSet(n) \subseteq Seq(STRING) /\ Ids(n) \subseteq Nat \ {NoSnap}
  /\ \A f \in FSet(n) : Under(f, Root) /\ \A k \in 1..Len(f) : SubSeq(f, 1, k) \in FSet(n)
  /\ \A f \in FSet(n) : n.fs[f].origin \in Ids(n) \cup {NoSnap} /\ n.fs[f].born \in Nat
  /\ \A i, j \in Ids(n) : (n.snap[i].of = n.snap[j].of /\ n.snap[i].name = n.snap[j].name) => i = j

ASSUME PoolsAssumption == Len(Root) = 1 /\ Root \in Seq(STRING) /\ \A n \in Pools : IsPool(n)

VARIABLES
  pool,    \* the namespace, as opened
  d,       \* the dataset whose clones are searched, a node of the same tree
  pc,      \* "start", "select", "expand" or "done"
  queue,   \* the channel's buffer
  ds,      \* the dataset last received
  rest,    \* its children still to be looked at
  clones   \* the clones found, unsorted until pc is "done"

vars == <<pool, d, pc, queue, ds, rest, clones>>

Init ==
  /\ pool \in Pools
  /\ d \in {FsNode(f) : f \in FSet(pool) \cap Wanted}
           \cup {SnapNode(pool.snap[i].of, i) :
                   i \in {j \in Ids(pool) : pool.snap[j].of \in Wanted}}
  /\ pc = "start"
  /\ queue = <<>>
  /\ ds = FsNode(Root)
  /\ rest = {}
  /\ clones = <<>>

(* Mutant: the channel is made without a buffer; nobody else receives.     *)
SendUnbuffered(ch) == FALSE /\ queue' = Append(queue, ch)

(* queue <- ch: with the buffer full the goroutine waits for a receiver,   *)
(* and it is the only one there is.                                        *)
Send(ch) == Len(queue) < QueueCap /\ queue' = Append(queue, ch)

Start ==
  /\ pc = "start"
  /\ Send(FsNode(Root))
  /\ pc' = "select"
  /\ UNCHANGED <<pool, d, ds, rest, clones>>

Receive ==
  /\ pc = "select" /\ queue # <<>>
  /\ ds' = Head(queue)
  /\ queue' = Tail(queue)
  /\ rest' = Children(pool, Head(queue))
  /\ pc' = "expand"
  /\ UNCHANGED <<pool, d, clones>>

(* The children of ds in the order openChildren lists them.                *)
NextChild(ch) ==
  pc = "expand" /\ ch \in rest /\ (IsSnapshot(ch) => \A k \in rest : IsSnapshot(k))

HasOrigin(ch) == ~IsSnapshot(ch) /\ pool.fs[ch.of].origin # NoSnap

(* Mutant: a clone of something else is queued like any other dataset.     *)
QueueForeignClone(ch) ==
  /\ NextChild(ch)
  /\ HasOrigin(ch) /\ ~IsHit(pool, d, pool, ch.of)
  /\ Send(ch)
  /\ rest' = rest \ {ch}
  /\ UNCHANGED <<pool, d, pc, ds, clones>>

(* The continue statement: a clone of something else is not queued.        *)
SkipForeignClone(ch) ==
  /\ NextChild(ch)
  /\ HasOrigin(ch) /\ ~IsHit(pool, d, pool, ch.of)
  /\ rest' = rest \ {ch}
  /\ UNCHANGED <<pool, d, pc, queue, ds, clones>>

(* A dependent clone is recorded, then sent.                               *)
RecordClone(ch) ==
  /\ NextChild(ch)
  /\ HasOrigin(ch) /\ IsHit(pool, d, pool, ch.of)
  /\ Send(ch)
  /\ clones' = Append(clones, ch.of)
  /\ rest' = rest \ {ch}
  /\ UNCHANGED <<pool, d, pc, ds>>

SendPlain(ch) ==
  /\ NextChild(ch)
  /\ ~HasOrigin(ch)
  /\ Send(ch)
  /\ rest' = rest \ {ch}
  /\ UNCHANGED <<pool, d, pc, ds, clones>>

Expanded ==
  /\ pc = "expand" /\ rest = {}
  /\ pc' = "select"
  /\ UNCHANGED <<pool, d, queue, ds, rest, clones>>

(* Mutant: ascending order.                                                *)
Older(f, g) == Less(pool, d, pool, g, f)

Younger(f, g) == Less(pool, d, pool, f, g)

(* sort.Sort, external: the same elements in an order in which none is     *)
(* less than one before it.  It is not stable.                             *)
Sorted(s) ==
  {t \in {[i \in DOMAIN s |-> s[p[i]]] : p \in Bijection(DOMAIN s, DOMAIN s)} :
     \A i, j \in DOMAIN s : i < j => ~Younger(t[j], t[i])}

(* The default branch: nothing buffered, sort and return.                  *)
Return ==
  /\ pc = "select" /\ queue = <<>>
  /\ clones' \in Sorted(clones)
  /\ pc' = "done"
  /\ UNCHANGED <<pool, d, queue, ds, rest>>

Next ==
  \/ Start
  \/ Receive
  \/ \E ch \in rest : SkipForeignClone(ch) \/ RecordClone(ch) \/ SendPlain(ch)
  \/ Expanded
  \/ Return

(* One goroutine that nothing preempts for ever.                           *)
Spec == Init /\ [][Next]_vars /\ WF_vars(Next)

-----------------------------------------------------------------------------
(* When Clones returns, it returns, without a duplicate, exactly the set   *)
(* FoundClones that DestroyPromote is modelled with, and first of all one  *)
(* that no other is less than.                                             *)
ReturnsFoundClones ==
  pc = "done" =>
    /\ ToSet(clones) = FoundClones(pool, d, pool)
    /\ Len(clones) = Cardinality(ToSet(clones))
    /\ clones # <<>> => \A f \in ToSet(clones) : ~Less(pool, d, pool, f, clones[1])

(* "For this to always work we need to promote youngest clone"             *)
(* (zfs.go:712-714): promoting the first clone of the list takes along the *)
(* origin snapshot of every other one, so none is left on the dataset.     *)
FirstCarriesAll ==
  (pc = "done" /\ clones # <<>>) =>
    \A k \in 2..Len(clones) :
      pool.fs[clones[k]].origin \in Shared(pool, clones[1])

(* Clones returns, or waits for ever for itself (zfs.go:836): the latter   *)
(* only on a full channel, and only in a pool that has, besides those in   *)
(* the channel, the dataset it looks at and one that does not fit.         *)
Returns ==
  \/ <>(pc = "done")
  \/ /\ Cardinality(FSet(pool)) + Cardinality(Ids(pool)) >= QueueCap + 2
     /\ <>[](pc = "expand" /\ Len(queue) = QueueCap)
=============================================================================
