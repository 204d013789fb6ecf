---------------------------- MODULE VdevsProofs ----------------------------
(***************************************************************************)
(* For every set of specifications, of lists of devices and of devices     *)
(* that fail, come and go, and every bound: a raidz group or a mirror has  *)
(* the redundancy that was asked for, Online reports what it did, Offline  *)
(* tries every device, Initialize works on all of them, and cache devices  *)
(* are shown as spares.                                                    *)
(*                                                                         *)
(* What the proofs need of a tree is which leaves it has (LeavesAt), not   *)
(* how deep they are, so that they do without induction over it.  VInv is  *)
(* what they share: the shape of the pool, what the handle knows of it,    *)
(* and how far the call has come.  To it Online adds Onlined, Offline      *)
(* Offlined, the redundancy Grown, and the spares SInv.                    *)
(***************************************************************************)
EXTENDS Vdevs, FiniteSetTheorems, SequenceTheorems, WellFoundedInduction, TLAPS

-----------------------------------------------------------------------------
(* Lists of vdevs and their leaves.                                        *)
IsList(s) == s \in Seq(ToSet(s))
LeavesAt(nv) == {l \in Tree(nv, Children) : l.children = <<>>}

LEMMA LeavesAre ==
  /\ \A nvs : Leaves(nvs) = UNION {LeavesAt(nvs[i]) : i \in DOMAIN nvs}
  /\ \A nv : nv.children = <<>> => LeavesAt(nv) = {nv}
  /\ \A nv : \A l \in LeavesAt(nv) : l.children = <<>>
<1>1. \A nvs : Leaves(nvs) = UNION {LeavesAt(nvs[i]) : i \in DOMAIN nvs}
  BY DEF Leaves, LeavesAt, Forest
<1>2. ASSUME NEW nv, nv.children = <<>> PROVE LeavesAt(nv) = {nv}
  BY <1>2 DEF LeavesAt, Tree, Children
<1>3. \A nv : \A l \in LeavesAt(nv) : l.children = <<>>
  BY DEF LeavesAt
<1> QED BY <1>1, <1>2, <1>3

(* What is a function on an interval from 1 is a list.                     *)
LEMMA ListIs ==
  ASSUME NEW s, NEW n \in Nat, s = [i \in 1..n |-> s[i]]
  PROVE  IsList(s) /\ Len(s) = n /\ DOMAIN s = 1..n
<1>1. s \in [1..n -> ToSet(s)]
  BY DEF ToSet
<1> QED BY <1>1 DEF IsList

LEMMA ListShape ==
  ASSUME NEW s, IsList(s)
  PROVE  Len(s) \in Nat /\ DOMAIN s = 1..Len(s) /\ s = [i \in 1..Len(s) |-> s[i]]
  BY DEF IsList

LEMMA ListAppend ==
  ASSUME NEW s, IsList(s), NEW x
  PROVE  /\ IsList(Append(s, x)) /\ Len(Append(s, x)) = Len(s) + 1
         /\ Append(s, x)[Len(s) + 1] = x
         /\ \A i \in DOMAIN s : i \in DOMAIN Append(s, x) /\ Append(s, x)[i] = s[i]
         /\ \A i \in DOMAIN Append(s, x) : i \in DOMAIN s \/ i = Len(s) + 1
<1> DEFINE n == Len(s)
           t == Append(s, x)
<1>1. n \in Nat /\ DOMAIN s = 1..n /\ s \in Seq(ToSet(s) \cup {x})
  <2>1. n \in Nat /\ DOMAIN s = 1..n /\ s \in [1..n -> ToSet(s)]
    BY ListShape DEF IsList
  <2>2. s \in [1..n -> ToSet(s) \cup {x}]
    BY <2>1
  <2> QED BY <2>1, <2>2
<1>2. t \in Seq(ToSet(s) \cup {x}) /\ Len(t) = n + 1 /\ t[n + 1] = x /\ \A i \in 1..n : t[i] = s[i]
  BY <1>1
<1>3. t = [i \in 1..(n + 1) |-> t[i]] /\ n + 1 \in Nat /\ DOMAIN t = 1..(n + 1)
  <2>1. ASSUME NEW S, NEW u \in Seq(S)
        PROVE  DOMAIN u = 1..Len(u) /\ u = [i \in 1..Len(u) |-> u[i]]
    OBVIOUS
  <2> HIDE DEF t
  <2>2. DOMAIN t = 1..Len(t) /\ t = [i \in 1..Len(t) |-> t[i]]
    BY <1>2, <2>1
  <2> QED BY <1>1, <1>2, <2>2
<1>4. IsList(t)
  BY <1>3, ListIs
<1>5. 1..(n + 1) = 1..n \cup {n + 1}
  BY <1>1
<1> QED BY <1>1, <1>2, <1>3, <1>4, <1>5

(* A set of numbers up to n has a greatest.                                *)
LEMMA LastOf ==
  ASSUME NEW n \in Nat, NEW S \in SUBSET (1..n), S # {}
  PROVE  \E m \in S : \A k \in S : k <= m
<1> DEFINE T == {d \in Nat : n - d \in S}
<1>1. T \subseteq Nat /\ T # {}
  <2>1. PICK k \in S : TRUE
    OBVIOUS
  <2>2. n - k \in T
    BY <2>1
  <2> QED BY <2>2
<1>2. PICK d \in T : \A e \in T : ~(<<e, d>> \in OpToRel(<, Nat))
  BY <1>1, WFMin, NatLessThanWellFounded
<1>3. \A e \in T : ~(e < d)
  BY <1>2 DEF OpToRel
<1>4. ASSUME NEW k \in S PROVE k <= n - d
  <2>1. n - k \in T
    BY <1>4
  <2>2. ~(n - k < d)
    BY <2>1, <1>3
  <2> QED BY <2>2
<1> QED BY <1>4

(* Only holes are cut off.                                                 *)
LEMMA TrimmedIs ==
  ASSUME NEW s, IsList(s)
  PROVE  /\ IsList(Trimmed(s)) /\ DOMAIN Trimmed(s) \subseteq DOMAIN s
         /\ \A i \in DOMAIN Trimmed(s) : Trimmed(s)[i] = s[i]
         /\ \A i \in DOMAIN s \ DOMAIN Trimmed(s) : s[i].type = HoleName
<1> DEFINE I == {i \in 1..Len(s) : s[i].type # HoleName}
           n == SelectLastInSeq(s, LAMBDA c : c.type # HoleName)
           t == Trimmed(s)
<1>1. Len(s) \in Nat /\ DOMAIN s = 1..Len(s) /\ s = [i \in 1..Len(s) |-> s[i]]
  BY ListShape
<1>2. n = IF I # {} THEN Max(I) ELSE 0
  BY DEF SelectLastInSeq
<1>3. t = SubSeq(s, 1, n)
  BY DEF Trimmed
<1> HIDE DEF n
<1>4. n \in 0..Len(s) /\ \A i \in I : i <= n
  <2>1. CASE I = {}
    BY <1>1, <1>2, <2>1
  <2>2. CASE I # {}
    <3>1. \E m \in I : \A k \in I : k <= m
      BY <1>1, <2>2, LastOf
    <3>2. Max(I) \in I /\ \A k \in I : k <= Max(I)
      BY <1>1, <3>1 DEF Max
    <3> QED BY <1>1, <1>2, <2>2, <3>2
  <2> QED BY <2>1, <2>2
<1>5. t = [i \in 1..n |-> s[i]]
  <2>1. s \in Seq(ToSet(s))
    BY DEF IsList
  <2>2. t = [i \in 1..((n - 1) + 1) |-> s[(i + 1) - 1]]
    BY <1>1, <1>3, <1>4, <2>1
  <2>3. (n - 1) + 1 = n /\ \A i \in 1..n : (i + 1) - 1 = i
    BY <1>1, <1>4
  <2> QED BY <2>2, <2>3
<1>6. IsList(t) /\ DOMAIN t = 1..n
  <2>1. t = [i \in 1..n |-> t[i]] /\ n \in Nat
    BY <1>4, <1>5
  <2> QED BY <2>1, ListIs
<1>7. \A i \in DOMAIN s \ DOMAIN t : i \notin I /\ i \in 1..Len(s)
  BY <1>1, <1>4, <1>6
<1> QED BY <1>1, <1>4, <1>5, <1>6, <1>7

-----------------------------------------------------------------------------
(* The top-level vdevs of a pool.  Only a leaf is a log or a hole, a group *)
(* has no path and no hole in it, and a log shares its path with nothing.  *)
Grouping == {"raidz", "mirror"}

TopOK(nv) ==
  /\ IsList(nv.children)
  /\ nv.isLog => nv.children = <<>> /\ nv.path \notin NoDevice /\ nv.type \notin Grouping
  /\ nv.type = HoleName => nv.children = <<>> /\ ~nv.isLog /\ nv.path = HoleName
  /\ nv.type = "raidz" => nv.nparity \in Nat
  /\ nv.children # <<>> => nv.path = NoPath
  /\ \A l \in LeavesAt(nv) :
       IF l.type = HoleName THEN l = nv ELSE l.path \notin {HoleName, IndirectName}

Apart(nvs) ==
  \A i, j \in DOMAIN nvs :
    (nvs[i].isLog /\ i # j) =>
      /\ nvs[j].path # nvs[i].path
      /\ \A l \in LeavesAt(nvs[j]) : l.path # nvs[i].path

Stays(nv) == ~nv.isLog /\ nv.type # HoleName

VdevsOK(nvs) ==
  /\ IsList(nvs) /\ \A i \in DOMAIN nvs : TopOK(nvs[i])
  /\ \E i \in DOMAIN nvs : Stays(nvs[i])
  /\ IsFiniteSet(Leaves(nvs))
  /\ Apart(nvs)

LEMMA ChildrenBuilt ==
  ASSUME NEW vs
  PROVE  \E build : BuildChildren(vs) = [i \in DOMAIN vs |-> BuildOne(vs[i], build)]
<1> DEFINE b == CHOOSE build : build = [v \in Forest(vs, Grouped) |-> BuildOne(v, build)]
<1>1. BuildChildren(vs) = [i \in DOMAIN vs |-> BuildOne(vs[i], b)]
  BY DEF BuildChildren
<1> QED BY <1>1

(* A pool that was accepted.                                               *)
LEMMA Created ==
  ASSUME NEW s \in Specs, ValidCounts(s.devices), Accepts(BuildVDevTree(s))
  PROVE  LET root == BuildVDevTree(s)
         IN  /\ root = [type |-> "root", children |-> root.children, spares |-> root.spares,
                        l2cache |-> root.l2cache]
             /\ root.children = BuildChildren(s.devices) /\ root.children # <<>>
             /\ DOMAIN root.children = DOMAIN s.devices
             /\ VdevsOK(root.children)
<1> DEFINE root == BuildVDevTree(s)
           nvs == BuildChildren(s.devices)
<1>1. s.devices # <<>>
  BY DEF BuildVDevTree, Accepts, Root
<1>2. /\ root = [type |-> "root", children |-> nvs, spares |-> root.spares, l2cache |-> <<>>]
      /\ root.children # <<>>
  BY <1>1 DEF BuildVDevTree, BuildVdevL2Cache, BuildVdevSpares, Root, Accepts
<1>3. /\ DOMAIN nvs = DOMAIN s.devices /\ IsList(nvs)
      /\ \A i \in DOMAIN nvs : \E build : nvs[i] = BuildOne(s.devices[i], build)
  <2>1. /\ DOMAIN nvs = DOMAIN s.devices /\ nvs = [i \in DOMAIN s.devices |-> nvs[i]]
        /\ \A i \in DOMAIN nvs : \E build : nvs[i] = BuildOne(s.devices[i], build)
    BY ChildrenBuilt
  <2>2. IsList(s.devices)
    BY SpecsAssumption DEF IsList
  <2> QED BY <2>1, <2>2, ListShape, ListIs
<1>4. \A i \in DOMAIN nvs : TopOK(nvs[i]) /\ Stays(nvs[i])
  <2> SUFFICES ASSUME NEW i \in DOMAIN nvs PROVE TopOK(nvs[i]) /\ Stays(nvs[i])
    OBVIOUS
  <2> DEFINE v == s.devices[i]
  <2>1. PICK build : nvs[i] = BuildOne(v, build)
    BY <1>3
  <2>2. nvs[i].type \in {"file", "disk", "mirror", "raidz"}
    BY <1>2 DEF Accepts
  <2>3. \A l \in LeavesAt(nvs[i]) :
          l.type # HoleName /\ l.path \notin {HoleName, IndirectName}
    <3>1. LeavesAt(nvs[i]) \subseteq Leaves(nvs)
      BY LeavesAre
    <3> QED BY <3>1, SpecsAssumption
  <2>4. v.parity \in Nat /\ IsList(v.devices)
    BY <1>3, SpecsAssumption DEF IsList
  <2>5. CASE IsGrouping(v)
    <3>1. nvs[i] = Group(v, [j \in DOMAIN v.devices |-> build[v.devices[j]]])
      BY <2>1, <2>5 DEF BuildOne
    <3>2. IsList(nvs[i].children)
      <4>1. nvs[i].children = [j \in DOMAIN v.devices |-> nvs[i].children[j]]
        BY <3>1 DEF Group
      <4> QED BY <4>1, <2>4, ListShape, ListIs
    <3>3. nvs[i].type = "raidz" => nvs[i].nparity \in Nat
      <4>1. nvs[i].type = v.type
        BY <3>1 DEF Group
      <4>2. v.type = "raidz" => nvs[i].nparity = (Parity(v) + 1) - 1
        BY <3>1 DEF Group, MinDevs
      <4>3. Parity(v) \in Nat
        BY <2>4, RaidzAssumption DEF Parity
      <4> QED BY <4>1, <4>2, <4>3
    <3>4. ~nvs[i].isLog /\ nvs[i].path = NoPath
      BY <3>1 DEF Group
    <3>5. nvs[i].type # HoleName
      BY <2>2 DEF HoleName
    <3> QED BY <2>3, <3>2, <3>3, <3>4, <3>5 DEF TopOK, Stays
  <2>6. CASE ~IsGrouping(v)
    <3>1. nvs[i] = BuildVdev(v)
      BY <2>1, <2>6 DEF BuildOne
    <3>2. nvs[i].type = v.type /\ nvs[i].children = <<>> /\ ~nvs[i].isLog
      <4>1. nvs[i].type = v.type /\ nvs[i].children = <<>>
        BY <3>1 DEF BuildVdev
      <4>2. v.type # "log"
        BY <2>6 DEF IsGrouping, GroupTypes
      <4>3. BuildVdev(v).isLog = FALSE
        BY <4>2 DEF BuildVdev
      <4> QED BY <3>1, <4>1, <4>3
    <3>3. v.type \notin Grouping
      BY <2>6 DEF IsGrouping, GroupTypes, Grouping
    <3>4. IsList(<<>>)
      BY DEF IsList
    <3> QED BY <2>2, <2>3, <3>2, <3>3, <3>4 DEF TopOK, Stays, HoleName, Grouping
  <2> QED BY <2>5, <2>6
<1>5. 1 \in DOMAIN nvs
  <2>1. s.devices \in Seq(ToSet(s.devices))
    BY SpecsAssumption
  <2> QED BY <1>1, <1>3, <2>1
<1>6. IsFiniteSet(Leaves(nvs))
  BY SpecsAssumption
<1>7. Apart(nvs)
  BY <1>4 DEF Apart, Stays
<1> QED BY <1>2, <1>3, <1>4, <1>5, <1>6, <1>7 DEF VdevsOK

LEMMA NewLeaf ==
  ASSUME NEW p, NEW log \in BOOLEAN
  PROVE  /\ NewNv(p, log).children = <<>> /\ NewNv(p, log).path = p
         /\ NewNv(p, log).type = "file" /\ NewNv(p, log).isLog = log
  BY DEF NewNv

LEMMA Names ==
  /\ HoleNv.children = <<>> /\ HoleNv.path = HoleName
  /\ HoleNv.type = HoleName /\ ~HoleNv.isLog
  /\ IsList(<<>>) /\ HoleName \in NoDevice /\ NoPath \in NoDevice /\ IndirectName \in NoDevice
  /\ HoleName \notin Grouping \cup {"file"}
  BY DEF HoleNv, IsList, NoDevice, HoleName, NoPath, IndirectName, Grouping

(* What is not a hole among the leaves is found under its path.            *)
LEMMA PathHere ==
  ASSUME NEW nvs, NEW l \in Leaves(nvs), l.type # HoleName
  PROVE  l.path \in LeavesOf(nvs)
  BY DEF LeavesOf

(* A device is added.                                                      *)
LEMMA Added ==
  ASSUME NEW nvs, VdevsOK(nvs), NEW log \in BOOLEAN, NEW p, p \notin NoDevice,
         p \notin LeavesOf(nvs)
  PROVE  LET m == Append(nvs, NewNv(p, log))
         IN  /\ VdevsOK(m) /\ LeavesOf(m) = LeavesOf(nvs) \cup {p}
             /\ \A i \in DOMAIN nvs : i \in DOMAIN m /\ m[i] = nvs[i]
<1> DEFINE x == NewNv(p, log)
           m == Append(nvs, x)
           n == Len(nvs)
<1>1. /\ IsList(m) /\ m[n + 1] = x /\ n + 1 \in DOMAIN m /\ n + 1 \notin DOMAIN nvs
      /\ \A i \in DOMAIN nvs : i \in DOMAIN m /\ m[i] = nvs[i]
      /\ \A i \in DOMAIN m : i \in DOMAIN nvs \/ i = n + 1
  <2>1. IsList(nvs)
    BY DEF VdevsOK
  <2>2. n \in Nat /\ DOMAIN nvs = 1..n
    BY <2>1, ListShape
  <2>3. IsList(m) /\ Len(m) = n + 1
    BY <2>1, ListAppend
  <2>4. DOMAIN m = 1..(n + 1)
    BY <2>3, ListShape
  <2> QED BY <2>1, <2>2, <2>3, <2>4, ListAppend
<1> HIDE DEF m, n
<1>2. x.children = <<>> /\ x.path = p /\ x.type = "file" /\ x.isLog = log /\ LeavesAt(x) = {x}
  BY NewLeaf, LeavesAre
<1> HIDE DEF x
<1>3. Leaves(m) = Leaves(nvs) \cup {x}
  <2>1. Leaves(m) = UNION {LeavesAt(m[i]) : i \in DOMAIN m}
    BY LeavesAre
  <2>2. Leaves(nvs) = UNION {LeavesAt(nvs[i]) : i \in DOMAIN nvs}
    BY LeavesAre
  <2> QED BY <1>1, <1>2, <2>1, <2>2
<1>4. \A i \in DOMAIN m : TopOK(m[i])
  <2>1. TopOK(x)
    BY <1>2, Names DEF TopOK, Grouping, NoDevice
  <2> QED BY <1>1, <2>1 DEF VdevsOK
<1>5. \E i \in DOMAIN m : Stays(m[i])
  BY <1>1 DEF VdevsOK
<1>6. IsFiniteSet(Leaves(m))
  BY <1>3, FS_AddElement DEF VdevsOK
<1>7. LeavesOf(m) = LeavesOf(nvs) \cup {p}
  BY <1>2, <1>3, Names DEF LeavesOf
<1>8. \A l \in Leaves(nvs) : l.path # p
  <2>1. ASSUME NEW l \in Leaves(nvs), l.type = HoleName PROVE l.path = HoleName
    BY <2>1, LeavesAre DEF VdevsOK, TopOK
  <2> QED BY <2>1, PathHere, Names
<1>9. \A i \in DOMAIN nvs : nvs[i].path # p /\ \A l \in LeavesAt(nvs[i]) : l.path # p
  <2> SUFFICES ASSUME NEW i \in DOMAIN nvs
               PROVE  nvs[i].path # p /\ \A l \in LeavesAt(nvs[i]) : l.path # p
    OBVIOUS
  <2>1. LeavesAt(nvs[i]) \subseteq Leaves(nvs)
    BY LeavesAre
  <2>2. CASE nvs[i].children = <<>>
    BY <1>8, <2>1, <2>2, LeavesAre
  <2>3. CASE nvs[i].children # <<>>
    BY <1>8, <2>1, <2>3, Names DEF VdevsOK, TopOK
  <2> QED BY <2>2, <2>3
<1>10. Apart(m)
  <2> SUFFICES ASSUME NEW i \in DOMAIN m, NEW j \in DOMAIN m, m[i].isLog, i # j
               PROVE  /\ m[j].path # m[i].path
                      /\ \A l \in LeavesAt(m[j]) : l.path # m[i].path
    BY DEF Apart
  <2>1. CASE i \in DOMAIN nvs /\ j \in DOMAIN nvs
    BY <1>1, <2>1 DEF VdevsOK, Apart
  <2>2. CASE i = n + 1
    BY <1>1, <1>2, <1>9, <2>2
  <2>3. CASE j = n + 1 /\ i \in DOMAIN nvs
    BY <1>1, <1>2, <1>9, <2>3
  <2> QED BY <1>1, <2>1, <2>2, <2>3
<1> QED BY <1>1, <1>4, <1>5, <1>6, <1>7, <1>10 DEF VdevsOK, m, x

(* A log is removed.                                                       *)
LEMMA Removed ==
  ASSUME NEW nvs, VdevsOK(nvs), NEW k \in DOMAIN nvs, nvs[k].isLog
  PROVE  LET p == nvs[k].path
             m == Trimmed([i \in DOMAIN nvs |-> IF nvs[i].path = p THEN HoleNv ELSE nvs[i]])
         IN  /\ VdevsOK(m) /\ LeavesOf(m) = LeavesOf(nvs) \ {p}
             /\ \A i \in DOMAIN nvs : nvs[i].type \in Grouping => i \in DOMAIN m /\ m[i] = nvs[i]
<1> DEFINE p == nvs[k].path
           h == [i \in DOMAIN nvs |-> IF nvs[i].path = p THEN HoleNv ELSE nvs[i]]
           m == Trimmed(h)
<1>1. /\ IsList(h) /\ DOMAIN h = DOMAIN nvs /\ h[k] = HoleNv
      /\ \A i \in DOMAIN nvs \ {k} : h[i] = nvs[i]
  <2>1. h[k] = HoleNv
    OBVIOUS
  <2>2. \A i \in DOMAIN nvs \ {k} : h[i] = nvs[i]
    BY DEF VdevsOK, Apart
  <2>3. IsList(h)
    <3>1. IsList(nvs)
      BY DEF VdevsOK
    <3>2. h = [i \in 1..Len(nvs) |-> h[i]] /\ Len(nvs) \in Nat
      BY <3>1, ListShape
    <3> QED BY <3>2, ListIs
  <2> QED BY <2>1, <2>2, <2>3
<1> HIDE DEF h
<1>2. /\ IsList(m) /\ DOMAIN m \subseteq DOMAIN nvs
      /\ \A i \in DOMAIN m : m[i] = h[i]
      /\ \A i \in DOMAIN nvs \ DOMAIN m : h[i].type = HoleName
  BY <1>1, TrimmedIs
<1> HIDE DEF m
<1>3. \A i \in DOMAIN m : m[i] = HoleNv \/ (i # k /\ m[i] = nvs[i])
  BY <1>1, <1>2
<1>4. \A i \in DOMAIN nvs : (i # k /\ nvs[i].type # HoleName) => i \in DOMAIN m /\ m[i] = nvs[i]
  BY <1>1, <1>2
<1>5. HoleNv.children = <<>> /\ HoleNv.path = HoleName /\ HoleNv.type = HoleName /\ ~HoleNv.isLog
  BY Names
<1>6. /\ nvs[k].children = <<>> /\ p \notin NoDevice /\ nvs[k].type \notin Grouping
      /\ nvs[k].type # HoleName /\ LeavesAt(nvs[k]) = {nvs[k]}
  BY LeavesAre DEF VdevsOK, TopOK
<1>7. \A i \in DOMAIN m : TopOK(m[i])
  <2>1. TopOK(HoleNv)
    <3>1. LeavesAt(HoleNv) = {HoleNv} /\ HoleNv.type # "raidz"
      BY <1>5, LeavesAre, Names DEF Grouping
    <3> QED BY <1>5, <3>1, Names DEF TopOK
  <2> QED BY <1>2, <1>3, <2>1 DEF VdevsOK
<1>8. \E i \in DOMAIN m : Stays(m[i])
  <2>1. PICK i \in DOMAIN nvs : Stays(nvs[i])
    BY DEF VdevsOK
  <2> QED BY <1>4, <2>1 DEF Stays
<1>9. Leaves(m) \subseteq Leaves(nvs) \cup {HoleNv}
  <2>1. \A i \in DOMAIN m : LeavesAt(m[i]) \subseteq Leaves(nvs) \cup {HoleNv}
    BY <1>2, <1>3, <1>5, LeavesAre
  <2>2. Leaves(m) = UNION {LeavesAt(m[i]) : i \in DOMAIN m}
    BY LeavesAre
  <2> QED BY <2>1, <2>2
<1>10. IsFiniteSet(Leaves(m))
  <2>1. IsFiniteSet(Leaves(nvs) \cup {HoleNv})
    BY FS_AddElement DEF VdevsOK
  <2> QED BY <1>9, <2>1, FS_Subset
<1>11. LeavesOf(m) = LeavesOf(nvs) \ {p}
  <2>1. ASSUME NEW q \in LeavesOf(m) PROVE q \in LeavesOf(nvs) /\ q # p
    <3>1. PICK l \in Leaves(m) : l.type # HoleName /\ l.path = q
      BY DEF LeavesOf
    <3>2. PICK i \in DOMAIN m : l \in LeavesAt(m[i])
      BY LeavesAre
    <3>3. i # k /\ m[i] = nvs[i] /\ i \in DOMAIN nvs
      BY <1>2, <1>3, <1>5, <3>1, <3>2, LeavesAre
    <3>4. l \in Leaves(nvs) /\ l.path # p
      BY <3>2, <3>3, LeavesAre DEF VdevsOK, Apart
    <3> QED BY <3>1, <3>4, PathHere
  <2>2. ASSUME NEW q \in LeavesOf(nvs), q # p PROVE q \in LeavesOf(m)
    <3>1. PICK l \in Leaves(nvs) : l.type # HoleName /\ l.path = q
      BY DEF LeavesOf
    <3>2. PICK i \in DOMAIN nvs : l \in LeavesAt(nvs[i])
      BY LeavesAre
    <3>3. i # k
      BY <1>6, <2>2, <3>1, <3>2
    <3>4. nvs[i].type # HoleName
      BY <3>1, <3>2, LeavesAre DEF VdevsOK, TopOK
    <3>5. l \in Leaves(m)
      BY <1>4, <3>2, <3>3, <3>4, LeavesAre
    <3> QED BY <3>1, <3>5, PathHere
  <2> QED BY <2>1, <2>2
<1>12. Apart(m)
  <2> SUFFICES ASSUME NEW i \in DOMAIN m, NEW j \in DOMAIN m, m[i].isLog, i # j
               PROVE  /\ m[j].path # m[i].path
                      /\ \A l \in LeavesAt(m[j]) : l.path # m[i].path
    BY DEF Apart
  <2>1. m[i] = nvs[i] /\ i \in DOMAIN nvs /\ j \in DOMAIN nvs
    BY <1>2, <1>3, <1>5
  <2>2. CASE m[j] = nvs[j]
    BY <2>1, <2>2 DEF VdevsOK, Apart
  <2>3. CASE m[j] = HoleNv
    <3>1. m[i].path \notin NoDevice /\ LeavesAt(m[j]) = {HoleNv}
      BY <1>5, <2>1, <2>3, LeavesAre DEF VdevsOK, TopOK
    <3> QED BY <1>5, <2>3, <3>1, Names
  <2> QED BY <1>3, <2>2, <2>3
<1>13. \A i \in DOMAIN nvs : nvs[i].type \in Grouping => i \in DOMAIN m /\ m[i] = nvs[i]
  BY <1>4, <1>6 DEF Grouping, HoleName
<1> QED BY <1>2, <1>7, <1>8, <1>10, <1>11, <1>12, <1>13 DEF VdevsOK, m, h

-----------------------------------------------------------------------------
(* The pool, the configuration that the handle holds, and the call.        *)
PoolOK ==
  /\ pool = [type |-> pool.type, children |-> pool.children, spares |-> pool.spares,
             l2cache |-> pool.l2cache]
  /\ IF Open THEN VdevsOK(pool.children) ELSE pool.children = <<>>
  /\ LeavesOf(pool.children) \subseteq DOMAIN state

CacheOK ==
  /\ ~stale => cached.root = pool
  /\ ~Open => call = NoCall /\ inited = NotRun

(* The devices that the call has been through.                             *)
Number == Len(call.args) - Len(call.left)
Passed == {call.args[i] : i \in 1..Number}

CallOK ==
  /\ call = [op |-> call.op, args |-> call.args, left |-> call.left, err |-> call.err]
  /\ IsList(call.args) /\ IsList(call.left) /\ Number \in Nat
  /\ \A i \in 1..Len(call.left) : call.left[i] = call.args[Number + i]

VInv == PoolOK /\ CacheOK /\ CallOK

LEMMA OpenLists ==
  ASSUME PoolOK
  PROVE  Open <=> pool.children # <<>>
<1>1. Root.children = <<>>
  BY DEF Root
<1>2. Open => pool.children # <<>>
  BY DEF PoolOK, VdevsOK
<1> QED BY <1>1, <1>2 DEF PoolOK, Open, NoPool

(* Between the creation of the pool and all that can happen to its vdevs.  *)
LEMMA CreatePool ==
  ASSUME VInv, NEW s \in Specs, PoolCreate(s)
  PROVE  PoolOK' /\ Open' /\ ~Open /\ pool'.children = BuildChildren(s.devices)
<1>1. pool' = BuildVDevTree(s) /\ ~Open
  BY DEF PoolCreate
<1>2. /\ pool' = [type |-> "root", children |-> pool'.children, spares |-> pool'.spares,
                  l2cache |-> pool'.l2cache]
      /\ pool'.children = BuildChildren(s.devices) /\ pool'.children # <<>>
      /\ VdevsOK(pool'.children)
  BY <1>1, Created DEF PoolCreate
<1>3. Open'
  BY <1>2 DEF Open, NoPool, Root
<1>4. LeavesOf(pool'.children) \subseteq DOMAIN state'
  BY DEF PoolCreate, Devices
<1>5. pool' = [type |-> pool'.type, children |-> pool'.children, spares |-> pool'.spares,
               l2cache |-> pool'.l2cache]
  BY <1>2
<1> QED BY <1>1, <1>2, <1>3, <1>4, <1>5 DEF PoolOK

LEMMA ChildrenChange ==
  ASSUME PoolOK, NEW nvs, pool' = [pool EXCEPT !.children = nvs], nvs # <<>>
  PROVE  /\ pool'.children = nvs /\ pool'.spares = pool.spares /\ Open'
         /\ pool' = [type |-> pool'.type, children |-> pool'.children, spares |-> pool'.spares,
                     l2cache |-> pool'.l2cache]
<1>1. pool' = [type |-> pool.type, children |-> nvs, spares |-> pool.spares,
               l2cache |-> pool.l2cache]
  BY DEF PoolOK
<1>2. pool'.children = nvs /\ pool'.spares = pool.spares
  BY <1>1
<1>3. pool' = [type |-> pool'.type, children |-> pool'.children, spares |-> pool'.spares,
               l2cache |-> pool'.l2cache]
  BY <1>1
<1>4. Open'
  BY <1>2 DEF Open, NoPool, Root
<1> QED BY <1>2, <1>3, <1>4

LEMMA AddPool ==
  ASSUME VInv, NEW p \in NewDevs, NEW log \in BOOLEAN, AddVdev(p, log)
  PROVE  /\ PoolOK' /\ Open' /\ Open
         /\ \A i \in DOMAIN pool.children :
              i \in DOMAIN pool'.children /\ pool'.children[i] = pool.children[i]
<1> DEFINE m == Append(pool.children, NewNv(p, log))
<1>1. Open /\ VdevsOK(pool.children) /\ p \notin LeavesOf(pool.children) /\ p \notin NoDevice
  BY NamesAssumption DEF VInv, PoolOK, AddVdev, Event, Devices
<1>2. /\ VdevsOK(m) /\ LeavesOf(m) = LeavesOf(pool.children) \cup {p}
      /\ \A i \in DOMAIN pool.children : i \in DOMAIN m /\ m[i] = pool.children[i]
  BY <1>1, Added
<1>3. m # <<>>
  BY <1>2 DEF VdevsOK
<1>4. pool' = [pool EXCEPT !.children = m]
  BY DEF AddVdev
<1> HIDE DEF m
<1>5. /\ pool'.children = m /\ Open'
      /\ pool' = [type |-> pool'.type, children |-> pool'.children, spares |-> pool'.spares,
                  l2cache |-> pool'.l2cache]
  BY <1>3, <1>4, ChildrenChange DEF VInv
<1>6. DOMAIN state' = DOMAIN state \cup {p}
  BY DEF AddVdev
<1> QED BY <1>1, <1>2, <1>5, <1>6 DEF PoolOK, VInv

LEMMA RemovePool ==
  ASSUME VInv, NEW p \in NewDevs, RemoveLog(p)
  PROVE  /\ PoolOK' /\ Open' /\ Open
         /\ \A i \in DOMAIN pool.children :
              pool.children[i].type \in Grouping =>
                i \in DOMAIN pool'.children /\ pool'.children[i] = pool.children[i]
<1> DEFINE nvs == pool.children
           m == Trimmed([i \in DOMAIN nvs |-> IF nvs[i].path = p THEN HoleNv ELSE nvs[i]])
<1>1. Open /\ VdevsOK(nvs)
  BY DEF VInv, PoolOK, RemoveLog, Event
<1>2. PICK k \in DOMAIN nvs : nvs[k].isLog /\ nvs[k].path = p
  BY DEF RemoveLog
<1>3. /\ VdevsOK(m) /\ LeavesOf(m) = LeavesOf(nvs) \ {p}
      /\ \A i \in DOMAIN nvs : nvs[i].type \in Grouping => i \in DOMAIN m /\ m[i] = nvs[i]
  BY <1>1, <1>2, Removed
<1>4. m # <<>>
  BY <1>3 DEF VdevsOK
<1>5. pool' = [pool EXCEPT !.children = m]
  BY DEF RemoveLog
<1> HIDE DEF m
<1>6. /\ pool'.children = m /\ Open'
      /\ pool' = [type |-> pool'.type, children |-> pool'.children, spares |-> pool'.spares,
                  l2cache |-> pool'.l2cache]
  BY <1>4, <1>5, ChildrenChange DEF VInv
<1>7. DOMAIN state' = DOMAIN state \ {p}
  BY DEF RemoveLog
<1> QED BY <1>1, <1>3, <1>6, <1>7 DEF PoolOK, VInv

(* What the other actions leave of the pool.                               *)
LEMMA SamePool ==
  ASSUME PoolOK, pool' = pool, DOMAIN state' = DOMAIN state
  PROVE  PoolOK'
  BY DEF PoolOK, Open

LEMMA DomainKept ==
  /\ VDevTree \/ RefreshStats => UNCHANGED <<pool, state>>
  /\ \A op, a : Begin(op, a) => UNCHANGED <<pool, state>>
  /\ \A a : Initialize(a) => UNCHANGED <<pool, state>>
  /\ \A p : InitializationDone(p) => UNCHANGED <<pool, state>>
  /\ \A p : DeviceRepaired(p) => UNCHANGED <<pool, state>>
  /\ OnlineDev \/ OfflineDev => pool' = pool /\ DOMAIN state' = DOMAIN state
  /\ \A ps : Clear(ps) => pool' = pool /\ DOMAIN state' = DOMAIN state
  /\ \A p : DeviceFails(p) => pool' = pool /\ DOMAIN state' = DOMAIN state
<1>1. VDevTree \/ RefreshStats => UNCHANGED <<pool, state>>
  BY DEF VDevTree, RefreshStats
<1>2. ASSUME NEW op, NEW a, Begin(op, a) PROVE UNCHANGED <<pool, state>>
  BY <1>2 DEF Begin
<1>3. ASSUME NEW a, Initialize(a) PROVE UNCHANGED <<pool, state>>
  BY <1>3 DEF Initialize
<1>4. ASSUME NEW p, DeviceRepaired(p) \/ InitializationDone(p) PROVE UNCHANGED <<pool, state>>
  BY <1>4 DEF DeviceRepaired, InitializationDone
<1>5. ASSUME OnlineDev \/ OfflineDev PROVE pool' = pool /\ DOMAIN state' = DOMAIN state
  BY <1>5 DEF OnlineDev, OfflineDev, DevVars
<1>6. ASSUME NEW ps, Clear(ps) PROVE pool' = pool /\ DOMAIN state' = DOMAIN state
  BY <1>6 DEF Clear, DevVars
<1>7. ASSUME NEW p, DeviceFails(p) PROVE pool' = pool /\ DOMAIN state' = DOMAIN state
  BY <1>7 DEF DeviceFails
<1> QED BY <1>1, <1>2, <1>3, <1>4, <1>5, <1>6, <1>7

LEMMA NextPoolOK == VInv /\ [Next]_vars => PoolOK' /\ (Open => Open')
<1> SUFFICES ASSUME VInv, [Next]_vars PROVE PoolOK' /\ (Open => Open')
  OBVIOUS
<1>1. ASSUME pool' = pool, DOMAIN state' = DOMAIN state PROVE PoolOK' /\ (Open => Open')
  BY <1>1, SamePool DEF VInv, Open
<1>2. CASE \E s \in Specs : PoolCreate(s)
  BY <1>2, CreatePool
<1>3. CASE \E p \in NewDevs : RemoveLog(p) \/ \E log \in BOOLEAN : AddVdev(p, log)
  BY <1>3, AddPool, RemovePool
<1>4. CASE \/ VDevTree \/ RefreshStats \/ OnlineDev \/ OfflineDev
           \/ \E op \in {"online", "offline"}, a \in Args : Begin(op, a)
           \/ Clear(DOMAIN state)
           \/ \E p \in DOMAIN state : Clear({p})
           \/ \E a \in {"start", "suspend", "cancel"} : Initialize(a)
           \/ \E p \in Frail : DeviceFails(p) \/ DeviceRepaired(p)
           \/ \E p \in DOMAIN initing : InitializationDone(p)
  BY <1>1, <1>4, DomainKept
<1>5. CASE UNCHANGED vars
  BY <1>1, <1>5 DEF vars
<1> QED BY <1>2, <1>3, <1>4, <1>5 DEF Next, Client, Environment

LEMMA InitVInv == Init => VInv
<1> SUFFICES ASSUME Init PROVE VInv
  OBVIOUS
<1>1. pool = Root /\ ~Open /\ pool.children = <<>>
  BY DEF Init, NoPool, Open, Root
<1>2. Leaves(<<>>) = {}
  BY LeavesAre
<1>3. PoolOK
  <2>1. LeavesOf(pool.children) = {}
    BY <1>1, <1>2 DEF LeavesOf
  <2> QED BY <1>1, <2>1 DEF PoolOK, Root
<1>4. CacheOK
  BY <1>1 DEF Init, CacheOK, NoPool
<1>5. CallOK
  <2>1. call = [op |-> "none", args |-> <<>>, left |-> <<>>, err |-> "nil"] /\ IsList(<<>>)
    BY Names DEF Init, NoCall
  <2> QED BY <2>1 DEF CallOK, Number
<1> QED BY <1>3, <1>4, <1>5 DEF VInv

(* What happens to the handle: a step that is no PoolCreate finds the pool *)
(* open, and makes the handle stale or leaves it at what it was.           *)
LEMMA HandleStep ==
  ASSUME VInv, [Next]_vars
  PROVE  \/ \E s \in Specs : PoolCreate(s)
         \/ UNCHANGED vars
         \/ /\ Open
            /\ \/ stale' = TRUE
               \/ UNCHANGED <<pool, cached, stale>>
               \/ cached'.root = pool'
<1>1. ~Open => Idle
  BY DEF VInv, CacheOK, NoCall, Idle
<1>2. CASE VDevTree \/ RefreshStats
  BY <1>2 DEF VDevTree, RefreshStats
<1>3. CASE OnlineDev \/ OfflineDev
  BY <1>1, <1>3 DEF OnlineDev, OfflineDev, DevVars, Changes
<1>4. CASE \E op \in {"online", "offline"}, a \in Args : Begin(op, a)
  BY <1>4 DEF Begin
<1>5. ASSUME NEW ps, Clear(ps) PROVE Open /\ stale' = TRUE
  BY <1>5 DEF Clear, Changes
<1>6. ASSUME NEW a, Initialize(a) PROVE Open /\ UNCHANGED <<pool, cached, stale>>
  BY <1>6 DEF Initialize
<1>7. CASE Environment
  <2>1. Event
    BY <1>7 DEF Environment, DeviceFails, DeviceRepaired, RemoveLog, AddVdev
  <2> QED BY <2>1 DEF Event, Changes
<1>8. ASSUME NEW p, InitializationDone(p) PROVE Open /\ UNCHANGED <<pool, cached, stale>>
  BY <1>8 DEF InitializationDone
<1> QED BY <1>2, <1>3, <1>4, <1>5, <1>6, <1>7, <1>8 DEF Next, Client

LEMMA NextCacheOK == VInv /\ [Next]_vars => CacheOK'
<1> SUFFICES ASSUME VInv, [Next]_vars PROVE CacheOK'
  OBVIOUS
<1>1. CASE \E s \in Specs : PoolCreate(s)
  <2>1. Open' /\ cached'.root = pool'
    BY <1>1, CreatePool DEF PoolCreate
  <2> QED BY <2>1 DEF CacheOK
<1>2. CASE UNCHANGED vars
  BY <1>2 DEF vars, VInv, CacheOK, Open
<1>3. CASE Open /\ (stale' = TRUE \/ UNCHANGED <<pool, cached, stale>> \/ cached'.root = pool')
  <2>1. Open'
    BY <1>3, NextPoolOK
  <2> QED BY <1>3, <2>1 DEF VInv, CacheOK
<1> QED BY <1>1, <1>2, <1>3, HandleStep

-----------------------------------------------------------------------------
(* The call.                                                               *)
LEMMA CallBegins ==
  ASSUME NEW op, NEW a \in Args, Begin(op, a)
  PROVE  CallOK' /\ call'.op = op /\ call'.err = "nil" /\ Passed' = {} /\ UNCHANGED <<pool, state, bad>>
<1>1. call' = [op |-> op, args |-> a, left |-> a, err |-> "nil"] /\ IsList(a)
  BY NamesAssumption DEF Begin, IsList
<1>2. Len(a) \in Nat /\ Len(a) - Len(a) = 0 /\ \A i \in 1..Len(a) : 0 + i = i
  BY <1>1, ListShape
<1>3. call'.left = a /\ call'.args = a /\ Number' = 0
  BY <1>1, <1>2 DEF Number
<1>4. Passed' = {}
  BY <1>3 DEF Passed
<1>5. CallOK'
  BY <1>1, <1>2, <1>3 DEF CallOK
<1> QED BY <1>1, <1>4, <1>5 DEF Begin

LEMMA CallMoves ==
  ASSUME CallOK, ~Idle, NEW err, Next1(err)
  PROVE  /\ CallOK' /\ call'.op = call.op /\ call'.err = err
         /\ Passed' = Passed \cup {Dev}
<1> DEFINE n == Len(call.left)
           r == Tail(call.left)
<1>1. call' = [op |-> call.op, args |-> call.args, left |-> r, err |-> err]
  BY DEF CallOK, Next1
<1>2. n \in Nat /\ n # 0 /\ Number \in Nat /\ Len(call.args) \in Nat /\ Dev = call.left[1]
  <2>1. call.left \in Seq(ToSet(call.left)) /\ call.left # <<>>
    BY DEF CallOK, IsList, Idle
  <2>2. ASSUME NEW S, NEW u \in Seq(S), u # <<>>
        PROVE  Len(u) \in Nat /\ Len(u) # 0 /\ Head(u) = u[1]
    BY <2>2
  <2>3. n \in Nat /\ n # 0 /\ Dev = call.left[1]
    BY <2>1, <2>2 DEF Dev
  <2>4. Number \in Nat /\ Len(call.args) \in Nat
    BY ListShape DEF CallOK
  <2> QED BY <2>3, <2>4
<1>3. r = [i \in 1..(n - 1) |-> r[i]] /\ \A i \in 1..(n - 1) : r[i] = call.left[i + 1]
  <2>1. call.left \in Seq(ToSet(call.left)) /\ call.left # <<>>
    BY DEF CallOK, IsList, Idle
  <2>2. r \in Seq(ToSet(call.left)) /\ Len(r) = n - 1 /\ \A i \in 1..Len(r) : r[i] = call.left[i + 1]
    BY <2>1, HeadTailProperties
  <2>3. ASSUME NEW S, NEW u \in Seq(S) PROVE u = [i \in 1..Len(u) |-> u[i]]
    OBVIOUS
  <2> HIDE DEF r
  <2> QED BY <2>2, <2>3
<1>4. IsList(r) /\ Len(r) = n - 1
  <2>1. n - 1 \in Nat
    BY <1>2
  <2> QED BY <1>3, <2>1, ListIs
<1> HIDE DEF r
<1>5. Number' = Number + 1
  <2>1. call'.args = call.args /\ call'.left = r
    BY <1>1
  <2> HIDE DEF n
  <2>2. Number' = Len(call.args) - (n - 1) /\ Number = Len(call.args) - n
    BY <1>4, <2>1 DEF Number, n
  <2> QED BY <1>2, <2>2
<1>6. \A i \in 1..(n - 1) : r[i] = call.args[(Number + 1) + i]
  <2>1. \A i \in 1..(n - 1) : i + 1 \in 1..n /\ Number + (i + 1) = (Number + 1) + i
    BY <1>2
  <2> QED BY <1>3, <2>1 DEF CallOK
<1>7. CallOK'
  <2>1. Number' \in Nat
    BY <1>2, <1>5
  <2>2. call'.left = r /\ call'.args = call.args
    BY <1>1
  <2> QED BY <1>1, <1>4, <1>5, <1>6, <2>1, <2>2 DEF CallOK
<1>8. Dev = call.args[Number + 1]
  <2>1. 1 \in 1..n
    BY <1>2
  <2> QED BY <1>2, <2>1 DEF CallOK
<1>9. 1..(Number + 1) = 1..Number \cup {Number + 1}
  BY <1>2
<1>10. call'.args = call.args
  BY <1>1
<1>11. Passed' = Passed \cup {Dev}
  BY <1>5, <1>8, <1>9, <1>10 DEF Passed
<1> QED BY <1>1, <1>7, <1>11

LEMMA NoCallOK == call' = NoCall => CallOK' /\ call'.op = "none"
<1>1. IsList(<<>>) /\ Len(<<>>) = 0
  BY Names
<1> QED BY <1>1 DEF CallOK, NoCall, Number

(* What happens to the call.                                               *)
LEMMA CallStep ==
  ASSUME VInv, [Next]_vars
  PROVE  \/ call' = NoCall
         \/ calm' = FALSE /\ call' = call
         \/ \E op \in {"online", "offline"}, a \in Args : Begin(op, a)
         \/ OnlineDev
         \/ OfflineDev
         \/ UNCHANGED <<pool, state, bad, call, calm>>
<1>1. ASSUME NEW s, PoolCreate(s) PROVE call' = NoCall
  BY <1>1 DEF PoolCreate, VInv, CacheOK
<1>2. CASE VDevTree \/ RefreshStats
  BY <1>2 DEF VDevTree, RefreshStats
<1>3. ASSUME NEW ps, Clear(ps) PROVE call' = NoCall
  BY <1>3 DEF Clear
<1>4. ASSUME NEW a, Initialize(a) PROVE call' = NoCall
  BY <1>4 DEF Initialize
<1>5. CASE Environment
  <2>1. Event
    BY <1>5 DEF Environment, DeviceFails, DeviceRepaired, RemoveLog, AddVdev
  <2> QED BY <2>1 DEF Event
<1>6. ASSUME NEW p, InitializationDone(p) PROVE UNCHANGED <<pool, state, bad, call, calm>>
  BY <1>6 DEF InitializationDone
<1>7. CASE UNCHANGED vars
  BY <1>7 DEF vars
<1> QED BY <1>1, <1>2, <1>3, <1>4, <1>5, <1>6, <1>7 DEF Next, Client

LEMMA NextCallOK == VInv /\ [Next]_vars => CallOK'
<1> SUFFICES ASSUME VInv, [Next]_vars PROVE CallOK'
  OBVIOUS
<1>1. ASSUME call' = call PROVE CallOK'
  BY <1>1 DEF VInv, CallOK, Number
<1>2. CASE OnlineDev
  <2>1. ~Idle /\ \E err : Next1(err)
    BY <1>2 DEF OnlineDev
  <2> QED BY <2>1, CallMoves DEF VInv
<1>3. CASE OfflineDev
  <2>1. ~Idle /\ \E err : Next1(err)
    BY <1>3 DEF OfflineDev
  <2> QED BY <2>1, CallMoves DEF VInv
<1>4. CASE UNCHANGED <<pool, state, bad, call, calm>>
  BY <1>1, <1>4
<1> QED BY <1>1, <1>2, <1>3, <1>4, CallStep, CallBegins, NoCallOK

(* The pool keeps its shape, a handle that is not stale holds the pool,    *)
(* and a call goes through its devices in their order.                     *)
THEOREM VdevsInductive == Spec => []VInv
<1>1. VInv /\ [Next]_vars => VInv'
  BY NextPoolOK, NextCacheOK, NextCallOK DEF VInv
<1> QED BY <1>1, InitVInv, PTL DEF Spec

-----------------------------------------------------------------------------
(* Online: the devices that the call has been through run unless they are  *)
(* bad, and there is no error if and only if they all are in the pool and  *)
(* good.                                                                   *)
Onlined ==
  (calm /\ call.op = "online") =>
    /\ \A p \in Passed : InPool(p) => (Running(p) <=> p \notin bad)
    /\ call.err = "nil" <=> \A p \in Passed : InPool(p) /\ p \notin bad

LEMMA OnlineMoves ==
  ASSUME VInv, Onlined, OnlineDev
  PROVE  Onlined'
<1> SUFFICES ASSUME calm
             PROVE  /\ \A p \in Passed' : InPool(p) => (Running(p)' <=> p \notin bad)
                    /\ call'.err = "nil" <=> \A p \in Passed' : InPool(p) /\ p \notin bad
  BY DEF Onlined, OnlineDev, DevVars, InPool
<1> DEFINE new == IF Dev \in bad THEN "faulted" ELSE "online"
<1>1. /\ \A p \in Passed : InPool(p) => (Running(p) <=> p \notin bad)
      /\ call.err = "nil" <=> \A p \in Passed : InPool(p) /\ p \notin bad
  BY DEF Onlined, OnlineDev
<1>2. CASE InPool(Dev)
  <2>1. Next1(Found(new)) /\ state' = [state EXCEPT ![Dev] = new] /\ ~Idle
    BY <1>2 DEF OnlineDev
  <2>2. Passed' = Passed \cup {Dev} /\ call'.err = Found(new)
    BY <2>1, CallMoves DEF VInv
  <2>3. \A p \in DOMAIN state : state'[p] = IF p = Dev THEN new ELSE state[p]
    BY <2>1
  <2>4. \A p : InPool(p) => p \in DOMAIN state
    BY DEF VInv, PoolOK, InPool
  <2>5. Found(new) = "nil" <=> Dev \notin bad /\ call.err = "nil"
    BY DEF Found
  <2> QED BY <1>1, <1>2, <2>2, <2>3, <2>4, <2>5 DEF Running
<1>3. CASE ~InPool(Dev)
  <2>1. Next1(Found("unknown")) /\ state' = state /\ ~Idle
    BY <1>3 DEF OnlineDev
  <2>2. Passed' = Passed \cup {Dev} /\ call'.err = "last"
    BY <2>1, CallMoves DEF VInv, Found
  <2> QED BY <1>1, <1>3, <2>1, <2>2 DEF Running
<1> QED BY <1>2, <1>3

LEMMA NextOnlined == VInv /\ Onlined /\ [Next]_vars => Onlined'
<1> SUFFICES ASSUME VInv, Onlined, [Next]_vars PROVE Onlined'
  OBVIOUS
<1>1. CASE call' = NoCall \/ calm' = FALSE
  BY <1>1 DEF Onlined, NoCall
<1>2. CASE \E op \in {"online", "offline"}, a \in Args : Begin(op, a)
  <2>1. call'.err = "nil" /\ Passed' = {}
    BY <1>2, CallBegins
  <2> QED BY <2>1 DEF Onlined
<1>3. CASE OnlineDev
  BY <1>3, OnlineMoves
<1>4. CASE OfflineDev
  <2>1. call'.op = "offline"
    <3>1. call.op = "offline" /\ ~Idle /\ \E err : Next1(err)
      BY <1>4 DEF OfflineDev
    <3> QED BY <3>1, CallMoves DEF VInv
  <2> QED BY <2>1 DEF Onlined
<1>5. CASE UNCHANGED <<pool, state, bad, call, calm>>
  BY <1>5 DEF Onlined, Passed, Number, InPool, Running
<1> QED BY <1>1, <1>2, <1>3, <1>4, <1>5, CallStep

(* A call that has returned has been through all of its devices.           *)
LEMMA PassedAll ==
  ASSUME CallOK, Idle
  PROVE  Passed = ArgSet
<1>1. Len(call.left) = 0
  BY DEF Idle
<1>2. Len(call.args) \in Nat /\ DOMAIN call.args = 1..Len(call.args)
  BY ListShape DEF CallOK
<1>3. Number = Len(call.args)
  BY <1>1, <1>2 DEF Number
<1> QED BY <1>2, <1>3 DEF Passed, ArgSet

(* Pool.Online (zpool_vdev.go:16) returns nil exactly if every device of   *)
(* the list is in the pool and runs, for every list and every pool.        *)
THEOREM OnlineTold == Spec => []OnlineReports
<1>1. Init => Onlined
  BY DEF Init, NoCall, Onlined
<1>2. VInv /\ Onlined => OnlineReports
  <2> SUFFICES ASSUME VInv, Onlined, Returned("online") PROVE OnlineReports
    BY DEF OnlineReports
  <2>1. Passed = ArgSet
    BY PassedAll DEF VInv, Returned
  <2> QED BY <2>1 DEF Onlined, Returned, OnlineReports
<1> QED BY <1>1, <1>2, NextOnlined, VdevsInductive, PTL DEF Spec

-----------------------------------------------------------------------------
(* Offline: the devices that the call has been through are offline, or     *)
(* cannot be.  What another device offline takes away is redundancy, so    *)
(* that a device that could not be taken offline still cannot.             *)
Offlined ==
  (calm /\ call.op = "offline") =>
    \A p \in Passed : InPool(p) => (state[p] = "offline" \/ ~CanOffline(p))

LEMMA LessRedundant ==
  ASSUME PoolOK, Open, pool' = pool, NEW p,
         \A c \in LeavesOf(pool.children) : Running(c)' => Running(c),
         Running(p) => Running(p)',
         CanOffline(p)'
  PROVE  CanOffline(p)
<1>1. PICK i \in DOMAIN pool.children :
        /\ p \in LeavesOf(<<pool.children[i]>>)
        /\ Redundant(pool.children[i], p)' \/ ~Running(p)'
  BY DEF CanOffline
<1> DEFINE nv == pool.children[i]
           here == LeavesOf(<<nv>>)
           others == {c \in here \ {p} : Running(c)}
           fewer == {c \in here \ {p} : Running(c)'}
<1>2. Leaves(<<nv>>) = LeavesAt(nv) /\ LeavesAt(nv) \subseteq Leaves(pool.children)
  <2>1. Leaves(<<nv>>) = UNION {LeavesAt(<<nv>>[j]) : j \in DOMAIN <<nv>>}
    BY LeavesAre
  <2>2. DOMAIN <<nv>> = {1} /\ <<nv>>[1] = nv
    OBVIOUS
  <2>3. LeavesAt(nv) \subseteq Leaves(pool.children)
    BY LeavesAre
  <2> QED BY <2>1, <2>2, <2>3
<1>3. here \subseteq LeavesOf(pool.children)
  BY <1>2 DEF LeavesOf
<1>4. fewer \subseteq others
  BY <1>3
<1>5. IsFiniteSet(others)
  <2>1. IsFiniteSet({l \in Leaves(<<nv>>) : l.type # HoleName})
    BY <1>2, FS_Subset DEF PoolOK, VdevsOK
  <2>2. IsFiniteSet(here)
    <3> DEFINE S == {l \in Leaves(<<nv>>) : l.type # HoleName}
               f == [l \in S |-> l.path]
    <3>1. here = {l.path : l \in S}
      BY DEF LeavesOf
    <3>2. f \in Surjection(S, here)
      BY <3>1 DEF Surjection
    <3> HIDE DEF f, S
    <3> QED BY <2>1, <3>2, FS_Surjection DEF S
  <2> QED BY <2>2, FS_Subset
<1>6. Cardinality(fewer) <= Cardinality(others) /\ Cardinality(fewer) \in Nat /\ Cardinality(others) \in Nat
  BY <1>4, <1>5, FS_Subset, FS_CardinalityType
<1>7. ASSUME Redundant(nv, p)' PROVE Redundant(nv, p)
  <2>1. CASE nv.type = "mirror"
    BY <1>4, <1>7, <2>1 DEF Redundant
  <2>2. CASE nv.type # "mirror"
    <3>1. nv.type = "raidz" /\ Cardinality(fewer) >= Len(nv.children) - nv.nparity
      BY <1>7, <2>2 DEF Redundant
    <3>2. nv.nparity \in Nat /\ Len(nv.children) \in Nat
      BY <3>1, ListShape DEF PoolOK, VdevsOK, TopOK
    <3>3. Cardinality(others) >= Len(nv.children) - nv.nparity
      BY <1>6, <3>1, <3>2
    <3> QED BY <3>1, <3>3 DEF Redundant
  <2> QED BY <2>1, <2>2
<1> QED BY <1>1, <1>7 DEF CanOffline

LEMMA OfflineMoves ==
  ASSUME VInv, Offlined, OfflineDev
  PROVE  Offlined'
<1> SUFFICES ASSUME calm
             PROVE  \A p \in Passed' : InPool(p) => (state'[p] = "offline" \/ ~CanOffline(p)')
  BY DEF Offlined, OfflineDev, DevVars, InPool
<1>1. pool' = pool /\ ~Idle /\ \A p \in Passed : InPool(p) => (state[p] = "offline" \/ ~CanOffline(p))
  BY DEF Offlined, OfflineDev, DevVars
<1>2. Open
  BY <1>1 DEF VInv, CacheOK, NoCall, Idle
<1>3. CASE InPool(Dev) /\ CanOffline(Dev)
  <2>1. state' = [state EXCEPT ![Dev] = "offline"] /\ Passed' = Passed \cup {Dev}
    BY <1>1, <1>3, CallMoves DEF VInv, OfflineDev
  <2>2. \A p \in LeavesOf(pool.children) : state'[p] = IF p = Dev THEN "offline" ELSE state[p]
    BY <2>1 DEF VInv, PoolOK
  <2>3. \A c \in LeavesOf(pool.children) : Running(c)' => Running(c)
    BY <2>2 DEF Running
  <2>4. ASSUME NEW p, InPool(p), p # Dev, CanOffline(p)' PROVE CanOffline(p)
    <3>1. Running(p) => Running(p)'
      BY <2>2, <2>4 DEF Running, InPool
    <3> QED BY <1>1, <1>2, <2>3, <2>4, <3>1, LessRedundant DEF VInv
  <2> QED BY <1>1, <2>1, <2>2, <2>4 DEF InPool
<1>4. CASE ~(InPool(Dev) /\ CanOffline(Dev))
  <2>1. state' = state /\ Passed' = Passed \cup {Dev}
    BY <1>1, <1>4, CallMoves DEF VInv, OfflineDev
  <2>2. ASSUME NEW p, CanOffline(p)' PROVE CanOffline(p)
    BY <1>1, <1>2, <2>1, <2>2, LessRedundant DEF VInv, Running
  <2> QED BY <1>1, <1>4, <2>1, <2>2
<1> QED BY <1>3, <1>4

LEMMA NextOfflined == VInv /\ Offlined /\ [Next]_vars => Offlined'
<1> SUFFICES ASSUME VInv, Offlined, [Next]_vars PROVE Offlined'
  OBVIOUS
<1>1. CASE call' = NoCall \/ calm' = FALSE
  BY <1>1 DEF Offlined, NoCall
<1>2. CASE \E op \in {"online", "offline"}, a \in Args : Begin(op, a)
  BY <1>2, CallBegins DEF Offlined
<1>3. CASE OfflineDev
  BY <1>3, OfflineMoves
<1>4. CASE OnlineDev
  <2>1. call'.op = "online"
    <3>1. call.op = "online" /\ ~Idle /\ \E err : Next1(err)
      BY <1>4 DEF OnlineDev
    <3> QED BY <3>1, CallMoves DEF VInv
  <2> QED BY <2>1 DEF Offlined
<1>5. CASE UNCHANGED <<pool, state, bad, call, calm>>
  <2>1. \A p : CanOffline(p)' <=> CanOffline(p)
    BY <1>5 DEF CanOffline, Redundant, Running
  <2>2. Passed' = Passed
    BY <1>5 DEF Passed, Number
  <2> QED BY <1>5, <2>1, <2>2 DEF Offlined, InPool
<1> QED BY <1>1, <1>2, <1>3, <1>4, <1>5, CallStep

(* Pool.Offline (zpool_vdev.go:38) goes on after a device that is refused: *)
(* when it returns, each device of the list is offline or cannot be.       *)
THEOREM OfflineTried == Spec => []OfflineTriesAll
<1>1. Init => Offlined
  BY DEF Init, NoCall, Offlined
<1>2. VInv /\ Offlined => OfflineTriesAll
  <2> SUFFICES ASSUME VInv, Offlined, Returned("offline") PROVE OfflineTriesAll
    BY DEF OfflineTriesAll
  <2>1. Passed = ArgSet
    BY PassedAll DEF VInv, Returned
  <2> QED BY <2>1 DEF Offlined, Returned, OfflineTriesAll
<1> QED BY <1>1, <1>2, NextOfflined, VdevsInductive, PTL DEF Spec

-----------------------------------------------------------------------------
(* Initialize: what collect_zpool_leaves lists is every device of the      *)
(* pool, and the name of a hole if there is one.                           *)
LEMMA Collected ==
  ASSUME NEW nvs, VdevsOK(nvs)
  PROVE  /\ LeavesOf(nvs) \subseteq CollectLeaves(nvs)
         /\ CollectLeaves(nvs) \subseteq LeavesOf(nvs)
              <=> ~\E i \in DOMAIN nvs : nvs[i].type = HoleName
<1>1. \A l \in Leaves(nvs) : Name(l) = l.path
  BY LeavesAre DEF Name
<1>2. HoleName # IndirectName
  BY DEF HoleName, IndirectName
<1>3. \A l \in Leaves(nvs) :
        IF l.type = HoleName THEN \E i \in DOMAIN nvs : l = nvs[i] /\ l.path = HoleName
                             ELSE l.path \notin {HoleName, IndirectName}
  BY LeavesAre DEF VdevsOK, TopOK
<1>4. LeavesOf(nvs) \subseteq CollectLeaves(nvs)
  BY <1>1, <1>3 DEF LeavesOf, CollectLeaves
<1>5. ASSUME NEW i \in DOMAIN nvs, nvs[i].type = HoleName
      PROVE  HoleName \in CollectLeaves(nvs) \ LeavesOf(nvs)
  <2>1. nvs[i] \in Leaves(nvs) /\ nvs[i].path = HoleName
    BY <1>5, LeavesAre DEF VdevsOK, TopOK
  <2>2. HoleName \in CollectLeaves(nvs)
    BY <1>1, <1>2, <2>1 DEF CollectLeaves
  <2>3. HoleName \notin LeavesOf(nvs)
    BY <1>3 DEF LeavesOf
  <2> QED BY <2>2, <2>3
<1>6. ASSUME ~\E i \in DOMAIN nvs : nvs[i].type = HoleName
      PROVE  CollectLeaves(nvs) \subseteq LeavesOf(nvs)
  <2>1. \A l \in Leaves(nvs) : l.type # HoleName
    BY <1>3, <1>6
  <2> QED BY <1>1, <2>1 DEF LeavesOf, CollectLeaves
<1> QED BY <1>4, <1>5, <1>6

LEMMA Initializes ==
  ASSUME VInv, NEW action \in {"start", "suspend", "cancel"}, Initialize(action)
  PROVE  InitializeReports'
<1> DEFINE vds == CollectLeaves(pool.children)
           leaves == LeavesOf(pool.children)
           known == vds \subseteq leaves
           willing == \A p \in leaves : ~Refuses(action, p)
<1> SUFFICES ASSUME ~stale' PROVE InitializeReports'
  BY DEF InitializeReports
<1>1. VdevsOK(pool.children) /\ cached.root = pool /\ UNCHANGED <<pool, state>>
      /\ leaves \subseteq DOMAIN state
  BY DEF VInv, PoolOK, CacheOK, Initialize
<1>2. leaves \subseteq vds /\ (known <=> ~HasHole') /\ leaves' = leaves
  BY <1>1, Collected DEF HasHole
<1>3. /\ initing' = [p \in DOMAIN state |->
                      IF known /\ p \in vds /\ ~Refuses(action, p) THEN Aim(action) ELSE initing[p]]
      /\ inited' = [action |-> action,
                    err |-> IF known /\ \A p \in vds : ~Refuses(action, p) THEN "nil" ELSE "failed",
                    willing |-> willing]
  BY <1>1 DEF Initialize
<1> HIDE DEF vds, leaves
<1>4. /\ inited'.action = action /\ inited'.willing = willing
      /\ inited'.err = "nil" <=> known /\ \A p \in vds : ~Refuses(action, p)
  BY <1>3
<1>5. inited'.err = "nil" <=> ~HasHole' /\ inited'.willing
  BY <1>2, <1>4
<1>6. ASSUME ~HasHole', NEW p \in leaves
      PROVE  /\ Running(p)' => Reached(action, initing'[p])
             /\ inited'.err = "nil" => initing'[p] = Aim(action)
  <2>1. initing'[p] = IF ~Refuses(action, p) THEN Aim(action) ELSE initing[p]
    BY <1>1, <1>2, <1>3, <1>6
  <2>2. Running(p)' <=> Running(p)
    BY <1>1 DEF Running
  <2>3. inited'.err = "nil" => ~Refuses(action, p)
    BY <1>2, <1>4
  <2> QED BY <2>1, <2>2, <2>3 DEF Refuses, Reached, Aim
<1> QED BY <1>2, <1>4, <1>5, <1>6 DEF InitializeReports, leaves

LEMMA NextInitialized == VInv /\ InitializeReports /\ [Next]_vars => InitializeReports'
<1> SUFFICES ASSUME VInv, InitializeReports, [Next]_vars PROVE InitializeReports'
  OBVIOUS
<1>1. CASE inited' = NotRun
  BY <1>1 DEF InitializeReports
<1>2. CASE UNCHANGED <<pool, state, initing, inited, stale>>
  BY <1>2 DEF InitializeReports, HasHole, Running
<1>3. ASSUME NEW s, PoolCreate(s) PROVE inited' = NotRun
  BY <1>3 DEF PoolCreate, VInv, CacheOK
<1>4. CASE VDevTree \/ RefreshStats
  BY <1>1, <1>4 DEF VDevTree, RefreshStats
<1>5. CASE \E op \in {"online", "offline"}, a \in Args : Begin(op, a)
  BY <1>1, <1>5 DEF Begin
<1>6. CASE OnlineDev \/ OfflineDev
  BY <1>1, <1>2, <1>6 DEF OnlineDev, OfflineDev, DevVars, Changes
<1>7. ASSUME NEW ps, Clear(ps) PROVE inited' = NotRun
  BY <1>7 DEF Clear, Changes
<1>8. CASE Environment
  <2>1. Event
    BY <1>8 DEF Environment, DeviceFails, DeviceRepaired, RemoveLog, AddVdev
  <2> QED BY <1>1, <2>1 DEF Event, Changes
<1>9. CASE UNCHANGED vars
  BY <1>2, <1>9 DEF vars
<1>10. ASSUME NEW p, InitializationDone(p) PROVE inited' = NotRun
  BY <1>10 DEF InitializationDone
<1> QED BY <1>1, <1>3, <1>4, <1>5, <1>6, <1>7, <1>8, <1>9, <1>10, Initializes DEF Next, Client

(* Pool.Initialize (zpool.go:1071) on a refreshed handle fails exactly if  *)
(* the pool has a hole or one of its devices refuses; without a hole each  *)
(* device that can be written to is then in the state asked for.           *)
THEOREM InitializeTold == Spec => []InitializeReports
<1>1. Init => InitializeReports
  BY DEF Init, InitializeReports
<1> QED BY <1>1, NextInitialized, VdevsInductive, PTL DEF Spec

-----------------------------------------------------------------------------
(* Redundancy: a group keeps its place and its type as long as the pool    *)
(* lives, whatever comes and goes behind it.                               *)
Grown ==
  \A i \in DOMAIN spec.devices :
    spec.devices[i].type \in Grouping =>
      i \in DOMAIN pool.children /\ pool.children[i].type = spec.devices[i].type

LEMMA GroupIs ==
  ASSUME NEW v, v.type \in Grouping, NEW children
  PROVE  /\ IsGrouping(v) /\ Group(v, children).type = v.type
         /\ Group(v, children).children = children
         /\ Group(v, children).nparity = IF v.type = "raidz" THEN MinDevs(v) - 1 ELSE 0
  BY DEF Grouping, IsGrouping, GroupTypes, Group

LEMMA CreateRedundant ==
  ASSUME VInv, NEW s \in Specs, PoolCreate(s)
  PROVE  Grown' /\ RedundancyAsAsked'
<1>1. spec' = s /\ pool'.children = BuildChildren(s.devices) /\ ValidCounts(s.devices)
  BY CreatePool DEF PoolCreate
<1>2. PICK build : pool'.children = [i \in DOMAIN s.devices |-> BuildOne(s.devices[i], build)]
  BY <1>1, ChildrenBuilt
<1> SUFFICES ASSUME NEW i \in DOMAIN s.devices, s.devices[i].type \in Grouping
             PROVE  LET v == s.devices[i]
                        nv == pool'.children[i]
                    IN  /\ nv.type = v.type
                        /\ v.type = "raidz" =>
                             /\ nv.nparity >= 1
                             /\ IF v.parity > MaxParity THEN nv.nparity >= MaxParity
                                                        ELSE nv.nparity >= v.parity
                             /\ nv.nparity < Len(nv.children) /\ Len(nv.children) <= MaxRaidz
                        /\ v.type = "mirror" => Len(nv.children) > 1
  BY <1>1, <1>2 DEF Grown, RedundancyAsAsked, Grouping
<1> DEFINE v == s.devices[i]
           nv == pool'.children[i]
           built == [j \in DOMAIN v.devices |-> build[v.devices[j]]]
<1>3. nv = Group(v, built) /\ IsGrouping(v)
  BY <1>2, GroupIs DEF BuildOne
<1>4. IsList(v.devices) /\ v.parity \in Nat
  BY SpecsAssumption DEF IsList
<1>5. Len(built) = Len(v.devices) /\ Len(v.devices) \in Nat
  <2>1. built = [j \in 1..Len(v.devices) |-> built[j]] /\ Len(v.devices) \in Nat
    BY <1>4, ListShape
  <2> QED BY <2>1, ListIs
<1>6. Len(v.devices) \in MinDevs(v)..MaxDevs(v)
  <2>1. v \in Forest(s.devices, Grouped)
    BY DEF Forest, Tree
  <2> QED BY <1>1, <2>1 DEF ValidCounts
<1> HIDE DEF built
<1>7. nv.type = v.type /\ nv.children = built /\ nv.nparity = IF v.type = "raidz" THEN MinDevs(v) - 1 ELSE 0
  BY <1>3, GroupIs
<1> HIDE DEF v, nv
<1>8. CASE v.type = "raidz"
  <2>1. MinDevs(v) = Parity(v) + 1 /\ MaxDevs(v) = MaxRaidz
    BY <1>8 DEF MinDevs, MaxDevs
  <2>2. /\ Parity(v) \in Nat /\ Parity(v) >= 1
        /\ IF v.parity > MaxParity THEN Parity(v) >= MaxParity ELSE Parity(v) >= v.parity
    BY <1>4, RaidzAssumption DEF Parity
  <2>3. nv.nparity = Parity(v) /\ Len(nv.children) = Len(v.devices)
    BY <1>5, <1>7, <1>8, <2>1, <2>2
  <2>4. Len(v.devices) >= Parity(v) + 1 /\ Len(v.devices) <= MaxRaidz
    BY <1>6, <2>1
  <2> QED BY <1>5, <1>7, <1>8, <2>2, <2>3, <2>4 DEF v, nv
<1>9. CASE v.type # "raidz"
  <2>1. v.type = "mirror" => MinDevs(v) = 2
    BY DEF MinDevs
  <2>2. v.type = "mirror" => Len(v.devices) >= 2
    BY <1>6, <2>1
  <2> QED BY <1>5, <1>7, <1>9, <2>2 DEF v, nv
<1> QED BY <1>8, <1>9

LEMMA NextRedundant ==
  VInv /\ Grown /\ RedundancyAsAsked /\ [Next]_vars => Grown' /\ RedundancyAsAsked'
<1> SUFFICES ASSUME VInv, Grown, RedundancyAsAsked, [Next]_vars
             PROVE  Grown' /\ RedundancyAsAsked'
  OBVIOUS
<1>1. ASSUME spec' = spec,
             \A i \in DOMAIN pool.children :
               pool.children[i].type \in Grouping =>
                 i \in DOMAIN pool'.children /\ pool'.children[i] = pool.children[i]
      PROVE  Grown' /\ RedundancyAsAsked'
  <2>1. \A i \in DOMAIN spec.devices :
          spec.devices[i].type \in Grouping =>
            /\ i \in DOMAIN pool.children /\ pool.children[i].type = spec.devices[i].type
            /\ i \in DOMAIN pool'.children /\ pool'.children[i] = pool.children[i]
    BY <1>1 DEF Grown
  <2>2. Grown'
    BY <1>1, <2>1 DEF Grown
  <2>3. RedundancyAsAsked'
    BY <1>1, <2>1 DEF RedundancyAsAsked, Grouping
  <2> QED BY <2>2, <2>3
<1>2. CASE \E s \in Specs : PoolCreate(s)
  BY <1>2, CreateRedundant
<1>3. ASSUME NEW p \in NewDevs, RemoveLog(p) \/ \E log \in BOOLEAN : AddVdev(p, log)
      PROVE  Grown' /\ RedundancyAsAsked'
  <2>1. spec' = spec
    BY <1>3 DEF RemoveLog, AddVdev, Event
  <2> QED BY <1>1, <1>3, <2>1, AddPool, RemovePool
<1>4. CASE UNCHANGED <<spec, pool>>
  BY <1>1, <1>4
<1>5. CASE VDevTree \/ RefreshStats \/ OnlineDev \/ OfflineDev
  BY <1>4, <1>5 DEF VDevTree, RefreshStats, OnlineDev, OfflineDev, DevVars
<1>6. ASSUME NEW op, NEW a, Begin(op, a) PROVE UNCHANGED <<spec, pool>>
  BY <1>6 DEF Begin
<1>7. ASSUME NEW ps, Clear(ps) PROVE UNCHANGED <<spec, pool>>
  BY <1>7 DEF Clear, DevVars
<1>8. ASSUME NEW a, Initialize(a) PROVE UNCHANGED <<spec, pool>>
  BY <1>8 DEF Initialize
<1>9. ASSUME NEW p, DeviceFails(p) \/ DeviceRepaired(p) PROVE UNCHANGED <<spec, pool>>
  BY <1>9 DEF DeviceFails, DeviceRepaired, Event
<1>10. CASE UNCHANGED vars
  BY <1>4, <1>10 DEF vars
<1>11. ASSUME NEW p, InitializationDone(p) PROVE UNCHANGED <<spec, pool>>
  BY <1>11 DEF InitializationDone
<1> QED
  BY <1>2, <1>3, <1>4, <1>5, <1>6, <1>7, <1>8, <1>9, <1>10, <1>11 DEF Next, Client, Environment

(* A raidz group or mirror that isGrouping (zpool.go:658) lets through has *)
(* the parity or the second side that was asked for, and keeps it.         *)
THEOREM RedundancyKept == Spec => []RedundancyAsAsked
<1>1. Init => Grown /\ RedundancyAsAsked
  BY DEF Init, Grown, RedundancyAsAsked
<1> QED BY <1>1, NextRedundant, VdevsInductive, PTL DEF Spec

-----------------------------------------------------------------------------
(* Spares and cache devices.                                               *)
SparesOf(s) == IF s.l2cache = <<>> THEN s.spares ELSE s.l2cache

LEMMA NameRead ==
  ASSUME NEW nvs, NEW st
  PROVE  /\ DOMAIN ReadLeaves(nvs, st) = DOMAIN nvs
         /\ \A i \in DOMAIN nvs : ReadLeaves(nvs, st)[i].name = Name(nvs[i])
<1>1. ASSUME NEW nv, NEW read PROVE ReadOne(nv, st, read).name = Name(nv)
  BY DEF ReadOne
<1>2. ASSUME NEW nv PROVE PoolGetConfig(nv, st).name = Name(nv)
  BY <1>1 DEF PoolGetConfig
<1> QED BY <1>2 DEF ReadLeaves

LEMMA SparesBuilt ==
  ASSUME NEW s, s.devices # <<>>
  PROVE  LET root == BuildVDevTree(s)
         IN  /\ root.l2cache = <<>>
             /\ DOMAIN root.spares = DOMAIN SparesOf(s)
             /\ \A i \in DOMAIN SparesOf(s) : root.spares[i] = BuildVdev(SparesOf(s)[i])
<1> DEFINE r == [Root EXCEPT !.children = BuildChildren(s.devices)]
           q == BuildVdevSpares(r, s.spares)
<1>1. r = [type |-> "root", children |-> r.children, spares |-> <<>>, l2cache |-> <<>>]
  BY DEF Root
<1>2. q = [type |-> "root", children |-> r.children,
           spares |-> IF s.spares = <<>> THEN <<>> ELSE BuildLeaves(s.spares), l2cache |-> <<>>]
  BY <1>1 DEF BuildVdevSpares
<1>3. BuildVDevTree(s) = BuildVdevL2Cache(q, s.l2cache)
  BY DEF BuildVDevTree
<1> HIDE DEF q, r
<1>4. CASE s.l2cache = <<>>
  <2>1. BuildVDevTree(s) = q
    BY <1>3, <1>4 DEF BuildVdevL2Cache
  <2> QED BY <1>2, <1>4, <2>1 DEF SparesOf, BuildLeaves
<1>5. CASE s.l2cache # <<>>
  <2>1. BuildVDevTree(s) = [q EXCEPT !.spares = BuildLeaves(s.l2cache)]
    BY <1>3, <1>5 DEF BuildVdevL2Cache
  <2> QED BY <1>2, <1>5, <2>1 DEF SparesOf, BuildLeaves
<1> QED BY <1>4, <1>5

(* Root r holds the spares of the specification s, or its cache devices.   *)
Holds(r, s) ==
  /\ r.l2cache = <<>>
  /\ DOMAIN r.spares = DOMAIN SparesOf(s)
  /\ \A i \in DOMAIN SparesOf(s) : Name(r.spares[i]) = SparesOf(s)[i].path

SparesRead ==
  tree # NoTree => /\ NamesOf(tree.spares) = Paths(SparesOf(spec))
                   /\ DOMAIN tree.l2cache = {}

SInv ==
  /\ IF Open THEN Holds(pool, spec) /\ Holds(cached.root, spec) ELSE tree = NoTree
  /\ SparesRead

LEMMA HoldsCreated ==
  ASSUME VInv, SInv, NEW s \in Specs, PoolCreate(s)
  PROVE  SInv'
<1>1. ~Open /\ Open' /\ pool' = BuildVDevTree(s) /\ spec' = s /\ cached'.root = pool' /\ tree' = NoTree
  BY CreatePool DEF PoolCreate, SInv
<1>2. s.devices # <<>>
  BY DEF PoolCreate, BuildVDevTree, Accepts, Root
<1>3. \A v : Name(BuildVdev(v)) = v.path
  BY DEF Name, BuildVdev
<1>4. Holds(pool', s)
  BY <1>1, <1>2, <1>3, SparesBuilt DEF Holds
<1> QED BY <1>1, <1>4 DEF SInv, SparesRead

LEMMA HoldsRead ==
  ASSUME SInv, VDevTree
  PROVE  SInv'
<1>1. /\ Open /\ UNCHANGED <<spec, pool, cached>> /\ tree' = VDevTreeOf(cached.root, cached.state)
  BY DEF VDevTree
<1>2. /\ tree'.spares = ReadLeaves(cached.root.spares, cached.state)
      /\ tree'.l2cache = ReadLeaves(cached.root.l2cache, cached.state)
  BY <1>1 DEF VDevTreeOf
<1>3. Holds(cached.root, spec)
  BY <1>1 DEF SInv
<1>4. NamesOf(tree'.spares) = Paths(SparesOf(spec))
  BY <1>2, <1>3, NameRead DEF Holds, NamesOf, Paths
<1>5. DOMAIN tree'.l2cache = {}
  BY <1>2, <1>3, NameRead DEF Holds
<1> QED BY <1>1, <1>4, <1>5 DEF SInv, SparesRead, Open

LEMMA NextSInv == VInv /\ SInv /\ [Next]_vars => SInv'
<1> SUFFICES ASSUME VInv, SInv, [Next]_vars PROVE SInv'
  OBVIOUS
<1>1. ASSUME Open, Open', spec' = spec, tree' \in {tree, NoTree},
             pool'.spares = pool.spares, pool'.l2cache = pool.l2cache,
             cached'.root \in {cached.root, pool}
      PROVE  SInv'
  BY <1>1 DEF SInv, SparesRead, Holds
<1>2. CASE \E s \in Specs : PoolCreate(s)
  BY <1>2, HoldsCreated
<1>3. CASE VDevTree
  BY <1>3, HoldsRead
<1>4. CASE RefreshStats
  BY <1>1, <1>4 DEF RefreshStats, Open
<1>5. ASSUME NEW op, NEW a, Begin(op, a) PROVE SInv'
  BY <1>1, <1>5 DEF Begin, Open
<1>6. CASE OnlineDev \/ OfflineDev
  <2>1. Open
    BY <1>6 DEF OnlineDev, OfflineDev, VInv, CacheOK, NoCall, Idle
  <2>2. UNCHANGED <<spec, pool, cached>> /\ tree' \in {tree, NoTree}
    BY <1>6 DEF OnlineDev, OfflineDev, DevVars, Changes
  <2> QED BY <1>1, <2>1, <2>2 DEF Open
<1>7. ASSUME NEW ps, Clear(ps) PROVE SInv'
  BY <1>1, <1>7 DEF Clear, DevVars, Changes, Open
<1>8. ASSUME NEW a, Initialize(a) PROVE SInv'
  BY <1>1, <1>8 DEF Initialize, Open
<1>9. CASE Environment
  <2>1. Event
    BY <1>9 DEF Environment, DeviceFails, DeviceRepaired, RemoveLog, AddVdev
  <2>2. Open /\ spec' = spec /\ tree' = NoTree /\ cached' = cached /\ Open'
    BY <2>1, NextPoolOK DEF Event, Changes
  <2>3. pool' = pool \/ \E nvs : pool' = [pool EXCEPT !.children = nvs]
    BY <1>9 DEF Environment, DeviceFails, DeviceRepaired, RemoveLog, AddVdev
  <2>4. pool'.spares = pool.spares /\ pool'.l2cache = pool.l2cache
    <3>1. ASSUME NEW nvs, pool' = [pool EXCEPT !.children = nvs]
          PROVE  pool'.spares = pool.spares /\ pool'.l2cache = pool.l2cache
      BY <3>1 DEF VInv, PoolOK
    <3> QED BY <2>3, <3>1
  <2> QED BY <1>1, <2>2, <2>4
<1>10. CASE UNCHANGED vars
  BY <1>10 DEF vars, SInv, SparesRead, Open
<1>11. ASSUME NEW p, InitializationDone(p) PROVE SInv'
  BY <1>11 DEF InitializationDone, SInv, SparesRead, Open
<1> QED BY <1>2, <1>3, <1>4, <1>5, <1>6, <1>7, <1>8, <1>9, <1>10, <1>11 DEF Next, Client

(* What VDevTree shows as the spares of the pool is, for every             *)
(* specification, its spares if it has no cache devices, and its cache     *)
(* devices if it has: buildVdevL2Cache writes them under the key of the    *)
(* spares (zpool.go:892).  No cache device is ever shown.                  *)
THEOREM CacheReplacesSpares == Spec => []SparesRead
<1>1. Init => SInv
  BY DEF Init, NoPool, Open, SInv, SparesRead
<1>2. SInv => SparesRead
  BY DEF SInv
<1> QED BY <1>1, <1>2, NextSInv, VdevsInductive, PTL DEF Spec
=============================================================================
