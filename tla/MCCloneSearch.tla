---------------------------- MODULE MCCloneSearch ----------------------------
(* Pools with five filesystems besides the root: p/a with two snapshots,   *)
(* p/b with one, and every way to make the younger ones clones of them;    *)
(* and pools at and over the capacity of the channel.                      *)
EXTENDS CloneSearch

P == <<"p">>
PA == <<"p", "a">>
PB == <<"p", "b">>
PC == <<"p", "c">>
PBD == <<"p", "b", "d">>
PBDE == <<"p", "b", "d", "e">>

MCWanted == {PA, PB}

Born == (P :> 0) @@ (PA :> 1) @@ (PB :> 4) @@ (PC :> 6) @@ (PBD :> 7) @@ (PBDE :> 8)

Snaps == (2 :> [of |-> PA, name |-> <<"s">>]) @@ (3 :> [of |-> PA, name |-> <<"t">>])
         @@ (5 :> [of |-> PB, name |-> <<"s">>])

(* A clone is younger than its origin.                                     *)
Legal(origin) == \A f \in DOMAIN Born : origin[f] = NoSnap \/ origin[f] < Born[f]

Pool(origin, snaps) ==
  [fs |-> [f \in DOMAIN origin |-> [born |-> Born[f], origin |-> origin[f]]], snap |-> snaps]

Origins == {o \in [DOMAIN Born -> {NoSnap} \cup DOMAIN Snaps] : Legal(o)}

(* A third snapshot of p/a: whether the channel overflows depends on the   *)
(* order in which the children are listed.                                 *)
MoreSnaps == Snaps @@ (9 :> [of |-> PA, name |-> <<"u">>])

(* p with three filesystems and n snapshots, all in the channel at once.   *)
Flat(n) ==
  Pool([f \in {P, PA, PB, PC} |-> NoSnap],
       [i \in 1..n |-> [of |-> P, name |-> <<<<"s">>, <<"t">>, <<"u">>>>[i]]])

MCPools ==
  {Pool(o, Snaps) : o \in Origins} \cup {Pool(o, MoreSnaps) : o \in Origins}
    \cup {Flat(2), Flat(3)}
=============================================================================
