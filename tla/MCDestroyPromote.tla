-------------------------- MODULE MCDestroyPromote --------------------------
(* A pool with two filesystems and one or two below them.                  *)
EXTENDS DestroyPromote

P == <<"p">>
PA == <<"p", "a">>
PB == <<"p", "b">>
PAC == <<"p", "a", "c">>
PBC == <<"p", "b", "c">>

PC == <<"p", "c">>

OnlyA == {PA}

(* Nested filesystems: recursion, clones below clones.                     *)
MCTree == {P, PA, PB, PAC, PBC}

(* Three siblings, two names: which of several clones is promoted first.   *)
MCFlat == {P, PA, PB, PC}
MCTwoNames == {<<"s">>, <<"t">>}

(* All in one run.  Undisturbed: one call, no failure, no client meanwhile;*)
(* the pool has the first shape, or the second, and then p/a is the target.*)
(* Otherwise: two calls, a failure, and clients, on siblings with one name.*)
VARIABLE undisturbed

MCShapes == MCTree \cup MCFlat
AnyOfShapes == {PA, PB, PC, PAC, PBC}

Named(n) == \E i \in Ids(ns) : ns.snap[i].name = n
Within(ps) == FSet(ns) \subseteq ps

TreeShaped == Within(MCTree) /\ ~Named(<<"t">>)
FlatShaped == Within(MCFlat) /\ target \in {P, PA}
DisturbedShaped == Within(MCFlat) /\ ~Named(<<"t">>) /\ txg <= 5

(* p/b and p/c are alike in the second shape: p/b is made first.           *)
BBeforeC == (PC \in FSet(ns') /\ PC \notin FSet(ns)) => PB \in FSet(ns)

OneQuietCall ==
  /\ status \notin {"nil", "error"} /\ calls' <= 1 /\ faults' = 0
  /\ status = "running" => txg' = txg
  /\ (TreeShaped \/ FlatShaped)' /\ BBeforeC

ShapesInit == Init /\ undisturbed \in BOOLEAN
ShapesNext ==
  /\ Next /\ UNCHANGED undisturbed
  /\ IF undisturbed THEN OneQuietCall ELSE DisturbedShaped'
ShapesSpec == ShapesInit /\ [][ShapesNext]_<<vars, undisturbed>>

SuffixSpec == Init /\ undisturbed = TRUE /\ [][Next /\ UNCHANGED undisturbed]_<<vars, undisturbed>>

(* A name and the name that conflict resolution makes of it.               *)
MCPair == {P, PA, PB}
MCSuffixed == {<<"s">>, <<"s", "a">>}
=============================================================================
