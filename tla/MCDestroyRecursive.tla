------------------------- MODULE MCDestroyRecursive -------------------------
(* Three filesystems below each other and one beside them, with a snapshot *)
(* of one name each or not, a snapshot of another name, and one clone.     *)
EXTENDS DestroyRecursive, TLC

P == <<"p">>
PA == <<"p", "a">>
PAB == <<"p", "a", "b">>
PABC == <<"p", "a", "b", "c">>
PAD == <<"p", "a", "d">>
PE == <<"p", "e">>

S == <<"s">>
T == <<"t">>

Born == (P :> 0) @@ (PA :> 1) @@ (PAB :> 2) @@ (PABC :> 3)
AllSnaps == (4 :> [of |-> PA, name |-> S]) @@ (5 :> [of |-> PAB, name |-> S])
            @@ (6 :> [of |-> PABC, name |-> S]) @@ (7 :> [of |-> PAB, name |-> T])

Base4 == [f \in DOMAIN Born |-> [born |-> Born[f], origin |-> NoSnap]]

(* The clone, if any, is outside the target's tree or inside it.           *)
MCPools ==
  {[fs |-> Base4, snap |-> [i \in is |-> AllSnaps[i]]] : is \in SUBSET DOMAIN AllSnaps}
  \cup
  UNION {{[fs |-> Base4 @@ (f :> [born |-> 8, origin |-> i]),
           snap |-> [j \in is |-> AllSnaps[j]]] : i \in is, f \in {PAD, PE}} :
           is \in SUBSET DOMAIN AllSnaps}

MCPaths == {P, PA, PAB, PABC, PAD, PE}
MCNames == {S, T}
MCTargets == {Fs(PA), Fs(PAB), Snap(PA, S), Snap(PAB, S)}
=============================================================================
