-------------------------- MODULE MCDatasetHandles --------------------------
(* A dataset with two children, one of which has a child, or just one      *)
(* child; a variable in each of two goroutines.                            *)
EXTENDS DatasetHandles, TLC

CONSTANTS r, a, b, a1, d, w, main, other

TreeItems == {r, a, b, a1}
TreeKids == (r :> {a, b}) @@ (a :> {a1}) @@ (b :> {}) @@ (a1 :> {})
PairItems == {r, a}
PairKids == (r :> {a}) @@ (a :> {})

TwoVars == {d, w}
TwoProcs == {main, other}
OwnerOfTwo == (d :> main) @@ (w :> other)

Everything == {"Close", "Use", "Copy", "DestroyRecursive", "DestroyPromote"}
CloseAndUse == {"Close", "Use"}
=============================================================================
