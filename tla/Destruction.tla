---------------------------- MODULE Destruction ----------------------------
(***************************************************************************)
(* What a recursive destroy promises, without how: the datasets in its     *)
(* scope vanish one at a time, nothing else does, and the one it was asked *)
(* to destroy, its root, goes last, in the same step as the call succeeds. *)
(* A call that fails stops where it is, with the root still there.         *)
(***************************************************************************)
VARIABLES
  there,    \* the datasets that existed at the call and still do
  scope,    \* those the call is about
  root,     \* the one it was made on
  whole,    \* TRUE iff success means that nothing of the scope is left
  outcome   \* "running", "nil" or "error"

vars == <<there, scope, root, whole, outcome>>

Init == whole \in BOOLEAN /\ outcome = "running" /\ scope \subseteq there /\ root \in scope

Vanish(x) ==
  /\ outcome = "running"
  /\ x \in (there \cap scope) \ {root}
  /\ there' = there \ {x}
  /\ UNCHANGED <<scope, root, whole, outcome>>

Succeed ==
  /\ outcome = "running" /\ root \in there
  /\ whole => there \cap scope = {root}
  /\ there' = there \ {root}
  /\ outcome' = "nil"
  /\ UNCHANGED <<scope, root, whole>>

Fail ==
  /\ outcome = "running" /\ root \in there
  /\ outcome' = "error"
  /\ UNCHANGED <<there, scope, root, whole>>

Next == (\E x \in scope : Vanish(x)) \/ Succeed \/ Fail

(* The steps a recursive destroy may take.                                 *)
Safe == Init /\ [][Next]_vars

(* And it ends.                                                            *)
Spec == Safe /\ <>(outcome # "running")
=============================================================================
