-------------------------- MODULE MCPropertyCache --------------------------
(* PropertyCache with goroutines and copies as model values.               *)
EXTENDS PropertyCache

CONSTANTS p1, p2, c1, c2, c3

MCProcs == {p1, p2}
MCCopies == {c1, c2, c3}
MCClosed == {c3}
=============================================================================
