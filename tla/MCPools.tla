------------------------------ MODULE MCPools ------------------------------
(* Three pools and two names: imported, exported, destroyed, two of one    *)
(* name, and one guid that is free for a new pool.                         *)
EXTENDS Pools, TLC

CONSTANTS g1, g2, g3

MCGuids == {g1, g2, g3}
MCBroken == {g2}

P(n, w) == [name |-> n, where |-> w, mounted |-> FALSE]
Free == P("none", "free")

MCWorlds == {
  (g1 :> P("t", "exported")) @@ (g2 :> P("t", "exported")) @@ (g3 :> Free),
  (g1 :> P("t", "imported")) @@ (g2 :> P("u", "imported")) @@ (g3 :> P("t", "exported")),
  (g1 :> P("t", "destroyed")) @@ (g2 :> P("u", "imported")) @@ (g3 :> P("t", "exported"))}
=============================================================================
