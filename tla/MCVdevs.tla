------------------------------ MODULE MCVdevs ------------------------------
(* Small pools of every kind, with spares and cache devices or without,    *)
(* and raidz groups at the edges of parity and size.                       *)
EXTENDS Vdevs, TLC

File(p) == [type |-> "file", parity |-> 0, path |-> p, devices |-> <<>>]
Mirror(ds) == [type |-> "mirror", parity |-> 0, path |-> NoPath, devices |-> ds]
Raidz(n, ds) == [type |-> "raidz", parity |-> n, path |-> NoPath, devices |-> ds]
Only(ds) == [devices |-> ds, spares |-> <<>>, l2cache |-> <<>>]

D1 == File("d1")
D2 == File("d2")
D3 == File("d3")
S1 == File("s1")
S2 == File("s2")
C1 == File("c1")

Layouts == {
  <<Mirror(<<D1, D2>>), D3>>, <<Raidz(2, <<D1, D2, D3>>)>>,
  <<Mirror(<<D1, Mirror(<<D2, D3>>)>>)>>}

Extras == {<< <<>>, <<>> >>, << <<S1, S2>>, <<>> >>, << <<>>, <<C1>> >>, << <<S1>>, <<C1>> >>}

Working ==
  {Only(l) : l \in Layouts}
  \cup {[devices |-> <<D1>>, spares |-> x[1], l2cache |-> x[2]] : x \in Extras}

(* Other paths, so that nothing is done to these pools but reading them.   *)
Many(n) == [i \in 1..n |-> File("x" \o ToString(i))]

Edges == {Only(<<Raidz(p, Many(n))>>) : p \in 0..MaxParity + 2, n \in 0..MaxRaidz + 2}
         \cup {Only(<<Mirror(Many(n))>>) : n \in 0..3}
         \cup {Only(<<>>), Only(<<[D1 EXCEPT !.type = "log"]>>)}

MCSpecs == Working \cup Edges
MCArgs == {<<"d1">>, <<"d1", "d2">>, <<"d2", "nosuch", "d1">>}
MCFrail == {"d1"}
MCNew == {"n1", "n2"}
=============================================================================
