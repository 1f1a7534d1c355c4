--------------------------- MODULE MCExampleLibp ----------------------------
(***************************************************************************)
(* Instances of ExampleLibp for TLC: a sink and two relays in a line, and  *)
(* the process of one node alone; times are counted in a coarser unit, the *)
(* two beacon periods in their ratio of one to three.                      *)
(***************************************************************************)
EXTENDS ExampleLibp

CONSTANTS s, r, a

Both(n, m) == {<<n, m>>, <<m, n>>}

Line == Both(s, r) \cup Both(r, a)

Beacons == [link |-> Line, apps |-> {}]
App     == [link |-> {}, apps |-> {s}]

BeaconsAndApp == {Beacons, App}
JustApp       == {App}
=============================================================================
