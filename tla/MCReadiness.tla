----------------------------- MODULE MCReadiness -----------------------------
(* An instance of Readiness for TLC: y depends on x, and z on nothing.  taker is *)
(* to evaluate y and z, and takes what finder finds about x, if it is in time.   *)
EXTENDS Readiness, Tarjan

CONSTANTS taker, finder, x, y, z

Found(rel) == StronglyConnected(Artifacts, rel)
Reviews == (x :> 1) @@ (y :> 2) @@ (z :> 3)
Behind == {<<2, 1>>}
Refers == {Behind}
Named(critics) == [selection |-> [artifacts |-> {}, critics |-> critics], recursive |-> FALSE]
Across == (taker :> Named({y, z})) @@ (finder :> Named({x, y}))
=============================================================================
