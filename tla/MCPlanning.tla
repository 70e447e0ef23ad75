----------------------------- MODULE MCPlanning -----------------------------
(* An instance of Planning for TLC: all graphs of the reviewed artifacts 1, 2 and 3,  *)
(* of which 1 may refer to a basis, and 2 to an artifact that nobody reviews.         *)
EXTENDS Planning, Tarjan

CONSTANTS p, q, r

Found(rel) == StronglyConnected(Artifacts, rel)
One == (p :> 1) @@ (q :> 2) @@ (r :> 3)
Reviewed == {e \in (1..3) \X (1..3) : e[1] # e[2]}
AllGraphs == {g \cup {<<1, 4>>} : g \in SUBSET Reviewed} \cup
  {g \cup {<<2, 5>>} : g \in SUBSET {<<1, 2>>, <<2, 3>>, <<2, 1>>}}
Selected == {[artifacts |-> {1}, critics |-> {}]}
=============================================================================
