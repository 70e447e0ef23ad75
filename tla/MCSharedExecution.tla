-------------------------- MODULE MCSharedExecution --------------------------
(* Instances of SharedExecution for TLC. *)
EXTENDS SharedExecution, TLC

CONSTANTS p1, p2, c1, c2, r1, r2, i1, j1, j2

\* Two processes, one attempt in each.
HomeTwo   == (c1 :> p1 @@ c2 :> p2)
\* The second works for a Run of its own, or retries the first one's.
ForSome   == (c1 :> {r1} @@ c2 :> {r1, r2})
WantedOne == (c1 :> i1 @@ c2 :> i1)

JobSymmetry == Permutations(Jobs)
=============================================================================
