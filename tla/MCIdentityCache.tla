--------------------------- MODULE MCIdentityCache ---------------------------
(* An instance of IdentityCache for TLC. *)
EXTENDS IdentityCache, TLC

CONSTANTS p1, p2, c1, c2, i1

\* Two processes: one call in the first, one in the second.
HomeTwo == (c1 :> p1 @@ c2 :> p2)

\* Both calls want one identity.
WantedOne == (c1 :> i1 @@ c2 :> i1)
=============================================================================
