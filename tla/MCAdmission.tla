----------------------------- MODULE MCAdmission -----------------------------
(* An instance of Admission for TLC. *)
EXTENDS Admission, TLC

CONSTANTS p1, p2, a, b, c, x, y, m, r, s

\* A repository cap, which only a declares, couples two lanes: b waits at the head
\* of its lane for a, and c, of the same process, behind b.  a and c share a capped
\* model, all three a submission.
LineHome     == (a :> p1 @@ b :> p2 @@ c :> p2)
LineLane     == (a :> y @@ b :> x @@ c :> x)
LineModel    == (a :> m @@ b :> None @@ c :> m)
LineWeight   == [l \in {a, b, c} |-> 1]
LineRepo     == (a :> r @@ b :> r @@ c :> s)
LineRepoCap  == (a :> 1 @@ b :> None @@ c :> None)
LineModelCap == (m :> 1)
LineRun      == [l \in {a, b, c} |-> r]
LineCapacity == (x :> 1 @@ y :> 1)
=============================================================================
