------------------------------ MODULE MCRelease ------------------------------
(* An instance of Release for TLC: two publishers of one commit with the same   *)
(* files, and one of another commit that shares the bytes of two of the four.    *)
EXTENDS Release

CONSTANTS u1, u2, u3, m1, m2, b1, b2, b3, b4, b5, b6

Sources == [u \in Publishers |-> IF u = u3 THEN m2 ELSE m1]
Files   == [u \in Publishers |-> IF u = u3 THEN <<b1, b5, b3, b6>> ELSE <<b1, b2, b3, b4>>]
=============================================================================
