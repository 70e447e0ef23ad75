---------------------------- MODULE MCAgentReview ----------------------------
(* An instance of AgentReview for TLC. *)
EXTENDS AgentReview, TLC

CONSTANTS r1, r2

\* One review may call a tool and answer; the other, which has longer, is there
\* for the lane: its budget is less than a message costs.
OneCall     == r1 :> 1 @@ r2 :> 0
TwoMessages == r1 :> 2 @@ r2 :> 0
Timeouts    == r1 :> 2 @@ r2 :> 3
=============================================================================
