------------------------------- MODULE MCPrune -------------------------------
(* An instance of Prune: a Run with its reviews, their assignment and pruning. *)
EXTENDS Prune, TLC

CONSTANTS w1, w2, agent, person, c1, c2, c3, s1, ann, bob

\* A review by a person that waits for an executor's.
NeedsAgent == (agent :> {}) @@ (person :> {agent})

\* Two attempts of one reviewer, one of another, who also sends a result.
OnPerson == [c \in {c1, c2, c3} |-> person]
ByTwo    == (c1 :> ann) @@ (c2 :> bob) @@ (c3 :> ann) @@ (s1 :> bob)
=============================================================================
