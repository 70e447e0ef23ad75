--------------------------- MODULE MCRunLifecycle ---------------------------
(* Instances of RunLifecycle. *)
EXTENDS RunLifecycle, TLC

CONSTANTS w1, w2, agent, other, person, after, s1, s2

\* An executor's request, then a review by a person, then another executor's.
Chain == (agent :> {}) @@ (person :> {agent}) @@ (after :> {person})

\* The same beside an executor's request that nothing gates.
Diamond == (agent :> {}) @@ (other :> {}) @@ (person :> {agent}) @@ (after :> {person, other})

=============================================================================
