---------------------------- MODULE InputBoundary ----------------------------
(***************************************************************************)
(* What a workspace handle promises of the reviewed input: a boundary is   *)
(* accepted only if the input was still the baseline when it was asked     *)
(* for.  An input that was changed never is the baseline again, refusing   *)
(* is always allowed, and every call is answered.  WorkspaceObserver       *)
(* implements this with scans that calls share.                            *)
(***************************************************************************)
CONSTANTS
  Calls  \* boundaries asked for

VARIABLES
  intact,  \* whether the input is still the baseline
  answer,  \* what became of a call
  clean    \* the calls in progress at whose beginning the input was the baseline

boundary == <<intact, answer, clean>>

BoundaryTypeOK ==
  /\ intact \in BOOLEAN
  /\ answer \in [Calls -> {"idle", "asked", "accepted", "refused"}]
  /\ clean \subseteq Calls

BoundaryInit ==
  /\ intact = TRUE
  /\ answer = [c \in Calls |-> "idle"]
  /\ clean = {}

Change ==
  /\ intact' = FALSE
  /\ UNCHANGED <<answer, clean>>

Ask(c) ==
  /\ answer[c] = "idle"
  /\ answer' = [answer EXCEPT ![c] = "asked"]
  /\ clean' = IF intact THEN clean \cup {c} ELSE clean
  /\ UNCHANGED intact

Accept(c) ==
  /\ answer[c] = "asked" /\ c \in clean
  /\ answer' = [answer EXCEPT ![c] = "accepted"]
  /\ clean' = clean \ {c}
  /\ UNCHANGED intact

Refuse(C) ==  \* one finding refuses everybody who waited for it
  /\ \A c \in C : answer[c] = "asked"
  /\ answer' = [c \in Calls |-> IF c \in C THEN "refused" ELSE answer[c]]
  /\ clean' = clean \ C
  /\ UNCHANGED intact

Decline(c) ==  \* refused on the spot
  /\ answer[c] = "idle"
  /\ answer' = [answer EXCEPT ![c] = "refused"]
  /\ UNCHANGED <<intact, clean>>

BoundaryNext ==
  \/ Change
  \/ \E c \in Calls : Ask(c) \/ Decline(c) \/ Accept(c)
  \/ \E C \in SUBSET Calls : Refuse(C)

BoundarySafety == BoundaryInit /\ [][BoundaryNext]_boundary

BoundarySpec ==
  /\ BoundarySafety
  /\ (\E c \in Calls : answer[c] = "asked") ~> \A c \in Calls : answer[c] # "asked"
=============================================================================
