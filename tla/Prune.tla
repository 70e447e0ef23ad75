-------------------------------- MODULE Prune --------------------------------
(***************************************************************************)
(* The removal of scratch directories (src/src/project/prune.ts) beside    *)
(* the Run they belong to and the reviews by people.  Prune reads the      *)
(* requests once and decides about each of them in a transaction of its    *)
(* own, in which it moves the directories into a private quarantine.       *)
(*                                                                         *)
(* Abstracted: the tree of directories of a request is there or not; what  *)
(* was moved is gone, whether it is deleted afterwards, under no lock, or  *)
(* a failure leaves it in the quarantine.                                  *)
(***************************************************************************)
EXTENDS HumanReview

CONSTANTS
  Stored  \* bound: the requests whose directories are followed

ASSUME PruneAssumption == Stored \subseteq Requests

VARIABLES
  scratch,    \* the requests with scratch directories under runs/
  candidates  \* those the process that prunes has yet to decide about

pruneVars == <<scratch, candidates>>
allVars   == <<reviewVars, pruneVars>>

PruneInit == scratch = {} /\ candidates = {}

\* The executor of a request, or the preparation of a review, has files.
Works(r) ==
  \/ \E w \in Workers : task[w][r] = "executing"
  \/ \E c \in Claims : On[c] = r /\ call[c] = "checking"

\* Any step of the Run or of a review; work that starts makes directories.
Work ==
  /\ ReviewNext
  /\ scratch' = scratch \cup {r \in Stored : Works(r)' /\ ~Works(r)}
  /\ UNCHANGED candidates

Ended(r) == status[r] \in Verdicts \cup {"ERROR"}

\* Fault: that the Run is decided is enough.
Prunable_Owned(r) == Ended(r) /\ Terminal

\* A terminal request of a terminal Run that no worker holds.
Prunable(r) == Ended(r) /\ Terminal /\ owner = None

PruneStart ==
  /\ candidates = {}
  /\ candidates' = Stored
  /\ UNCHANGED <<reviewVars, scratch>>

\* One write transaction decides and moves.
Move(r) ==
  /\ r \in candidates
  /\ scratch' = IF Prunable(r) THEN scratch \ {r} ELSE scratch
  /\ candidates' = candidates \ {r}
  /\ UNCHANGED reviewVars

\* A move fails, or what was moved is not what was looked at: rolling back moves
\* nothing back, and the other candidates are left alone.
MoveFails(r) ==
  /\ r \in candidates /\ Prunable(r) /\ r \in scratch
  /\ scratch' \in {scratch, scratch \ {r}}
  /\ candidates' = {}
  /\ UNCHANGED reviewVars

StoreInit == ReviewInit /\ PruneInit
StoreNext ==
  \/ Work \/ PruneStart
  \/ \E r \in Stored : Move(r) \/ MoveFails(r)

StoreSpec == StoreInit /\ [][StoreNext]_allVars

-----------------------------------------------------------------------------
\* Prune never takes the files of a request whose task has not settled in some
\* worker: neither under a Run a worker still holds, nor under one that was
\* retried and taken over since the requests were read.
PruneSparesWork ==
  [][\A r \in scratch \ scratch' : \A w \in Workers : task[w][r] = "none"]_allVars
=============================================================================
