----------------------------- MODULE HumanReview -----------------------------
(***************************************************************************)
(* How a review by a person is assigned (src/src/broker/human-claims.ts,   *)
(* claimHuman of src/src/broker/index.ts).  A call of claimHuman reserves  *)
(* the review under a lease (Try Claim), prepares its input and tools on   *)
(* the machine of the reviewer while a heartbeat renews the lease, and is  *)
(* assigned the review if the reservation is still its own.  The life of   *)
(* the Run is RunLifecycle's: a session of completeHuman or of a tool is   *)
(* open to the assigned reviewer only.                                     *)
(*                                                                         *)
(* Abstracted: time (a lease may lapse at any moment: a stalled or dead    *)
(* process sends no heartbeat), the five phases of the checks, and what    *)
(* the checks are.                                                         *)
(***************************************************************************)
EXTENDS RunLifecycle

CONSTANTS
  Claims,  \* bound: calls of claimHuman
  On,      \* the review a call is for
  By       \* the reviewer of a call, and of a session

ASSUME ReviewAssumption ==
  /\ On \in [Claims -> Human]
  /\ Claims \cup Sessions \subseteq DOMAIN By
  /\ None \notin Claims \cup {By[c] : c \in DOMAIN By}

VARIABLES
  \* columns of the request in broker.sqlite
  tryClaim,   \* tryClaim.id: the call that has the review reserved
  lapsed,     \* the calls whose expiresAt has passed
  claimedBy,  \* the reviewer it is assigned to
  record,     \* preparationAttempt: the call it tells of and its recorded status
  \* the reviewers' processes
  call        \* progress of a call of claimHuman

claimVars  == <<tryClaim, lapsed, claimedBy, record, call>>
reviewVars == <<vars, claimVars>>

Reviewers == {By[c] : c \in DOMAIN By}
Nothing   == [id |-> None, status |-> "none"]

ClaimTypeOK ==
  /\ tryClaim \in [Human -> Claims \cup {None}]
  /\ lapsed \subseteq Claims
  /\ claimedBy \in [Human -> Reviewers \cup {None}]
  /\ record \in [Human -> [id : Claims \cup {None},
                           status : {"none", "preparing", "released", "expired", "claimed"}]]
  /\ call \in [Claims -> {"off", "checking", "confirming", "leaving", "ended"}]

ClaimInit ==
  /\ tryClaim = [r \in Human |-> None]
  /\ lapsed = {}
  /\ claimedBy = [r \in Human |-> None]
  /\ record = [r \in Human |-> Nothing]
  /\ call = [c \in Claims |-> "off"]

-----------------------------------------------------------------------------
(* Conditions every assignment transaction reads again *)

\* waiting and assertWaiting
Waiting(r) == status[r] = "WAITING_HUMAN" /\ r \in notified /\ owner # None /\ alive[owner]

\* activeTryClaim
Active(r) == tryClaim[r] # None /\ tryClaim[r] \notin lapsed

\* Fault: any reservation of the reviewer will do, not only that of this call.
Owned_ByName(c) ==
  LET r == On[c] IN
  /\ Waiting(r) /\ claimedBy[r] = None
  /\ tryClaim[r] # None /\ By[tryClaim[r]] = By[c]

\* attempt: the call still has the review reserved.
Owned(c) ==
  LET r == On[c] IN
  /\ Waiting(r) /\ claimedBy[r] = None
  /\ tryClaim[r] = c /\ c \notin lapsed

\* What the monitor shows of the last attempt (humanPreparationState).
Shown(r) ==
  LET id == record[r].id IN
  IF record[r].status # "preparing" THEN record[r].status
  ELSE IF id \in lapsed THEN "expired"
  ELSE IF status[r] # "WAITING_HUMAN" \/ tryClaim[r] # id THEN "released"
  ELSE "preparing"

-----------------------------------------------------------------------------
(* claimHuman *)

Goes(c, stage) == call' = [call EXCEPT ![c] = stage]

\* begin: a review that waits, is nobody's, and is not being prepared is reserved.
TryClaim(c) ==
  LET r == On[c] IN
  /\ call[c] = "off"
  /\ Waiting(r) /\ claimedBy[r] = None /\ ~Active(r)
  /\ tryClaim' = [tryClaim EXCEPT ![r] = c]
  /\ record' = [record EXCEPT ![r] = [id |-> c, status |-> "preparing"]]
  /\ Goes(c, "checking")
  /\ UNCHANGED <<vars, lapsed, claimedBy>>

\* The lease ends: no heartbeat renewed it in time.
Lapse(c) ==
  /\ tryClaim[On[c]] = c /\ c \notin lapsed
  /\ lapsed' = lapsed \cup {c}
  /\ UNCHANGED <<vars, tryClaim, claimedBy, record, call>>

\* renew throws in the heartbeat, and the preparation is aborted.
HeartbeatFails(c) ==
  /\ call[c] \in {"checking", "confirming"} /\ ~Owned(c)
  /\ Goes(c, "leaving")
  /\ UNCHANGED <<vars, tryClaim, lapsed, claimedBy, record>>

\* prepareHumanReview: every phase, and the one after the last, is reported in
\* a transaction that throws when the reservation is lost.
Prepare(c) ==
  /\ call[c] = "checking"
  /\ Goes(c, IF Owned(c) THEN "confirming" ELSE "leaving")
  /\ UNCHANGED <<vars, tryClaim, lapsed, claimedBy, record>>

\* A check fails, the input changed, or the reviewer gives up.
ChecksFail(c) ==
  /\ call[c] \in {"checking", "confirming"}
  /\ Goes(c, "leaving")
  /\ UNCHANGED <<vars, tryClaim, lapsed, claimedBy, record>>

\* confirm
Confirm(c) ==
  LET r == On[c] IN
  /\ call[c] = "confirming"
  /\ IF Owned(c)
     THEN /\ claimedBy' = [claimedBy EXCEPT ![r] = By[c]]
          /\ record' = [record EXCEPT ![r] = IF @.id = c THEN [@ EXCEPT !.status = "claimed"] ELSE @]
          /\ tryClaim' = [tryClaim EXCEPT ![r] = None]
          /\ Goes(c, "ended")
     ELSE /\ Goes(c, "leaving")
          /\ UNCHANGED <<tryClaim, claimedBy, record>>
  /\ UNCHANGED <<vars, lapsed>>

\* Fault: whatever reservation there is is dropped.
Releases_Any(c) ==
  LET r == On[c] IN
  /\ status[r] = "WAITING_HUMAN" /\ claimedBy[r] = None /\ tryClaim[r] # None

\* release acts only on the reservation of this call.
Releases(c) ==
  LET r == On[c] IN
  /\ status[r] = "WAITING_HUMAN" /\ claimedBy[r] = None /\ tryClaim[r] = c

Release(c) ==
  LET r == On[c] IN
  /\ call[c] = "leaving"
  /\ IF Releases(c)
     THEN /\ tryClaim' = [tryClaim EXCEPT ![r] = None]
          /\ record' = [record EXCEPT ![r] =
               IF @.id = c THEN [@ EXCEPT !.status = IF c \in lapsed THEN "expired" ELSE "released"]
               ELSE @]
     ELSE UNCHANGED <<tryClaim, record>>
  /\ Goes(c, "ended")
  /\ UNCHANGED <<vars, lapsed, claimedBy>>

\* The reviewer's process ends without a word.
ReviewerExits(c) ==
  /\ call[c] \in {"checking", "confirming", "leaving"}
  /\ Goes(c, "ended")
  /\ UNCHANGED <<vars, tryClaim, lapsed, claimedBy, record>>

Claiming(c) ==
  TryClaim(c) \/ Prepare(c) \/ ChecksFail(c) \/ Confirm(c) \/ Release(c)
  \/ HeartbeatFails(c) \/ Lapse(c) \/ ReviewerExits(c)

\* completeHuman, executeHumanTool: only the assigned reviewer opens a session.
Opens(s, r) == claimedBy[r] = By[s]

\* A step of the Run, which leaves the assignment as it is; retryRequest too.
RunStep ==
  /\ Next
  /\ \A s \in Sessions :
       session'[s] \notin {None, session[s]} => Opens(s, session'[s])
  /\ UNCHANGED claimVars

ReviewInit == Init /\ ClaimInit
ReviewNext == RunStep \/ \E c \in Claims : Claiming(c)
ReviewSpec == ReviewInit /\ [][ReviewNext]_reviewVars

-----------------------------------------------------------------------------
(* Properties *)

Preparing(c) == call[c] \in {"checking", "confirming"}

\* Of several calls that prepare a review at the same time at most one has a
\* lease that has not ended, whoever released, lapsed or was retried in between.
OnePreparation ==
  \A c, d \in Claims : c # d /\ On[c] = On[d] /\ Preparing(c) /\ Preparing(d)
    => c \in lapsed \/ d \in lapsed

\* The monitor tells of the call that has the review reserved, and shows a
\* review as being prepared only while it is, as claimed only by the reviewer it is
\* assigned to.
ShownIsTrue ==
  /\ \A c \in Claims : Owned(c) => record[On[c]] = [id |-> c, status |-> "preparing"]
                                   /\ Shown(On[c]) = "preparing"
  /\ \A r \in Human : Shown(r) = "preparing" => Active(r) /\ status[r] = "WAITING_HUMAN"
  /\ \A r \in Human : Shown(r) = "claimed" => claimedBy[r] = By[record[r].id]

\* One reviewer prepares, and everybody sees who.
PreparationShown == OnePreparation /\ ShownIsTrue

\* A verdict of a person is that of the reviewer the review is assigned to, and
\* an assignment is never taken over, by an attempt that comes back late neither.
AssigneeDecides ==
  [][\A r \in Human :
       /\ claimedBy[r] # None => claimedBy'[r] = claimedBy[r]
       /\ claimedBy'[r] # claimedBy[r] =>
            \E c \in Claims : /\ tryClaim[r] = c /\ c \notin lapsed
                              /\ Preparing(c) /\ claimedBy'[r] = By[c]
       /\ status[r] = "WAITING_HUMAN" /\ status'[r] \in Verdicts =>
            \E s \in Sessions : session[s] = r /\ claimedBy[r] = By[s]]_reviewVars
=============================================================================
