---------------------------- MODULE SharedExecution ----------------------------
(***************************************************************************)
(* Reviews of several Runs that share one execution (executeOne,           *)
(* src/src/broker/index.ts): each request is a receipt in the store of its *)
(* own Run; the review itself runs in a store of its own under             *)
(* executions/<id>, owned by the process whose call of `compute` created   *)
(* the job; the identity cache (IdentityCache, extended here) decides      *)
(* which verdict all of them get.                                          *)
(*                                                                         *)
(* A call of `compute` is one attempt at its receipt.  Every transaction   *)
(* of a receipt's store, of an execution's store and of the cache is an    *)
(* action, since processes interleave between them: a worker that mirrors  *)
(* the execution into its receipt, a person who claims and judges through  *)
(* a receipt from a third process, a requester who cancels or retries.     *)
(*                                                                         *)
(* Abstracted: of the mirrored fields the claim stands for all; a Run has  *)
(* this one request (RunLifecycle has the rest of the Run, HumanReview the *)
(* preparation behind a claim); reviews are by a person, whose execution   *)
(* is the longer one.  A workspace that was edited stays edited: an edit   *)
(* that is undone before the owner identity is computed again is not       *)
(* noticed, as the code documents.                                         *)
(***************************************************************************)
EXTENDS IdentityCache

CONSTANTS
  Receipts,  \* requests of different Runs for the same identity
  For,       \* bound: the receipts a call may be an attempt at
  Cancelable, \* bound: the receipts whose requester may cancel
  People,    \* reviewers, each with one command at a time
  Editable,  \* bound: the processes whose workspace may be edited
  Given      \* bound: the verdicts people give

ASSUME SharedAssumption ==
  /\ For \in [Calls -> SUBSET Receipts]
  /\ Cancelable \subseteq Receipts
  /\ Editable \subseteq Procs
  /\ Given \subseteq {"GREEN", "RED"}
  /\ None \notin People \cup Receipts \cup Calls

VARIABLES
  receipt,  \* the request of a Run: status, executionSource, claimedBy
  token,    \* run_owners: the attempt in charge of a receipt
  serves,   \* the receipt an attempt is for
  filed,    \* attempts whose executeOne is over
  told,     \* `source` of an attempt: the execution onState last named
  got,      \* the execution whose value compute returned
  maker,    \* the attempt that created an execution
  exec,     \* status of the request in the store of an execution
  holder,   \* its claimedBy
  checked,  \* executions whose acceptance check passed
  edited,   \* processes whose workspace no longer has the identity
  sound,    \* history: executions judged on a workspace of the identity
  cmd       \* command of a person, and the receipt and execution it works on

receipts   == <<receipt, token, serves, filed, told, got>>
executions == <<maker, exec, holder, checked, sound>>
people     == <<edited, cmd>>
allVars    == <<vars, receipts, executions, people>>

Verdicts == {"GREEN", "RED"}
Terminal == Verdicts \cup {"ERROR"}
Idle     == [step |-> "idle"]

SharedInit ==
  /\ Init
  /\ receipt = [r \in Receipts |-> [status |-> "QUEUED", source |-> None, claim |-> None]]
  /\ token = [r \in Receipts |-> None]
  /\ serves = [c \in Calls |-> None]
  /\ filed = {}
  /\ told = [c \in Calls |-> None]
  /\ got = [c \in Calls |-> None]
  /\ maker = [j \in Jobs |-> None]
  /\ exec = [j \in Jobs |-> "absent"]
  /\ holder = [j \in Jobs |-> None]
  /\ checked = {}
  /\ edited = {}
  /\ sound = {}
  /\ cmd = [h \in People |-> Idle]

-----------------------------------------------------------------------------
(* Receipts *)

Begun == {c \in Calls : serves[c] # None}

Over(r) == receipt[r].status \in Terminal

\* copyExecutionState and captureSourceState, of the fields that tell who reviews.
Copied(old, j) == IF j = None THEN old ELSE [old EXCEPT !.claim = holder[j]]

Mirrored(old, j) ==
  [Copied(old, j) EXCEPT !.status = IF exec[j] = "WAITING_HUMAN" THEN "WAITING_HUMAN" ELSE @]

\* finishWithin with an error, and failWithin.
Failed(old) == [Copied(old, old.source) EXCEPT !.status = "ERROR"]

\* run and executeOne: a worker takes the Run, then its request.
Begin(c, r) ==
  /\ serves[c] = None /\ Alive(Home[c])
  /\ r \in For[c]
  /\ receipt[r].status = "QUEUED"
  /\ token[r] = None
  /\ token' = [token EXCEPT ![r] = c]
  /\ receipt' = [receipt EXCEPT ![r].status = "RUNNING"]
  /\ serves' = [serves EXCEPT ![c] = r]
  /\ UNCHANGED <<vars, filed, told, got, executions, people>>

\* onState, in the turn in which compute attached: the receipt names the execution it
\* now depends on.  A replacement starts over.
OnState(c, j) ==
  LET replaces == told[c] # None
      old == receipt[serves[c]]
  IN  /\ told' = [told EXCEPT ![c] = j]
      /\ receipt' = [receipt EXCEPT ![serves[c]] =
           IF Over(serves[c]) THEN old
           ELSE [status |-> IF replaces THEN "RUNNING" ELSE old.status,
                 source |-> j,
                 claim  |-> IF replaces THEN None ELSE old.claim]]

\* mirrorExecution, by a timer of the worker.  It reads the store of the execution and
\* looks at the receipt again in the transaction that writes it.
Mirror(c) ==
  LET r == serves[c]
      j == told[c]
  IN  /\ c \in Begun \ filed /\ Alive(Home[c])
      /\ ~Over(r) /\ j # None
      /\ receipt' = [receipt EXCEPT ![r] = Mirrored(@, j)]
      /\ receipt' # receipt
      /\ UNCHANGED <<vars, token, serves, filed, told, got, executions, people>>

\* executeOne ends and with it, here, the worker: the Run has no other request.
Files(c, new) ==
  /\ c \in Begun \ filed
  /\ pc[c] = "done"
  /\ filed' = filed \cup {c}
  /\ receipt' = [receipt EXCEPT ![serves[c]] =
                   IF Over(serves[c]) \/ token[serves[c]] # c THEN @ ELSE new]
  /\ token' = [token EXCEPT ![serves[c]] = IF @ = c THEN None ELSE @]
  /\ told' = [told EXCEPT ![c] = None]
  /\ got' = [got EXCEPT ![c] = None]
  /\ UNCHANGED <<vars, serves, executions, people>>

\* The value of the entry, not the mirrored state, becomes the result.
FileResult(c) ==
  /\ outcome[c] = "result"
  /\ Files(c, [receipt[serves[c]] EXCEPT !.status = exec[got[c]], !.source = got[c]])

\* The signal of an attempt's Run: the poll finds the Run ended, or its observer finds
\* the workspace changed.
Stopped(c) == Over(serves[c]) \/ Home[c] \in edited

\* compute threw, or the signal of the Run was aborted after it returned.
FileError(c) ==
  /\ outcome[c] = "result" => Stopped(c)
  /\ Files(c, Failed(receipt[serves[c]]))

\* A requester cancels; the worker learns of it later.
CancelRun(r) ==
  /\ r \in Cancelable
  /\ ~Over(r)
  /\ receipt' = [receipt EXCEPT ![r] = Failed(@)]
  /\ UNCHANGED <<vars, token, serves, filed, told, got, executions, people>>

\* reconcileWithin: the worker in charge died.
Reconcile(r) ==
  /\ token[r] # None /\ ~Alive(Home[token[r]])
  /\ receipt' = [receipt EXCEPT ![r] = IF Over(r) THEN @ ELSE Failed(@)]
  /\ token' = [token EXCEPT ![r] = None]
  /\ UNCHANGED <<vars, serves, filed, told, got, executions, people>>

\* retryRequest; a new worker has to take the Run (bound: as long as a call is left).
Retry(r) ==
  /\ receipt[r].status = "ERROR"
  /\ token[r] = None
  /\ \E c \in Calls \ Begun : r \in For[c]
  /\ receipt' = [receipt EXCEPT ![r].status = "QUEUED", ![r].source = None]
  /\ UNCHANGED <<vars, token, serves, filed, told, got, executions, people>>

-----------------------------------------------------------------------------
(* Executions *)

ExecOver(j) == exec[j] \in Terminal

\* The review waits for a person, whose alarm is sent.
Notify(j) ==
  /\ task[j] = "executing" /\ abort[j] = None
  /\ exec[j] = "RUNNING"
  /\ exec' = [exec EXCEPT ![j] = "WAITING_HUMAN"]
  /\ UNCHANGED <<vars, receipts, maker, holder, checked, sound, people>>

\* The execution's Run settled with a verdict; the receipt that started it takes the
\* attempt over while it is still subscribed through the same worker.
Executed(j) ==
  LET r == serves[maker[j]]
  IN  /\ ExecuteDone(j)
      /\ exec[j] \in Verdicts
      /\ receipt' = [receipt EXCEPT ![r] =
                       IF Over(r) \/ token[r] # maker[j] THEN @ ELSE Copied(@, j)]
      /\ UNCHANGED <<token, serves, filed, told, got, executions, people>>

\* The execution fails, is aborted, or its acceptance check rejects it.
ExecutionFails(j) ==
  /\ ExecuteFails(j)
  /\ exec' = [exec EXCEPT ![j] = IF ExecOver(j) THEN @ ELSE "ERROR"]
  /\ UNCHANGED <<receipts, maker, holder, checked, sound, people>>

\* Fault: the verdict is published without computing the owner identity again.
Accept_Blind(j) ==
  /\ task[j] = "ready" /\ abort[j] = None
  /\ j \notin checked
  /\ checked' = checked \cup {j}
  /\ UNCHANGED <<vars, receipts, maker, exec, holder, sound, people>>

\* accept: the owner identity is computed again in the workspace of the execution;
\* another value fails the execution (ExecutionFails).
Accept(j) ==
  /\ task[j] = "ready" /\ abort[j] = None
  /\ j \notin checked
  /\ owner[j] \notin edited
  /\ checked' = checked \cup {j}
  /\ UNCHANGED <<vars, receipts, maker, exec, holder, sound, people>>

\* The transaction of publication follows the check, whatever it finds.
PublishChecked(j) ==
  /\ j \in checked
  /\ Publish(j) \/ PublishRefused(j)
  /\ UNCHANGED <<receipts, executions, people>>

-----------------------------------------------------------------------------
(* The calls of the cache, as the workers make them *)

HitEntry(c) ==
  /\ Hit(c)
  /\ c \in Begun
  /\ got' = [got EXCEPT ![c] = entry[Wanted[c]]]
  /\ OnState(c, entry[Wanted[c]])
  /\ UNCHANGED <<token, serves, filed, executions, people>>

JoinJob(c) ==
  /\ Join(c)
  /\ c \in Begun
  /\ OnState(c, active[Wanted[c]])
  /\ UNCHANGED <<token, serves, filed, got, executions, people>>

\* The creator opens the store of the execution in the same turn; here its Run is
\* enqueued and taken with it.
CreateJob(c, j) ==
  /\ Create(c, j)
  /\ c \in Begun
  /\ dir' = dir \cup {j}
  /\ maker' = [maker EXCEPT ![j] = c]
  /\ exec' = [exec EXCEPT ![j] = "RUNNING"]
  /\ OnState(c, j)
  /\ UNCHANGED <<token, serves, filed, got, holder, checked, sound, people>>

TakeResult(c) ==
  /\ ObserveResult(c)
  /\ c \in Begun
  /\ got' = [got EXCEPT ![c] = sub[c]]
  /\ UNCHANGED <<receipt, token, serves, filed, told, executions, people>>

\* The other steps of a call: it learns of a failure or of the owner's exit, is
\* aborted with its Run, or leaves.
CallStep(c) ==
  /\ c \in Begun
  /\ \/ ObserveFailure(c) \/ ObserveOwnerExit(c) \/ Detach(c)
     \/ Stopped(c) /\ Cancel(c)
  /\ UNCHANGED <<receipts, executions, people>>

\* The steps of the cache that no receipt or execution takes part in.  Transactions
\* that stay busy, closing and collecting are left to IdentityCache.
CacheStep ==
  /\ \/ \E j \in Jobs : PublishFailure(j) \/ Settle(j) \/ Maintain(j)
     \/ \E p \in Procs : Reap(p) \/ Exit(p)
  /\ UNCHANGED <<receipts, executions, people>>

-----------------------------------------------------------------------------
(* People, each in a process of their own *)

\* humanPeer: a command on a receipt goes to the execution it names now, whose store
\* first fails an execution without worker, and which refuses a command at once unless
\* it waits for h.
Start(h, r, step) ==
  LET j == receipt[r].source
  IN  /\ cmd[h] = Idle
      /\ ~Over(r) /\ j # None
      /\ exec[j] = "WAITING_HUMAN"
      /\ IF Alive(owner[j])
         THEN /\ holder[j] = h \/ (step = "claim" /\ holder[j] = None)
              /\ cmd' = [cmd EXCEPT ![h] = [step |-> step, of |-> r, in |-> j]]
              /\ UNCHANGED exec
         ELSE exec' = [exec EXCEPT ![j] = "ERROR"] /\ UNCHANGED cmd
      /\ UNCHANGED <<vars, receipts, maker, holder, checked, sound, edited>>

Steps(h, step) == cmd[h].step = step

Goes(h, step) == cmd' = [cmd EXCEPT ![h].step = step]
Returns(h) == cmd' = [cmd EXCEPT ![h] = Idle]

\* The execution waits for its verdict under a worker that lives.
Awaits(j) == exec[j] = "WAITING_HUMAN" /\ Alive(owner[j])

\* claimHuman in the store of the execution, or its refusal.
Claim(h) ==
  LET j == cmd[h].in
  IN  /\ Steps(h, "claim")
      /\ IF Awaits(j) /\ holder[j] \in {None, h}
         THEN holder' = [holder EXCEPT ![j] = h] /\ Goes(h, "mirror")
         ELSE Returns(h) /\ UNCHANGED holder
      /\ UNCHANGED <<vars, receipts, maker, exec, checked, sound, edited>>

\* Fault: the mirroring transaction does not look at the receipt.
MirrorClaim_Unchecked(h) ==
  LET r == cmd[h].of
      j == cmd[h].in
  IN  /\ Steps(h, "mirror")
      /\ receipt' = [receipt EXCEPT ![r] = Mirrored(@, j)]
      /\ Returns(h)
      /\ UNCHANGED <<vars, token, serves, filed, told, got, executions, edited>>

\* The claimer's process mirrors the execution it claimed, whatever the receipt names now.
MirrorClaim(h) ==
  LET r == cmd[h].of
      j == cmd[h].in
  IN  /\ Steps(h, "mirror")
      /\ receipt' = [receipt EXCEPT ![r] = IF Over(r) THEN @ ELSE Mirrored(@, j)]
      /\ Returns(h)
      /\ UNCHANGED <<vars, token, serves, filed, told, got, executions, edited>>

\* completeHuman computes the owner identity, and fails the execution if it changed.
CheckInput(h) ==
  LET j == cmd[h].in
  IN  /\ Steps(h, "submit")
      /\ IF owner[j] \in edited
         THEN /\ exec' = [exec EXCEPT ![j] = IF @ = "WAITING_HUMAN" THEN "ERROR" ELSE @]
              /\ Returns(h)
         ELSE Goes(h, "commit") /\ UNCHANGED exec
      /\ UNCHANGED <<vars, receipts, maker, holder, checked, sound, edited>>

\* The transaction that records the verdict looks again.
Judge(h) ==
  LET j == cmd[h].in
  IN  /\ Steps(h, "commit")
      /\ Returns(h)
      /\ IF Awaits(j) /\ holder[j] = h
         THEN /\ \E v \in Given : exec' = [exec EXCEPT ![j] = v]
              /\ sound' = IF owner[j] \in edited THEN sound ELSE sound \cup {j}
         ELSE UNCHANGED <<exec, sound>>
      /\ UNCHANGED <<vars, receipts, maker, holder, checked, edited>>

\* Bound: after the end of a process nothing is accepted from its workspace.
Edit(p) ==
  /\ p \in Editable \ edited /\ Alive(p)
  /\ edited' = edited \cup {p}
  /\ UNCHANGED <<vars, receipts, executions, cmd>>

-----------------------------------------------------------------------------
AttemptNext(c) ==
  \/ (\E r \in Receipts : Begin(c, r)) \/ Mirror(c)
  \/ FileResult(c) \/ FileError(c)
  \/ HitEntry(c) \/ JoinJob(c) \/ (\E j \in Jobs : CreateJob(c, j))
  \/ TakeResult(c) \/ CallStep(c)

ExecNext(j) ==
  \/ Notify(j) \/ Executed(j) \/ ExecutionFails(j)
  \/ Accept(j) \/ PublishChecked(j)

PersonNext(h) ==
  \/ \E r \in Receipts : Start(h, r, "claim") \/ Start(h, r, "submit")
  \/ Claim(h) \/ MirrorClaim(h) \/ CheckInput(h) \/ Judge(h)

SharedNext ==
  \/ \E c \in Calls : AttemptNext(c)
  \/ \E j \in Jobs : ExecNext(j)
  \/ \E r \in Receipts : CancelRun(r) \/ Reconcile(r) \/ Retry(r)
  \/ \E h \in People : PersonNext(h)
  \/ \E p \in Procs : Edit(p)
  \/ CacheStep

SharedSpec == SharedInit /\ [][SharedNext]_allVars

-----------------------------------------------------------------------------
(* Properties *)

\* projectRunState: what a reader of the execution's store is told of its verdict.
Shown(j) ==
  IF exec[j] \in Verdicts /\ Publication(j) # "accepted"
  THEN IF Publication(j) = "rejected" THEN "ERROR" ELSE "RUNNING"
  ELSE exec[j]

\* A receipt has a verdict only if its execution gave that verdict, the cache published
\* it, readers of the execution are shown it too, and it was given on a workspace that
\* had the identity: no hand-over, cancellation, crash or edit in between lets a
\* receipt keep the verdict of an execution that was not accepted.
VerdictShared ==
  \A r \in Receipts : receipt[r].status \in Verdicts =>
    LET j == receipt[r].source
    IN  /\ j # None
        /\ exec[j] = receipt[r].status
        /\ Shown(j) = receipt[r].status
        /\ j \in sound

\* What a Run reported of its review stays: neither a mirror on its way, nor a claim,
\* a late result or another execution touches a receipt that is terminal, except that
\* a failed one may be retried.
ReceiptFinal ==
  [][\A r \in Receipts : Over(r) =>
       \/ receipt'[r] = receipt[r]
       \/ receipt[r].status = "ERROR" /\ receipt'[r].status = "QUEUED"]_allVars
=============================================================================
