----------------------------- MODULE RunLifecycle -----------------------------
(***************************************************************************)
(* The life of one Run (src/src/broker/index.ts): a worker process claims  *)
(* it, executes its requests as their gates open, and settles it, while    *)
(* other processes read, cancel, retry and complete human reviews through  *)
(* the same broker.sqlite.  Every SQLite transaction is one action, every  *)
(* autocommitted read of the scheduling loop too.                          *)
(*                                                                         *)
(* Abstracted: gate counters and their propagation (what they amount to is *)
(* `Gated`), results beyond their verdict, the assignment of a review to a *)
(* person, leases (module Admission), and subscriptions to the identity    *)
(* cache: every request executes in this Run.                              *)
(***************************************************************************)
EXTENDS Naturals, FiniteSets

CONSTANTS
  Workers,     \* processes that call run(), one call at a time
  Requests,    \* the requests of the Run, one per selected critic
  Human,       \* those whose profile is human
  Needs,       \* gate_edges: the requests a request depends on
  Cap,         \* maxConcurrentExecutors
  Mortal,      \* bound: the workers that may end
  Sessions,    \* bound: calls of completeHuman or executeHumanTool at a time
  MaxRetries,  \* bound: calls of retryRequest
  None         \* no row in run_owners, no review in a session

ASSUME RunAssumption ==
  /\ Human \subseteq Requests
  /\ Needs \in [Requests -> SUBSET Requests]
  /\ \A S \in (SUBSET Requests) \ {{}} : \E r \in S : Needs[r] \cap S = {}
  /\ Cap \in Nat \ {0}
  /\ Mortal \subseteq Workers
  /\ MaxRetries \in Nat
  /\ None \notin Workers \cup Requests

VARIABLES
  \* broker.sqlite
  run,       \* runs.status
  status,    \* requests.status, which run_members.state equals
  notified,  \* the requests whose notifiedAt is set
  owner,     \* run_owners.token: the worker whose call of run() holds the Run
  \* processes
  alive,     \* whether a worker's process runs
  pc,        \* progress of its call of run()
  aborted,   \* whether the AbortController of that call is aborted
  task,      \* inFlight: progress of executeUncached for a request
  session,    \* the human request a person's call revalidates the workspace for
  retries    \* calls of retryRequest so far

db    == <<run, status, notified, owner>>
procs == <<alive, pc, aborted, task>>
vars  == <<db, procs, session, retries>>

Gates    == {"WAIT_DEPENDENCY", "BLOCKED"}
Open     == {"QUEUED", "RUNNING", "WAITING_HUMAN"} \cup Gates
Verdicts == {"GREEN", "RED"}
Statuses == Open \cup Verdicts \cup {"ERROR"}

Terminal == run \in Verdicts \cup {"ERROR", "INCOMPLETE"}

TypeOK ==
  /\ run \in {"QUEUED", "RUNNING", "WAITING_HUMAN", "INCOMPLETE", "ERROR"} \cup Verdicts
  /\ status \in [Requests -> Statuses]
  /\ notified \subseteq Human
  /\ owner \in Workers \cup {None}
  /\ alive \in [Workers -> BOOLEAN]
  /\ pc \in [Workers -> {"off", "starting", "loop", "select", "idle", "last", "settling"}]
  /\ aborted \in [Workers -> BOOLEAN]
  /\ task \in [Workers -> [Requests ->
       {"none", "admitting", "preparing", "executing", "alarming", "cleanup", "failing"}]]
  /\ session \in [Sessions -> Human \cup {None}]
  /\ retries \in 0..MaxRetries

-----------------------------------------------------------------------------
(* Readiness: what the transactions of readiness.ts amount to *)

\* The state of a request that is held by its gates, when the others are st.
GateState(st, r) ==
  IF \A d \in Needs[r] : st[d] = "GREEN" THEN "QUEUED"
  ELSE IF \E d \in Needs[r] : st[d] \in {"RED", "BLOCKED"} THEN "BLOCKED"
  ELSE "WAIT_DEPENDENCY"

\* What propagation makes of st: requests held by their gates follow them.
Gated(st) ==
  LET held == {r \in Requests : st[r] \in Gates}
      with(g) == [r \in Requests |-> IF r \in held THEN g[r] ELSE st[r]]
  IN {with(g) : g \in {g \in [held -> {"QUEUED"} \cup Gates] :
                         \A r \in held : g[r] = GateState(with(g), r)}}

\* updateRun: the status of a Run that is not terminal.
RunStatus(st) ==
  LET some(S) == \E r \in Requests : st[r] \in S IN
  IF some({"RUNNING"}) THEN "RUNNING"
  ELSE IF some({"QUEUED"}) THEN "QUEUED"
  ELSE IF some({"WAITING_HUMAN"}) THEN "WAITING_HUMAN"
  ELSE IF some({"ERROR"}) THEN "ERROR"
  ELSE IF some({"RED"}) THEN "RED"
  ELSE IF some(Gates) THEN "INCOMPLETE" ELSE "GREEN"

Init ==
  /\ status \in Gated([r \in Requests |-> "WAIT_DEPENDENCY"])
  /\ run = RunStatus(status)
  /\ notified = {}
  /\ owner = None
  /\ alive = [w \in Workers |-> TRUE]
  /\ pc = [w \in Workers |-> "off"]
  /\ aborted = [w \in Workers |-> FALSE]
  /\ task = [w \in Workers |-> [r \in Requests |-> "none"]]
  /\ session = [s \in Sessions |-> None]
  /\ retries = 0

-----------------------------------------------------------------------------
(* What the transactions do to the Run *)

\* saveHeader: a request takes a state, its dependents and the Run follow.
Save(r, state) ==
  /\ status' \in Gated([status EXCEPT ![r] = state])
  /\ run' = IF Terminal THEN run ELSE RunStatus(status')

\* finishWithin, by the worker w: a request that is in one of the expected
\* states of a Run that is not decided.
Expected(w, r, states) == owner = w /\ status[r] \in states /\ ~Terminal
\* Fault: what the task found out is recorded whatever became of the request.
Finish_Late(w, r, outcome, states) ==
  IF owner = w THEN Save(r, outcome) ELSE UNCHANGED <<run, status>>

Finish(w, r, outcome, states) ==
  IF Expected(w, r, states) THEN Save(r, outcome) ELSE UNCHANGED <<run, status>>

\* failWithin: the Run and whatever of it is still open end in ERROR.
FailWithin ==
  IF Terminal THEN UNCHANGED <<run, status>>
  ELSE /\ run' = "ERROR"
       /\ status' = [r \in Requests |-> IF status[r] \in Open THEN "ERROR" ELSE status[r]]

FailOwned(w) == IF owner = w THEN FailWithin ELSE UNCHANGED <<run, status>>

-----------------------------------------------------------------------------
(* The call of run() in a worker *)

InFlight(w) == {r \in Requests : task[w][r] # "none"}

\* A turn of the loop awaits nothing, so nothing else of its process runs then.
Yields(w) == pc[w] \notin {"select", "idle", "last"}

\* The worker takes the Run over.  A Run that is decided or owned is refused,
\* one whose owner died is failed first (Reconcile).
Claim(w) ==
  /\ alive[w] /\ pc[w] = "off"
  /\ ~Terminal /\ owner = None
  /\ owner' = w
  /\ pc' = [pc EXCEPT ![w] = "starting"]
  /\ aborted' = [aborted EXCEPT ![w] = FALSE]
  /\ UNCHANGED <<run, status, notified, alive, task, session, retries>>

\* The catch of run(): abort what is in flight, fail the Run if it is still ours.
Catch(w) ==
  /\ aborted' = [aborted EXCEPT ![w] = TRUE]
  /\ FailOwned(w)
  /\ pc' = [pc EXCEPT ![w] = "settling"]
  /\ UNCHANGED <<notified, owner, alive, task, session, retries>>

Moves(w, to) ==
  /\ pc' = [pc EXCEPT ![w] = to]
  /\ UNCHANGED <<db, alive, aborted, task, session, retries>>

Reopened(w)    == pc[w] = "starting" /\ ~aborted[w] /\ Moves(w, "loop")
ReopenFails(w) == pc[w] = "starting" /\ Catch(w)

\* One turn of the scheduling loop reads the Run's status, ...
LoopEnds(w) ==
  /\ pc[w] = "loop" /\ Terminal
  /\ aborted' = [aborted EXCEPT ![w] = aborted[w] \/ InFlight(w) # {}]
  /\ pc' = [pc EXCEPT ![w] = "settling"]
  /\ UNCHANGED <<db, alive, task, session, retries>>
LoopAborted(w) == pc[w] = "loop" /\ ~Terminal /\ aborted[w] /\ Catch(w)
LoopGoesOn(w)  == pc[w] = "loop" /\ ~Terminal /\ ~aborted[w] /\ Moves(w, "select")

\* ... then a bounded number of its queued requests, and starts every review by
\* a person among them and as many executors as the local cap leaves room for.
Select(w) ==
  /\ pc[w] = "select"
  /\ \E seen \in SUBSET {r \in Requests : status[r] = "QUEUED"} :
       LET queued == {r \in Requests : status[r] = "QUEUED"}
           limit  == Cap + Cardinality(InFlight(w)) + 1
           room   == Cap - Cardinality(InFlight(w) \ Human)
           new    == seen \ InFlight(w)
       IN /\ Cardinality(seen) = limit \/ (seen = queued /\ Cardinality(seen) < limit)
          /\ \E agents \in SUBSET (new \ Human) :
               /\ Cardinality(agents) = room \/ (agents = new \ Human /\ Cardinality(agents) < room)
               /\ LET launched == agents \cup (new \cap Human)
                  IN /\ task' = [task EXCEPT ![w] = [r \in Requests |->
                                   IF r \in launched THEN "admitting" ELSE task[w][r]]]
                     /\ pc' = [pc EXCEPT ![w] =
                                 IF launched \cup InFlight(w) = {} THEN "idle" ELSE "loop"]
  /\ UNCHANGED <<db, alive, aborted, session, retries>>

\* With nothing in flight it looks for a review that waits for a person, ...
Idle(w) ==
  LET waiting == {r \in Requests : status[r] = "WAITING_HUMAN"} IN
  /\ pc[w] = "idle"
  /\ IF waiting = {} THEN Moves(w, "last")
     ELSE \E r \in waiting : IF r \in notified THEN Moves(w, "loop") ELSE Catch(w)

\* ... and without one the Run must have been decided: else REVIEW_GRAPH_INVALID.
Last(w) ==
  /\ pc[w] = "last"
  /\ IF Terminal THEN Moves(w, "settling") ELSE Catch(w)

\* Fault: the Run is given up while tasks still wind down.
Settle_Early(w) ==
  /\ pc[w] = "settling"
  /\ owner' = IF owner = w THEN None ELSE owner
  /\ pc' = [pc EXCEPT ![w] = "off"]
  /\ UNCHANGED <<run, status, notified, alive, aborted, task, session, retries>>

\* Fault: the row in run_owners is left behind.
Settle_Kept(w) ==
  /\ pc[w] = "settling" /\ InFlight(w) = {}
  /\ Moves(w, "off")

\* The finally of run(): when every task has settled, the Run is given up.
Settle(w) ==
  /\ pc[w] = "settling" /\ InFlight(w) = {}
  /\ owner' = IF owner = w THEN None ELSE owner
  /\ pc' = [pc EXCEPT ![w] = "off"]
  /\ UNCHANGED <<run, status, notified, alive, aborted, task, session, retries>>

\* The interval of run(): the Run was lost, or decided by somebody else.
Poll(w) ==
  /\ pc[w] = "loop" /\ ~aborted[w]
  /\ owner # w \/ Terminal
  /\ aborted' = [aborted EXCEPT ![w] = TRUE]
  /\ UNCHANGED <<db, alive, pc, task, session, retries>>

\* SIGTERM, close() or a change the workspace observer saw.
Stop(w) ==
  /\ pc[w] # "off" /\ Yields(w) /\ ~aborted[w]
  /\ aborted' = [aborted EXCEPT ![w] = TRUE]
  /\ UNCHANGED <<db, alive, pc, task, session, retries>>

Exit(w) ==
  /\ w \in Mortal /\ alive[w]
  /\ alive' = [alive EXCEPT ![w] = FALSE]
  /\ pc' = [pc EXCEPT ![w] = "off"]
  /\ task' = [task EXCEPT ![w] = [r \in Requests |-> "none"]]
  /\ UNCHANGED <<db, aborted, session, retries>>

-----------------------------------------------------------------------------
(* executeUncached: the task of a request *)

Becomes(w, r, stage) ==
  /\ Yields(w)
  /\ task' = [task EXCEPT ![w][r] = stage]
  /\ UNCHANGED <<owner, alive, pc, session, retries>>

\* Admitted, the request is marked RUNNING; if it is not there to be started,
\* RUN_OWNERSHIP_LOST ends the whole call.
Begin(w, r) ==
  /\ task[w][r] = "admitting" /\ ~aborted[w]
  /\ IF owner = w /\ status[r] = "QUEUED"
     THEN Becomes(w, r, "preparing") /\ Save(r, "RUNNING")
     ELSE Becomes(w, r, "failing") /\ UNCHANGED <<run, status>>
  /\ UNCHANGED <<notified, aborted>>

\* The fence before the executor: ordered with cancellation by the write lock.
Start(w, r) ==
  /\ task[w][r] = "preparing" /\ r \notin Human /\ ~aborted[w]
  /\ Becomes(w, r, IF Expected(w, r, {"RUNNING"}) THEN "executing" ELSE "failing")
  /\ UNCHANGED <<run, status, notified, aborted>>

\* A review by a person waits from before its alarm is delivered ...
Alarm(w, r) ==
  /\ task[w][r] = "preparing" /\ r \in Human
  /\ IF status[r] = "RUNNING"
     THEN Becomes(w, r, "alarming") /\ Save(r, "WAITING_HUMAN")
     ELSE Becomes(w, r, "failing") /\ UNCHANGED <<run, status>>
  /\ UNCHANGED <<notified, aborted>>

\* ... and can be claimed once it was.
Notified(w, r) ==
  /\ task[w][r] = "alarming" /\ r \in Human /\ ~aborted[w]
  /\ notified' = notified \cup (IF status[r] = "WAITING_HUMAN" THEN {r} ELSE {})
  /\ Becomes(w, r, "cleanup")
  /\ UNCHANGED <<run, status, aborted>>

Decide(w, r) ==
  /\ task[w][r] = "executing" /\ ~aborted[w]
  /\ \E v \in Verdicts : Finish(w, r, v, {"RUNNING", "WAITING_HUMAN"})
  /\ Becomes(w, r, "cleanup")
  /\ UNCHANGED <<notified, aborted>>

\* A failure of admission, preparation, executor or alarm is the request's own.
TaskError(w, r) ==
  /\ task[w][r] \in {"admitting", "preparing", "executing", "alarming"} /\ ~aborted[w]
  /\ task[w][r] = "admitting" => r \notin Human
  /\ Finish(w, r, "ERROR", IF task[w][r] = "admitting" THEN {"QUEUED"}
                           ELSE {"RUNNING", "WAITING_HUMAN"})
  /\ Becomes(w, r, "cleanup")
  /\ UNCHANGED <<notified, aborted>>

\* A change of the workspace, or the abort of the call, is not.
TaskFatal(w, r) ==
  /\ \/ task[w][r] \in {"preparing", "executing", "alarming"}
     \/ task[w][r] = "admitting" /\ aborted[w]
  /\ Becomes(w, r, "failing")
  /\ UNCHANGED <<run, status, notified, aborted>>

\* Leases are released; a fatal failure then aborts the call.
TaskDone(w, r) ==
  /\ task[w][r] \in {"cleanup", "failing"}
  /\ aborted' = [aborted EXCEPT ![w] = aborted[w] \/ task[w][r] = "failing"]
  /\ Becomes(w, r, "none")
  /\ UNCHANGED <<run, status, notified>>

-----------------------------------------------------------------------------
(* Other processes *)

\* completeHuman and executeHumanTool: what the claimant asks for is checked,
\* the workspace is revalidated, and everything is checked again.
Submit(s, r) ==
  /\ session[s] = None
  /\ status[r] = "WAITING_HUMAN" /\ r \in notified
  /\ session' = [session EXCEPT ![s] = r]
  /\ UNCHANGED <<db, procs, retries>>

\* Fault: the status read before the workspace was revalidated is trusted.
CommitSubmit_Stale(s) ==
  LET r == session[s] IN
  /\ r # None
  /\ IF owner # None /\ alive[owner] THEN \E v \in Verdicts : Save(r, v)
     ELSE UNCHANGED <<run, status>>
  /\ session' = [session EXCEPT ![s] = None]
  /\ UNCHANGED <<notified, owner, procs, retries>>

CommitSubmit(s) ==
  LET r == session[s] IN
  /\ r # None
  /\ IF status[r] = "WAITING_HUMAN" /\ owner # None /\ alive[owner]
     THEN \E v \in Verdicts : Finish(owner, r, v, {"WAITING_HUMAN"})
     ELSE UNCHANGED <<run, status>>
  /\ session' = [session EXCEPT ![s] = None]
  /\ UNCHANGED <<notified, owner, procs, retries>>

SubmitInvalid(s) ==
  /\ session[s] # None
  /\ IF status[session[s]] = "WAITING_HUMAN" THEN FailWithin ELSE UNCHANGED <<run, status>>
  /\ session' = [session EXCEPT ![s] = None]
  /\ UNCHANGED <<notified, owner, procs, retries>>

\* cancel by the process p; a call of run() in that process is aborted at once.
Cancel(p) ==
  /\ ~Terminal
  /\ p # None => alive[p] /\ Yields(p)
  /\ FailWithin
  /\ aborted' = [w \in Workers |-> aborted[w] \/ (w = p /\ pc[w] # "off")]
  /\ UNCHANGED <<notified, owner, alive, pc, task, session, retries>>

\* failRun: no worker could be started for the Run.
FailRun ==
  /\ ~Terminal /\ owner = None
  /\ FailWithin
  /\ UNCHANGED <<notified, owner, procs, session, retries>>

\* reconcileWithin: whoever reads a Run whose worker ended fails it.
Reconcile ==
  /\ owner # None /\ ~alive[owner]
  /\ FailWithin
  /\ owner' = None
  /\ UNCHANGED <<notified, procs, session, retries>>

\* Fault: the request is queued whatever its gates say.
Retry_Ungated(r) ==
  /\ retries < MaxRetries
  /\ status[r] = "ERROR" /\ owner = None
  /\ status' \in Gated([status EXCEPT ![r] = "QUEUED"])
  /\ run' = RunStatus(status')
  /\ retries' = retries + 1
  /\ UNCHANGED <<notified, owner, procs, session>>

\* retryRequest: the failed request goes back behind its gates.
Retry(r) ==
  /\ retries < MaxRetries
  /\ status[r] = "ERROR" /\ owner = None
  /\ status' \in Gated([status EXCEPT ![r] = GateState(status, r)])
  /\ run' = RunStatus(status')
  /\ retries' = retries + 1
  /\ UNCHANGED <<notified, owner, procs, session>>

-----------------------------------------------------------------------------
Loop(w) == Reopened(w) \/ LoopEnds(w) \/ LoopAborted(w) \/ LoopGoesOn(w) \/ Select(w)
           \/ Idle(w) \/ Last(w) \/ Settle(w)
Task(w, r) == Begin(w, r) \/ Start(w, r) \/ Alarm(w, r) \/ Notified(w, r) \/ Decide(w, r)
              \/ TaskError(w, r) \/ TaskFatal(w, r) \/ TaskDone(w, r)

Next ==
  \/ \E w \in Workers : \/ Claim(w) \/ ReopenFails(w) \/ Loop(w)
                        \/ Poll(w) \/ Stop(w) \/ Exit(w)
                        \/ \E r \in Requests : Task(w, r)
  \/ \E s \in Sessions : \/ \E r \in Human : Submit(s, r)
                         \/ CommitSubmit(s) \/ SubmitInvalid(s)
  \/ \E p \in Workers \cup {None} : Cancel(p)
  \/ FailRun \/ Reconcile
  \/ \E r \in Requests : Retry(r)

Spec == Init /\ [][Next]_vars

\* The event loop of a live worker runs; every turn that goes on ends in a delay,
\* in which the timer fires and some task resumes; and what tasks await ends: an
\* admission, an executor (it has a timeout and honours the signal), an alarm.
\* A person, a signal or a reader may never come.
FairSpec ==
  /\ Spec
  /\ \A w \in Workers : /\ WF_vars(ReopenFails(w) \/ Loop(w))
                        /\ SF_vars(Poll(w))
                        /\ SF_vars(\E r \in Requests : Task(w, r))

-----------------------------------------------------------------------------
(* Properties *)

\* Work for a Run is in flight only in the worker that holds its row in
\* run_owners: no second worker, and no retry, while a task of a call of run()
\* has not settled.
OwnedWork == \A w \in Workers : InFlight(w) # {} => owner = w

\* A Run nobody holds, unless it is decided, has nothing running and nobody
\* waiting: what a worker left was failed, so the next one starts from gates.
UnownedRunIsIdle ==
  owner = None /\ ~Terminal =>
    \A r \in Requests : status[r] \notin {"RUNNING", "WAITING_HUMAN"}

\* A decided Run has no request a worker would start, run or wait for.
DecidedRunIsIdle ==
  Terminal => \A r \in Requests : status[r] \notin {"QUEUED", "RUNNING", "WAITING_HUMAN"}

\* Nothing is left running or waiting by a worker that is gone, for a Run that
\* somebody else may yet claim or that is over.
NothingOrphaned == UnownedRunIsIdle /\ DecidedRunIsIdle

\* What is in flight has an owner, and what has no owner is not in flight.
WorkIsOwned == OwnedWork /\ NothingOrphaned

\* A request is started, waits for a person or has a verdict only when all it
\* depends on is GREEN, whatever was failed and retried in between.
GatesRespected ==
  \A r \in Requests : status[r] \in {"QUEUED", "RUNNING", "WAITING_HUMAN"} \cup Verdicts
    => \A d \in Needs[r] : status[d] = "GREEN"

\* The inductive invariant: a call of run() holds the row and its process lives,
Calling ==
  \A w \in Workers : /\ pc[w] # "off" => owner = w /\ alive[w]
                     /\ InFlight(w) # {} => pc[w] # "off"

\* and it only winds down when the Run is decided.
SettlesDecided == \A w \in Workers : pc[w] = "settling" => Terminal

IInv ==
  /\ TypeOK
  /\ Calling
  /\ SettlesDecided
  /\ UnownedRunIsIdle
  /\ DecidedRunIsIdle
  /\ GatesRespected

\* A verdict, by an executor or a person, is never replaced: by a competing
\* submission, a cancellation, a failure of the Run, or a retry of another request.
VerdictIsFinal ==
  [][\A r \in Requests : status[r] \in Verdicts => status'[r] = status[r]]_vars

\* Nothing late is recorded in a decided Run: the only change it sees is a
\* failed request going back behind its gates.
NothingLate ==
  [][Terminal => \A r \in Requests :
       status'[r] = status[r] \/ status'[r] \in {"QUEUED"} \cup Gates]_vars

\* A live worker that holds a Run gives it up, or has told a person to review.
RunSettles ==
  \A w \in Workers :
    owner = w /\ alive[w] ~>
      \/ owner # w \/ ~alive[w]
      \/ \E r \in notified : status[r] = "WAITING_HUMAN"

\* "Run has no executable request or pending Human review." (index.ts:732): the
\* loop reaches the end of its turn only when that is so.
NothingLeftToDo ==
  \A w \in Workers : pc[w] = "last" /\ ~Terminal =>
    \A r \in Requests : status[r] \notin {"QUEUED", "WAITING_HUMAN"}
=============================================================================
