# A formal model of CCDD's concurrent core

CCDD reviews a workspace: *critics* (language models or people) judge
*artifacts*, and the verdicts are kept so that an unchanged input is never
reviewed twice.  There is no server.  Every command, every detached worker and
every monitor is an operating system process of its own, and all of them meet in
three kinds of SQLite databases:

| store | opened by | what it serialises |
|---|---|---|
| `broker.sqlite`, one per state directory | `src/src/broker/` | Runs, requests, gates, ownership of a Run by a worker |
| `cache.sqlite`, one per machine user | `src/src/cache/` | results by explicit identity, shared computations |
| `resources.sqlite`, one per machine user | `src/src/resources.ts`, `provider-coordinator.ts` | capacity, FIFO lanes, budgets, cooldowns of providers |

Nothing else coordinates the processes, so correctness rests on short
transactions, on fences between them, and on what a process remembers across an
`await`.  That is what the modules model: **one SQLite transaction is one
action**; everything a process does between two awaits is one action, unless
another process can commit in between; processes may end between any two actions.

All paths are relative to the repository, whose sources are in `src/`.

1. [Modules](#modules)
2. [Inventory](#inventory): the components, their state, what is hard, when they are correct
3. [How the modules correspond to the code](#how-the-modules-correspond-to-the-code)
4. [Runs](#runs), their bounds and fairness
5. [Proofs](#proofs)
6. [What is only model-checked](#what-is-only-model-checked)
7. [Where the code disagrees with its documents](#where-the-code-disagrees-with-its-documents)
8. [What is not modelled](#what-is-not-modelled)
9. [Plan](#plan)

## Modules

| module | models | extends | checked by | proved in |
|---|---|---|---|---|
| `IdentityCache` | the shared store of results | | `CacheSharing` | `CacheProofs` |
| `SharedExecution` | reviews of several Runs that share one execution | `IdentityCache` | `Receipts` | `CacheProofs` |
| `Admission` | leases on the machine's lanes and budgets | | `AdmissionLine` | `AdmissionProofs` |
| `RunLifecycle` | one Run, its workers and its sessions | | `RunLife`, `RunStaleRead` | `LifecycleProofs` |
| `HumanReview` | assignment of a review to a person | `RunLifecycle` | `ReviewAssignment` | `LifecycleProofs` |
| `Prune` | removal of scratch directories beside both | `HumanReview` | `ReviewAssignment` | `LifecycleProofs` |
| `InputBoundary` | what a workspace handle promises (abstract) | | `WorkspaceBoundary` | `WorkspaceObserverProofs` |
| `WorkspaceObserver` | the scans that keep the promise | instance of `InputBoundary` | `WorkspaceBoundary` | `WorkspaceObserverProofs` |
| `AgentReview` | an agent's turns, retries, budgets and deadline | | `AgentLane` | `AgentReviewProofs` |
| `ProjectQuery` | pure operators: closure, gates, evidence, plan | | with the next two | with the next two |
| `Readiness` | counters of several Runs of one store, and the view a reader gets | `ProjectQuery` | `SharedRuns`, `StoredView` | `ReadinessProofs` |
| `Planning` | the requester's loop over all small graphs | `ProjectQuery` | `PlanGraphs` | `PlanningProofs` |
| `Tarjan` | the search for strongly connected components, which the runs use | | with the last two | |
| `Release` | publication of one version by several publishers | | `Release` | `ReleaseProofs` |

The modules `MC...` give the constants their values for TLC.  Compositions are by
extension: a step of `SharedExecution`, `HumanReview` or `Prune` is a step of the
module below it with more said about it, or leaves that module's state alone, and
the proofs show that.

In several modules an operator such as `Prunable_Owned` or `Gated_Direct` has the
comment `Fault:`.  It is the body a plausible slip would have given the definition
that follows.  No specification uses it; it is kept to show which property
notices the slip (`mutants` in `PROJECT.json`).

## Inventory

### Identity cache (`src/src/cache/index.ts`)

* State: `cache_entries` (identity -> result), `cache_active` (identity -> the one
  job callers may join), `cache_jobs`, `cache_subscribers`,
  `cache_execution_storage`; the directory `executions/`; in each process the
  promises and abort controllers of the jobs it computes, the failures and
  detaches it could not write yet, the batch of a running storage retirement.
* Operations: `compute` (hit, join, create, wait, detach), the task of a job
  (`start`, publication, failure), `maintain`, `gc`, `retireStorage`, `delete`,
  `close`.
* Interaction: the broker calls `compute` with a callback that runs a whole
  nested Run; other processes are seen only through the store and through
  `ownerAlive` (`src/src/broker/ownership.ts`); readers of the audit ask
  `executionPublication` (`src/src/project/publication.ts`).
* Hard: every pair of transactions of two processes; owners that die, shut down
  or cannot write; abandonment racing a new subscriber; retirement racing both.
* Correct when: one identity has one computation callers share and one result;
  no waiter is stranded; nothing that somebody still needs is removed.

### Cache-backed execution (`executeOne`, `mirrorExecution`, `claimHuman` and `completeHuman` of a peer)

* State: the receipt of a request (status, the execution it follows, the copied
  claim), the execution's own store, the token a person holds.
* Operations: begin an attempt, mirror, file a result or an error, claim and judge
  through a receipt, cancel, reconcile, retry; the execution itself, checked and
  accepted before it is published.
* Hard: hand-over to a replacement execution, mirrors older than the receipt,
  people who judge from a third process, edits of the workspace in between.
* Correct when: a receipt has exactly the verdict the cache published, given on a
  workspace with the identity asked for, and a terminal receipt stays.

### Machine admission (`src/src/resources.ts`)

* State: `submissions` (budget), `resource_leases` (FIFO ticket, then slot),
  `execution_attempts`, `resource_children`; per process the waiters of a lane
  (`pendingByLane`).
* Operations: `registerSubmission`, `acquire`, `started`, `trackChild`,
  `terminal`, `release`, `reclaim`.
* Interaction: `executeUncached` in the broker holds a lease around every
  execution that is not done by a person; `computeOwnerIdentity` holds a weighted
  one around every identity script.
* Hard: capacity across processes, crashes with child processes left running,
  refunds, FIFO with caps that couple lanes, cancellation while waiting.
* Correct when: no cap is exceeded, no live holder loses its slot, no budget is
  lost or spent twice, no waiter waits for ever.

### Run lifecycle (`src/src/broker/index.ts`)

* State: `runs`, `requests`, `run_owners`; in a worker the Run's abort
  controller, the requests in flight, the polling timer.
* Operations: `run` (claim, scheduling loop, settlement), `executeUncached`,
  `completeHuman`, `cancel`, `failRun`, `retryRequest`, `reconcile`, `close`.
* Hard: cancellation by another process against the start and the result of an
  execution, worker death, retries while an old worker settles.
* Correct when: one worker executes a Run, nothing starts after a Run is
  terminal, a verdict is final, and a canceled or orphaned Run can be retried.

### Human review (`src/src/broker/human-claims.ts`, `claimHuman`, `executeHumanTool`) and prune (`src/src/project/prune.ts`)

* State: the preparation lease, the claim and the attempt of a request; the
  scratch directories, and the candidates a pruning process has read.
* Operations: try a claim, heartbeat, prepare, confirm, release, open a session;
  prune decides about each request in a transaction of its own.
* Hard: leases that expire while checks run, two reviewers, completion racing
  cancellation and the death of the monitoring worker, a retry between the list
  prune read and its decision.
* Correct when: the monitor shows the preparation that really goes on, only the
  person a review is assigned to decides it, and prune takes the files of nobody
  who still works.

### Workspace observer (`src/src/workspaces/index.ts`)

* State: the baseline, the scan in progress with the generation it began in, the
  poll timer, the boundaries that wait, the signal.
* Operations: `initialize` (two scans that must agree, or a descriptor),
  `check`, `assertUnchanged`, the watcher, `scheduleMetadataPoll`, `close`.
* Hard: entries are read one by one beside edits; several callers share one
  traversal; a metadata scan may not serve who needs contents; a close queues
  behind a scan.
* Correct when: the baseline is the tree of one moment, a boundary is accepted
  only if the tree was the baseline when it was asked for, a change is noticed
  even when its event is lost, a closed handle reads nothing.

### Provider recovery and the agent's loop (`src/src/executors/provider-recovery.ts`, `provider-coordinator.ts`, `pi.ts`)

* State: a turn (attempt, whether content arrived), the review's tool calls and
  tokens, its deadline; the lane of an account in `resources.sqlite` (until when,
  blocked).
* Operations: wait at the gate, deliver, fail and retry, defer, block, resume;
  tool calls, end of a turn, the final answer with its one repair, abort.
* Hard: retries may never repeat what was delivered, cooldowns come from other
  processes between the look at the lane and the request, the write of an answer
  may fail, a budget or deadline may end the loop anywhere.
* Correct when: a verdict is about the baseline and within budgets, no delivered
  turn is asked for again, no attempt ignores what was written to the lane before
  it, everything ends.

### Readiness and gates (`src/src/broker/readiness.ts`, `src/src/project/gates.ts`, `src/src/broker/graph.ts`)

* State: `run_members`, `gate_edges`, `gate_counts`, `run_counts`.
* Operations: `initialize`, `transition` with `setMember` and `propagate`,
  `refresh`, `updateRun`; all inside the transaction of a broker operation.
* Hard: incremental counters over a graph, cascades, evidence from other Runs.
* Correct when: counters are exact, a Run that is not decided has something to do,
  and the stored state agrees with what a reader computes anew.

### Project evaluation (`src/src/project/query.ts`, `index.ts`, `store.ts`, `cache-evidence.ts`)

* State: none of its own; it reads the configuration, the broker's store and the
  cache, and answers with states of critics, satisfaction and a plan.
* Hard: cycles of artifacts, evidence that was evicted or is for other material,
  selections, an artifact nobody reviews.
* Correct when: a selection is satisfied only by GREEN verdicts on the present
  material, and the plan leaves no dead end.

### Release scripts (`src/scripts/npm-release.mjs`, `npm-announcement.mjs`, `publish-ci.mjs`, `local-release.mjs`)

* State: the registry, the tag and the announcement, all external; where in its
  program each publisher is.
* Hard: nothing is one transaction, publishers are cut anywhere and rerun, two
  commits may carry the same version.
* Correct when: what users can install is never a mixture, and what is announced
  is whole and from the tagged commit.

### Worker process (`src/src/worker.ts`, `src/src/worker-client.ts`)

Its signal handler, its call of `run` and the `failRun` after a failed start are
actions of `RunLifecycle`; the detached start and the readiness message are not
modelled.

The remaining components keep no state that several actors share; see
[What is not modelled](#what-is-not-modelled).

## How the modules correspond to the code

### `IdentityCache`

A *call* is one `compute(identity, execute)`; a *job* is the execution id it may
draw.  `entry`, `active`, `row`, `sub`, `claim` are the tables, `dir` the
directory, the other variables are memory of a process and vanish with it.

| actions | code |
|---|---|
| `Hit`, `Join`, `Create` | the attaching transaction, with the takeover of a dead owner's job |
| `ObserveFailure`, `ObserveResult`, `ObserveOwnerExit`, `Detach`, `DetachBusy`, `FlushDetach`, `Cancel` | the waiting loop of `compute`, `detach`, `pendingDetaches` |
| `ExecuteDone`, `ExecuteFails`, `Publish`, `PublishRefused`, `PublishFailure`, `FailureBusy`, `Settle` | the task created by `start` |
| `ScanUnsubscribed`, `Fence`, `AbortFenced` | `maintain` over the jobs the process owns |
| `Reap`, `Collect` | `reapSubscribers`, the transaction of `gc` |
| `RetireClaim`, `RetireRename`, `RetireFinish`, `RetireFails` | `retireStorage` |
| `Close`, `DrainExpires`, `Closed` | `close` and its repetition |
| `Delete`, `Exit` | `delete`; the end of a process |

A transaction that meets a busy writer and succeeds later is the action taken
later.  Giving up after 5 s is an action of its own (`FailureBusy`,
`DetachBusy`, `RetireFails`).  Results are represented by the execution that made
them; an oversized result is one that is published without an entry.  Two
defensive branches are left out because no behaviour reaches them: a waiter that
finds its job gone (`src/src/cache/index.ts:433`) is excluded by `WaitersServed`,
an owner that finds its row gone while it computes (lines 237 and 238) by
`RunningHasTask`; both are proved.

### `SharedExecution`

Adds to `IdentityCache` the receipts of Runs, the stores of executions and the
people.  A call of `compute` is one attempt at its receipt, a job one execution.

| actions | code |
|---|---|
| `Begin`, `HitEntry`, `JoinJob`, `CreateJob`, `TakeResult`, `FileResult`, `FileError` | `executeOne`: the attempt, what `compute` does in it (with `onState`), and the transaction that files the outcome |
| `Mirror` | `mirrorExecution`, `copyExecutionState` |
| `Notify`, `Executed`, `ExecutionFails`, `Accept`, `PublishChecked` | the nested Run of the creator, the check that the workspace still has the identity, publication |
| `Start`, `Claim`, `MirrorClaim`, `CheckInput`, `Judge` | `claimHuman` and `completeHuman` with `humanPeer` and `ownerInput` |
| `CancelRun`, `Reconcile`, `Retry` | the operations of these names |
| `CacheStep`, `CallStep` | what the cache does by itself: waiting, failures, maintenance, reaping, death; eviction, retirement, deletion and close are `IdentityCache`'s alone |

Abstracted: of the mirrored fields the claim stands for all; a mirror reads the
execution and writes the receipt in one step (the read only matters through the
fields written); `onState` is one step with the attaching transaction; an edited
workspace stays edited; `sound` is a history variable.  A call leaves by
cancellation only when its attempt is stopped.

### `Admission`

A *lease* is one `acquire` and what its holder does with it.  `Enqueue` to
`WithdrawFails` are `acquire` with its cancellation and its catch block; `Start`,
`TrackChild`, `End`, `MarkReleasing`, `Release` (and `MarkFails`,
`ReleaseFails`, when a statement stays busy or a child cannot be killed in time)
are the lease's methods in the order `executeUncached` calls them; `Reclaim` is
the reclaim that any process runs on its way, and it is also part of `Enqueue`.
One rule, `FitsLane`, serves weighted identity scripts and providers, whose
requests weigh 1.

### `RunLifecycle`

One Run, the processes that call `run()` for it, and everybody else who opens the
same `broker.sqlite`.  `run`, `status`, `notified` and `owner` are what the store
holds of it; `pc`, `aborted` and `task` are a worker's call of `run()`, its abort
controller and the progress of `executeUncached` for each request in flight;
`session` is a person's result between the first check and the commit.

| actions | code |
|---|---|
| `Claim`, `Reopened`, `ReopenFails` | the claiming transaction of `run`, `reopenWorkspace` |
| `LoopEnds`, `LoopAborted`, `LoopGoesOn`, `Select`, `Idle`, `Last` | one turn of the scheduling loop, cut at its autocommitted reads |
| `Poll`, `Stop` | the 100 ms interval; signals, `close` and the workspace observer |
| `Catch` (part of others), `Settle` | the `catch` and the `finally` of `run` |
| `Begin`, `Start`, `Alarm`, `Notified`, `Decide`, `TaskError`, `TaskFatal`, `TaskDone` | `executeUncached` from admission to the release of its leases |
| `Submit`, `CommitSubmit`, `SubmitInvalid` | `completeHuman`, and the failure of `executeHumanTool` |
| `Cancel`, `FailRun`, `Reconcile`, `Retry` | the operations of these names; `Retry` is `retryRequest` |
| `Exit` | the end of a worker |

A turn of the loop awaits nothing, so nothing else of its own process runs
between its reads (`Yields`), but other processes commit there.  `Gated` is what
the gate counters amount to after a transaction: requests held by their gates
take the state their dependencies give them.  It is a set, of one element for an
acyclic graph, so that the module needs no recursive operator.

Abstracted: results beyond their verdict, leases, subscriptions to the identity
cache and to requests of other Runs (every request executes in this one, so the
waiting for other Runs' requests and its deadline are absent), members without a
request, and diagnostics.  Failures while a worker closes its workspace are absent
because they change nothing: the Run is decided by then (`SettlesDecided`).

### `HumanReview` and `Prune`

`tryClaim` and `claimedBy` are columns of the request, `record` is the attempt the
monitor reads, `call` is where a call of `claimHuman` is, and `lapsed` the leases
that ran out: time is abstracted, a lease may end whenever its heartbeat is late.

| actions | code |
|---|---|
| `TryClaim`, `Lapse`, `HeartbeatFails`, `Confirm`, `Release` | `begin`, `renew`, `confirm`, `release` of `human-claims.ts` |
| `Prepare`, `ChecksFail` | `prepareHumanReview`, its failure |
| `ReviewerExits` | the end of the reviewer's process |
| `RunStep`, with `Opens` | any step of `RunLifecycle`; a session opens to the assigned reviewer only |
| `PruneStart`, `Move`, `MoveFails` | `prune`: reading the candidates, then one transaction each |
| `Work` | any step of the above; work that starts makes directories |

### `InputBoundary` and `WorkspaceObserver`

`InputBoundary` is the promise: a boundary is accepted only if the input still was
the baseline when it was asked for; refusing is always allowed; every call is
answered.  `WorkspaceObserver` implements it.  A file is a pair of versions, of
its metadata and its contents; an edit moves the second, and the first too unless
it is silent.

| actions | code |
|---|---|
| `BeforeEnds`, `BaselineEnds`, `OpeningTorn`, `OpeningFails` | `initialize`, two scans or one against a descriptor |
| `ScanEntry`, `StartScan`, `ScanFindsChange`, `ScanFails`, `Complete`, `ScanAgain`, `ScanEnds` | `inspect` and `check`, entry by entry |
| `AssertUnchanged`, `Resume` | a boundary of the owner; its continuation after a scan |
| `FileEvent`, `Poll`, `Cancel` | watcher, metadata poll, external signal |
| `Close`, `CloseEnds` | `close`, before and after the drain |
| `Edit` | another process writes to the tree |

Executions that the cache owns skip the boundaries of the Run they serve; they are
checked by their own identity (`CheckInput` of `SharedExecution`).  Hashing and
exclusion rules are abstracted, as is `captureExecution`.

### `AgentReview`

`lane` is the account's row in `resources.sqlite`, `told` the history of all that was
written to it since an operator last resumed the account, `review` the executions,
each in a process of its own.

| actions | code |
|---|---|
| `Start`, `Finish`, `Stop`, `Fail` | `executeUncached` around `invokePi`, its deadline and abort |
| `BeginTurn`, `Gate`, `Ask`, `Deliver`, `TurnFails`, `Retry` | `recoveringProviderStream`: the attempt begins, `wait` looks at the row, the request goes out, content arrives, the turn fails, the delay is over |
| `Block`, `Defer`, `LaneBusy` | `block` and `defer` write what was answered, and decide about a retry after the write; the row stays locked for five seconds, and the turn fails |
| `ToolCall`, `BatchEnds`, `TurnEnds`, `Mismatch`, `ReadFinal` | the loop of `pi.ts`, its budgets and its one repair |
| `Resume` | `resumeProvider`, by an operator |
| `Change`, `Tick` | an edit of the input, the clock |

Each of these awaits the one before it, so other processes write to the row between
the look and the request, and between the answer and its write; an answer whose
write fails reaches nobody.  What a request has to respect is therefore a history of
its own, `turn.heard`: what had been written to the lane when the attempt began
(`BeginTurn`, `Retry`), and what the earlier attempts of the turn were answered; a
resumption forgives both.  `LaneRespected` says that the request respects it.  It
fails if a retry does not look again (the mutant), if an upsert replaces what others
wrote, or if a retry goes on after a write that failed.  The stronger property, that
no request goes out against what is written *at that moment*, does not hold of the
code: a cooldown or a refusal written between the look and the request is missed, by
that attempt and by no later one.  `Stop` and `Fail` leave an execution alone while it
writes an answer, because `block` and `defer` are given no signal.

### `ProjectQuery`, `Readiness`, `Planning`

`ProjectQuery` has the pure part: `dependencyClosure` (`Closure`, the least closed
set), `criticGates`, the evidence that counts, `queryProject` and `planProject`.
The components of a relation are a constant, `Components`, of which
`ComponentsAssumption` says what the code relies on: they are the classes of
artifacts in a cycle with each other, in an order in which none refers to a later
one.  In every run `Components` is `StronglyConnected` of `Tarjan`, the search of
`graph.ts` step by step, and TLC checks the assumption for all graphs of the run.
`Readiness` keeps a *book* for each Run (its request of each critic, its members,
`gate_counts` and `run_counts`); a store is a function from Runs to books.  The
transactions are operators from stores to stores (`Initialized`, `Transition`,
`Saved`, `Failed`), made of operators from books to books (`SetMember`,
`GateMember`, `Propagated`, `Import`, `RunUpdated`); one action per operation of
the broker.  `propagate` calls itself along the gates; `Propagated` is a function
on the number of calls still allowed, as many as there are gates, and the proof
shows that no cascade needs more.  `Planning` inspects, executes what the plan says
and inspects again, while entries come and go and the material is edited.

Abstracted in `Readiness`: the Runs have the same input, and human reviews behave
like executions.  Coalescing inside one store (`coalescing.ts`) is for inputs of
version 3, which 7.x does not submit; without it `refresh`, with which a turn of
the worker's loop begins, finds nothing to change, as every transaction leaves the
status of the Runs it touched as the counters have it, and it is no action.  `Planning` takes a snapshot at once and
never undoes an edit.

### `Release`

`registry` and `visible` are npm's (accepted, and shown), `tag` and `release`
GitHub's; the other variables are where a publisher is in its program.  `Begin` to
`Finish` follow `publishNpmAndAnnounce` with `planNpmRelease`,
`publishNpmRelease` and `publishNpmAnnouncement`; `Cancel` ends a publisher
anywhere, and `Begin` starts it again.  Assumed of the outside: nobody moves a tag
or publishes by hand, and a rerun uses the files that were verified.

## Runs

Bounds are small but chosen so that the interesting case occurs.  Each passing run
finishes in a few minutes; between them they fire every action of every module.

| run | instance | shows |
|---|---|---|
| `CacheSharing` | two processes with a call each, one identity, two jobs; `p1` may die or close, `p2` collects and retires, writers may stay busy | `TypeOK`, `WaitersServed`, `FencedBeforeAbort`, `ClosedClean`, `SingleResult`, `PublicationIsFinal`, `RetireSafe`, `CallsSettle` |
| `Receipts` | two processes with an attempt each, two receipts, two jobs, a person; `p1` may die and its workspace may be edited, one receipt may be canceled | `VerdictShared`, `ReceiptFinal` |
| `AdmissionLine` | three executions of two processes on two lanes of one slot; a model cap and a repository cap couple them; a budget of 1 or 2; one process may die, one statement may stay busy | `LimitsRespected`, `UseAccounted`, `StartedIsSpent`, `WaitersSettle` |
| `RunLife` | `agent` and `other` are free, `person` is behind `agent`, `after` behind `person` and `other`; two mortal workers, one executor at a time, two sessions, one retry | `WorkIsOwned`, `GatesRespected`, `VerdictIsFinal`, `NothingLate`, `RunSettles` |
| `RunStaleRead` | a chain of three requests, one worker, one session, no retry | violated: `NothingLeftToDo` |
| `ReviewAssignment` | a person behind an agent, one mortal worker, two attempts of Ann and one of Bob to claim, a session of Bob, one retry, prune of the agent's files | `PreparationShown`, `AssigneeDecides`, `PruneSparesWork` |
| `WorkspaceBoundary` | a directory and a file, two boundaries, two edits | `BaselineIsOneMoment`, `CloseDrains`, `BoundaryHolds` (the refinement), `ChangeIsNoticed` |
| `AgentLane` | two reviews on one account, one with a tool call and two messages, one whose budget is less than a message costs; two attempts, timeouts of 2 and 3, clock up to 3 | `VerdictEarned`, `NothingReplayed`, `LaneRespected`, `ReviewEnds` |
| `SharedRuns` | `y` behind `x`, `z` alone; Run `taker` asks for `y` and `z` and takes what Run `finder` finds about `x`; `finder` is forced, both workers may die, two retries | `CountersExact`, `AlwaysWork`, `ViewAgrees`, `RunsSettle` |
| `StoredView` | the same | violated: `GreenIsSatisfied` |
| `PlanGraphs` | all graphs of three reviewed artifacts with a basis, and those with an artifact nobody reviews; one edit, one loss | `GatesAgree`, `SatisfiedIsWhole`, `NoDeadEnd` |
| `Release` | three publishers, one from CI, two of one commit; the third, of another commit, shares the bytes of two of four packages | `InstallableWhole`, `AnnouncedWhole` |

Why these bounds are enough.  *CacheSharing*: two processes are an owner and
somebody who joins, takes over, collects or retires; two jobs are the one that was
abandoned or orphaned and its replacement, which is what every fence is about.  An
execution of the dead process is retired and reaped by the other; a dead collector
whose claimed batch another takes over does not occur (`CacheSharing` lets only
the collector live), but is part of the theorems.  *Receipts*: two receipts of one
execution, or two attempts at one receipt.  *AdmissionLine*: a waiter behind a
waiter of another lane through the repository cap is the least in which FIFO could
starve somebody.  Weights other than 1 do not occur in it; the theorems hold for
every weight up to the capacity.  *RunLife*: one worker takes over what the other
left or still does; two sessions let results compete; four requests are the least
in which a request waits for two others, one of them a person's, while one runs.
*ReviewAssignment*: the second attempt of one person meets her first one, and
another's.  *WorkspaceBoundary*: two entries are the least a traversal may read at
different moments; a silent and a visible edit; two boundaries share a scan.
*AgentLane*: one review's failure is the other's cooldown, written between the looks of
the other or while it sleeps; two attempts are a request and its retry, and the
clock passes the deadlines.  *SharedRuns* has evidence from another Run, from the cache and by
force; a verdict that is taken over twice needs a third Run and is left to the
theorems.  *PlanGraphs* has every cycle of three artifacts.  *Release* has the least
in which two publishers agree on a prefix and differ afterwards.

Symmetry is used only for job ids in `Receipts` (drawn at random by the code and
never compared), a run without liveness.  `CHECK_DEADLOCK FALSE` where a finished
system stops: every call returned, nothing to collect.  `Release` checks deadlock.

### Fairness

| specification | fair | because |
|---|---|---|
| `IdentityCache!FairSpec` | the steps of a waiting call, the task of a job; not maintenance, collectors or close, whose work no call waits for | timers, promises and transactions of a living process; an execution has a deadline and honours its signal; a closing process cancels its calls (`shuttingDown`), so there cancellation is fair |
| `Admission!FairSpec` | polling of a waiter, refusal, withdrawal, end and release, reclaiming, the end of killed children | timers; executions end; a killed group dies |
| `RunLifecycle!FairSpec` | weakly the loop; strongly its timer and its tasks | timer and tasks are enabled only while the loop waits, which each turn that goes on does for 50 or 100 ms |
| `WorkspaceObserver!Spec` | that something of these goes on: the scan, the poll, the continuation of a boundary | the event loop of a living process: I/O and microtasks come to their end, timers fire |
| `AgentReview!Spec` | the clock; of each review that one of these goes on: the deadline, the boundary after the agent, the write of an answer to the lane | time passes; boundaries are answered (`BoundaryHolds`); a write is repeated for five seconds, and then fails |
| `Readiness!Spec` | begin, receive, finish and fail of a served Run | the loop of a worker, executions end |

No fairness is given to people, signals, cancellation, closing, deletion, retry or
death, nor to a statement that stays busy.  `RunSettles` of `RunLifecycle`
therefore excepts a Run in which a person was told to review, and `WaitersSettle`
one that waits behind a `Leaked` lease.  `Planning`, `SharedExecution` and
`Release` have safety properties only.

## Proofs

Eight modules hold theorems.  What they assume of the constants is in named
assumptions of the modules they are about (`CacheAssumption`, `SharedAssumption`,
`AdmissionAssumption`, `RunAssumption`, `ReviewAssumption`, `PruneAssumption`,
`ObserverAssumption`, `ReleaseAssumption`, `QueryAssumption`,
`ComponentsAssumption`, `NoneAssumption`, `PlanningAssumption`,
`ReadinessAssumption`), which TLC evaluates in the runs.  They are types of the
constants, and that special values differ from the others, with five exceptions:
the gates of the Run of `RunLifecycle` are acyclic (`criticGates` puts gates only
between the strongly connected components of the artifacts' relations, as
`ReadinessProofs` proves of those of `Readiness`); a lease weighs no more than its
lane holds (the code refuses others); no critic reviews a basis (`config.ts:100` and
`graph.ts:32` refuse such a configuration); trees, leases, artifacts and critics are
finitely many; and `ComponentsAssumption`, which is what Tarjan's search is known to
compute.  The search itself is a recursive operator, which the prover cannot expand.

The invariants that the runs check are seldom inductive.  Each proof has one lemma
per action that shows that the strengthened invariant survives it, and the safety
theorems follow.

**`CacheProofs`**, of `IdentityCache`, for any processes, calls, jobs, identities and limits.
`Invariance`: `Spec => []IInv`, and from it `TypeCorrect`, `Sharing`
(`WaitersServed`), `Fencing`, `CleanClose`, and the action property `ResultsStay`
(`SingleResult`).  `IInv` adds: a job id that was not drawn is unknown everywhere
(`FreshUnused`); what `cache_active` names is running and its identity has no entry
(`ActiveRunning`: why publication never overwrites a result); a pending failure
exists exactly between the catch block and the written row (`PendingCode`); what
was fenced stays unreachable (`FencedStays`: why an abandoned computation can be
aborted without a lock); a running row of a living owner has a task that will
still write it (`RunningHasTask`); a subscription of a living process has somebody
who will delete it (`SubscriptionAccounted`).  `KeptInvariance` adds `Kept`: an
audit directory has its row (`DirHasRow`), the tasks of a dead process are over
(`DeadTasksOver`), an id that was not drawn is not claimed (`FreshUnclaimed`), and
what a retirement pass has claimed is unreferenced (`ClaimedUnused`).  From it `PublicationStays` (`PublicationIsFinal`) and
`RetirementSafe` (`RetireSafe`), in which the choice and the move of a directory
are two steps.

**`CacheProofs`**, of `SharedExecution`, for any processes, attempts, receipts and people.
`SharesTheCache`: `SharedSpec => Spec`, so everything above holds of the
composition, and its invariant rests on `IInv` and `Kept`.  `SharedInvariance`
adds `Shares`, a chain from the person to the receipt: an execution exists, with
its directory, while its task goes on (`BegunExecutions`); its verdict was given on
a sound workspace or its owner's was edited (`VerdictsSound`); what it returns is
that verdict (`ReturnedVerdict`); what passed the check and what is published is
sound (`CheckedGood`, `PublishedGood`); what a caller got was accepted
(`GotAccepted`), and so is what a receipt with a verdict names (`FiledAccepted`).
Hence `VerdictsAreShared` (`VerdictShared`) and `ReceiptsStay` (`ReceiptFinal`).

**`AdmissionProofs`**, for any processes, lanes, weights, caps and budgets.
`AdmissionInvariant`, from it `LimitsHold` (`LimitsRespected`), `UseHolds`
(`UseAccounted`) and `StartedStays` (`StartedIsSpent`).  The invariant adds that a
dead process took its calls along (`DeadAreGone`), that a call that has not queued
has no row (`NewAreAbsent`), that nothing was attempted before admission
(`WaitersAttemptNothing`) and that nobody is charged to a submission without a
budget (`ChargedAreRegistered`).  The caps are statements about cardinalities:
only `Admit` adds a lease to those that count, it adds one, and it looks first;
every other step only removes.

**`LifecycleProofs`**, of `RunLifecycle`, for any workers (any of them mortal),
sessions, requests, acyclic gates, local cap and number of retries.  `Invariance`, from it
`TypeCorrect`, `Ownership` (`WorkIsOwned`), `Gating` (`GatesRespected`), and the
action properties `VerdictsStay` (`VerdictIsFinal`) and `LateIsIgnored`
(`NothingLate`).  `IInv` adds that a call of `run()` holds the row in `run_owners`
and that its process lives (`Calling`: why a retry, which needs the row to be gone,
cannot meet a task of the old worker), and that a call which only winds down left
a decided Run (`SettlesDecided`: why giving the row up leaves nothing running).
The transactions preserve the requests' part whatever a worker believes; the
lemmas about `Gated`, `Save` and `FailWithin` carry that argument.

**`LifecycleProofs`**, of `HumanReview` and `Prune`, for any Run, reviewers, attempts
and moments at which leases end.  `ReviewsAreRuns` (`ReviewSpec => Spec`) and `StoresAreReviews`
(`StoreSpec => ReviewSpec`) make the composition a refinement of `RunLifecycle`.
`ReviewInvariance` adds to `IInv`: only agents execute in a worker
(`PeopleDecideOutside`), a call that prepares has the reservation until its lease
ends (`Reserved`), the record names the reserving call and says "preparing"
(`ReservationTold`), a record that says "claimed" names a call of the assigned
reviewer (`RecordTrue`), and a session is the assigned reviewer's
(`SessionsAssigned`).  Hence `PreparationIsShown`, `AssigneesDecide` and, with
`Calling`, `PruneSpares`: who moves files sees no owner, so no worker has a task.

**`WorkspaceObserverProofs`**, for any finite tree, any number of boundaries and
edits.  `ImplementsBoundary`: `Spec => Boundary!BoundarySafety`, under the mapping
of `WorkspaceObserver`; `BaselineHolds` (`BaselineIsOneMoment`) and `CloseHolds`
(`CloseDrains`).  Versions only grow, so what a traversal read of an entry lies
between its versions before and after (`ReadsBehind`, `Between`); two traversals
that agree squeeze the moment between them.  A boundary that was asked of a changed
tree finds an entry that differs still ahead of every traversal that may answer it
(`ChangeAhead`), and an entry that left the baseline never returns
(`StaysChanged`, `BaselineBehind`).

**`AgentReviewProofs`**, for any number of reviews of a lane, any budgets, attempts,
deadlines and delays.  `AgentInvariance`, from it `VerdictIsEarned`,
`NothingReplayedHolds`, `LaneIsRespected`.  The invariant: the row of the lane holds
all that was written to it (`told = lane`: an upsert of one column leaves the other,
and none takes back what others wrote), what was read of a changed input cannot
become a verdict (`StaleIsOver`), a turn that waits to be asked for delivered
nothing and has attempts left (`TurnIsFresh`), before the deadline an agent
that was not stopped is within its budgets (`BudgetHolds`), and, of what an attempt
has to respect (`LaneRead`): the row covers it whenever the attempt is about to look
or sleeps until its retry; when it is about to ask, it is over and no refusal; and
while an answer waits to be written it is that answer and nothing else.  The row
may have more by the time of the request.

**`ReleaseProofs`**, for any publishers and any number of packages.
`ReleaseInvariant`, from it `InstallableWholeHolds` and `AnnouncedWholeHolds`.  A
version on npm is never replaced, so the plan of a publisher stays true
(`PlanHolds`), what it left behind shows with its bytes (`PrefixHolds`), and who
touches the tag found everything published (`AnnounceHolds`).

**`PlanningProofs`**, for any artifacts, critics and relations, cycles included, and
any selection, edits and evictions.  `PlanInvariant` has the types and that what was
asked for stays.  The states proper come from one pass over the gates, so that most
of the work is about operators: `Iterates` (a pass that touches only what it may
leaves the rest alone, and what holds of each prefix holds of the whole: induction
over the positions, as a set of numbers without a least exception),
`ClosureFacts`, `GateFacts` (the gates of a critic are exactly those who review what
the component of its artifact refers to, and come before it), `PassedFacts` (after
the pass the state of a critic is what its gates' *final* states make of it, as no
later gate touches them), `HistoryFacts` and `EvidenceFacts` (the last entry of
the identity).  Hence `GatesAgreed` (`GatesAgree`); `WholeWhenSatisfied`
(`SatisfiedIsWhole`: a critic of an artifact that is required passes only with
evidence for the present identity, and what is required is closed under
reference); and `NeverADeadEnd` (`NoDeadEnd`: among the members that have not
passed one has the least position, all its gates have passed, so its state is its
own).

**`ReadinessProofs`**, for any project and any Runs, mortal or forced or without
gates.  `ReadinessInvariant`: `Spec => []ReadinessInv`; from it `CountersAreExact`
(`CountersExact`), `ThereIsAlwaysWork` (`AlwaysWork`), `ViewsAgree` (`ViewAgrees`) and
the action property `VerdictsStay`.  A book is `Settled` between transactions when

* it is `Fit`: a member shows a request only if there is one, has evidence when
  that has a verdict, and what is QUEUED or RUNNING is so in both (`SaneAt`);
  evidence names a request that has a verdict, in whatever Run (`Witnessed`, which
  `VerdictsStay` keeps true while the *other* Run moves);
* it is `Exact`: what `unmet` and the counters of the Run differ from the members
  by is 0, and what `red` differs by is not negative;
* it is `Busy`: if the Run is not decided some member is in the queue or running;
* in a Run that has taken over no verdict of another (it is `Plain`), every member is
  `Showing`: it is GREEN iff its request is GREEN and `unmet` is not positive, waits
  if only the latter fails, and nobody who is held is QUEUED or RUNNING.

A transaction breaks `Exact` for the dependents of one member until its cascade is
over.  The lemmas about a cascade (`ToldFacts`, `AllToldFacts`, `PropagatedFacts`)
therefore speak of a book with any differences: telling the dependents of a member
changes the difference of each of them by what the member changed, and of nobody
else, whatever calls it takes.  It is an induction on the number of calls still
allowed: dependents are behind a later gate (`TieredHolds`), so as many calls as
there are gates are enough.  `MovedFacts` applies it where exactly one member was
moved, and `TransitionFacts` puts the books of all Runs together.  `Busy` holds
where the status is computed, because counters that are exact and positive have a
member behind them; where it is not (a Run without a worker that takes a verdict
over), because neither `Import` nor a cascade moves a member that is in the queue or
running.  `Initialized` enters the members one after the other (`FoldFacts`),
`Failed` ends them one after the other, and both keep the store good but for the
Run they are about.

`Showing` survives a cascade only if the member that started it did not lose GREEN
(`Calm`): otherwise somebody who is behind it, and queued, would be held.  In a plain
Run no member ever does, as a request that is GREEN stays so and nobody it waits for
loses GREEN either (`RegatedShows`, `RegatedTidy`); an imported verdict that replaces
another does, and this is why `ViewAgrees` is about Runs without imports.

`ViewsAgree` then compares two computations.  `GreenFacts`: a member is GREEN iff its
request is and all it waits for are, because `unmet` is exact.  `OwnPasses`: by itself
a critic passes in the query iff its request is GREEN, because the rows the query
finds are the verdicts of the Run's own requests, one for each (`RowFacts`).
`PassFacts`: whoever is in a set that satisfies the former equivalence passes, and
nobody else, by induction over the gates.  `DecidedFacts`: the status that is computed
from the counters is GREEN iff all members are and every required artifact has
somebody who reviews it.

A few lemmas on iterations, closures and gates are in both of these modules:
`Planning` and `Readiness` extend `ProjectQuery` with variables of their own, and a
module cannot extend both.

The specifications of `WorkspaceObserver` and `AgentReview` contain their fairness;
the theorems about them do not use it.

## What is only model-checked

* **Liveness**: `CallsSettle`, `WaitersSettle`, both `RunSettles`,
  `ChangeIsNoticed`, `ReviewEnds` and the part of
  `BoundaryHolds` that says that every call is answered.  Liveness under fairness
  and `ENABLED` are beyond the prover.
* **Tarjan's search**: that it computes what `ComponentsAssumption` says, which TLC
  evaluates for all graphs of the runs, every cycle of three artifacts among them.
* **The order of identity-cache eviction and its limit**: the model removes any
  unprotected entry and checks what removal may break, not how many stay.

## Where the code disagrees with its documents

Two runs expect a violation; `PROJECT.json` quotes the texts under `findings`.

* `RunStaleRead`: one turn of the scheduling loop reads queued requests, waiting
  requests and the status of the Run in three statements.  A person's result that
  commits in between releases a request after it was looked for, and the worker
  fails the Run with "Run has no executable request or pending Human review"
  (`src/src/broker/index.ts:732`).
* `StoredView`: a Run that took over a verdict it did not ask for is GREEN, while
  the validation stored with it shows the dependency STALE
  (`src/src/project/query.ts:54`).

Met while modelling, and modelled as the code has it:

* After a hand-over, `claimHuman` in another process mirrors the old source into
  the receipt (`src/src/broker/index.ts:1084`; the comment at line 435 says "earlier
  Human claim state no longer applies").  The next mirror of the worker mends it.
* Publication is refused for a job without subscribers while its alias still
  stands (`src/src/cache/index.ts:340`), so a caller may still join a computation
  that cannot succeed any more, against the comment at line 240; it then gets the
  failure, and is never stranded.
* When a retirement pass fails at one row, the rest of the batch stays claimed by
  the process while it lives (`src/src/cache/index.ts:291`, against
  `src/docs/identity-cache.md:226`).
* A release whose statement stays busy for 5 s leaves a slot taken while its
  process lives (`src/src/resources.ts:287`, against the comment at line 153);
  this is `Leaked`, the exception in `WaitersSettle`.
* "Terminal runs cannot restart" (`src/docs/contracts.md:829`), but
  `retryRequest` revives them; the retried request keeps `claimedBy` and
  `notifiedAt` (`src/src/broker/index.ts:1010`).
* Prune may move the preparation of a claim whose Run was canceled a moment ago;
  the claim cannot be confirmed any more, and `PruneSparesWork` is about the tasks
  of workers.
* A member that goes from BLOCKED to the queue tells nobody
  (`src/src/broker/readiness.ts:117`, `gateMember` without `propagate`, unlike the
  lines before it).  When another Run's RED, taken over by a member that was not
  asked for, is replaced by a GREEN (line 205), the members behind the released one
  keep counting it in `gate_counts.red`: they show BLOCKED though nothing they depend
  on is RED or BLOCKED, until it is decided.  `src/docs/contracts.md:873` says "BLOCKED
  and release states propagate through those edges", and
  `src/docs/getting-started.md:108` "A RED dependency leaves descendants BLOCKED".
  It needs three Runs and a chain of three critics.  What may start is decided by
  `unmet`, which is exact, and so `CountersExact` says of `red` only that it is never
  too low; the theorem is what showed that equality is not invariant.
* A verdict that is imported again may turn a gate RED after its dependents were
  released; they keep running.
* Gates follow only the direct edges of the condensed graph, and an identity is
  what the script says and nothing else.

## What is not modelled

| part | why |
|---|---|
| cache command line and queries (`src/src/cache/cli.ts`, `query.ts`) | read-only views of the store `IdentityCache` models |
| broker storage, changes, polling (`src/src/broker/storage.ts`, `changes.ts`, `polling.ts`) | content-addressed records and append-only pages, written inside the modelled transactions |
| explicit identities (`src/src/project/identity.ts`, `owner-identity.ts`) | user scripts and hashing; their weight in a lane is part of `Admission` |
| artifact tools, schemas, prompts, parsing of answers, authentication, the process executor | input and output of one execution |
| configuration and command line | sequential validation and formatting |
| monitor | a view; its mutations are the broker operations, and what it shows of a preparation is `Shown` in `HumanReview` |
| start of a detached worker and its readiness message | one parent, one child, one message; the failed start is `FailRun` |
| streaming of result pages, selection files, profiles | read-only |
| builds, verification of tarballs, dry runs, benchmarks, examples | no shared state |

## Plan

1. Done: the modules above with their runs, and the theorems listed.
2. `RunLifecycle` as an implementation of an abstract "a request is decided once
   per attempt", and `Admission` of "a multiset of slots within the caps".
3. `RunLifecycle` with `Admission`: a worker's task holds a lease from `Begin` to
   `TaskDone`.
4. The start of a worker process, and the streaming of result pages beside
   changes, as small modules.
