------------------------------ MODULE Admission ------------------------------
(***************************************************************************)
(* Machine admission (src/src/resources.ts): one SQLite database rations   *)
(* the executions of all processes of a machine.  Per provider, and for    *)
(* the weighted identity scripts, a lane admits requests in FIFO order     *)
(* while its capacity, the caps of the model and of the repository, and    *)
(* the execution budget of the submission allow.                           *)
(*                                                                         *)
(* A lease is one call of `acquire` and what its holder does with it       *)
(* (executeUncached in broker/index.ts): mark the start, track the child   *)
(* process group, mark the end, release.  Every SQLite transaction is one  *)
(* action; the reclaim that a transaction runs first is part of it.        *)
(*                                                                         *)
(* A provider request has weight 1, so the provider's capacity and the     *)
(* identity capacity are one rule.  Abstracted: the read-only check that   *)
(* precedes the admitting transaction (it grants nothing), polling delays, *)
(* the heartbeat (nothing reads it), a configuration that changes while    *)
(* requests wait, and the kill signal, which ends a child group at once.   *)
(***************************************************************************)
EXTENDS Naturals, FiniteSets

CONSTANTS
  Procs,       \* OS processes, told apart by pid and start time
  Leases,      \* calls of acquire
  Runs,        \* submissions
  Lanes,       \* the lane of identity scripts and one lane per provider
  Home,        \* the process of a call
  Lane,        \* its lane
  Weight,      \* its weight: 1 but for identity scripts
  Model,       \* its model, if the configuration caps that model of the provider
  Repo,        \* its repository
  RepoCap,     \* the repository cap it declares
  Run,         \* the submission that pays for it, None for identity scripts
  Capacity,    \* of each lane
  ModelCap,    \* of each capped model
  Budgets,     \* the values of maxExecutions
  Mortal,      \* bound: the processes that may end
  Busy,        \* bound: the calls whose statements may stay busy for 5 s
  Unregistered, \* no row in submissions
  None         \* SQL NULL and absent values

Models == DOMAIN ModelCap

ASSUME AdmissionAssumption ==
  /\ IsFiniteSet(Leases)
  /\ Home \in [Leases -> Procs]
  /\ Lane \in [Leases -> Lanes]
  /\ Weight \in [Leases -> Nat \ {0}]
  /\ Model \in [Leases -> Models \cup {None}]
  /\ RepoCap \in [Leases -> Nat \cup {None}]
  /\ Run \in [Leases -> Runs \cup {None}]
  /\ Capacity \in [Lanes -> Nat \ {0}]
  /\ \A l \in Leases : Weight[l] <= Capacity[Lane[l]]
  /\ ModelCap \in [Models -> Nat \ {0}]
  /\ Budgets \subseteq Nat \cup {None}
  /\ Mortal \subseteq Procs
  /\ Busy \subseteq Leases
  /\ None \notin Nat \cup Runs \cup Models
  /\ Unregistered \notin Budgets \cup Nat

VARIABLES
  \* resources.sqlite
  budget,    \* submissions.max_executions, Unregistered without a row
  lease,     \* resource_leases.state, "absent" without a row
  seq,       \* resource_leases.seq
  lastSeq,   \* the AUTOINCREMENT counter
  attempt,   \* execution_attempts.state, "absent" without a row
  \* processes
  child,     \* a tracked process group: "alive", "killed", "ended" (its row is still there)
  alive,     \* whether a process runs
  blocked,   \* waiters of this process that were refused at least once
  pc         \* progress of a call and its holder

db   == <<budget, lease, seq, lastSeq, attempt>>
vars == <<db, child, alive, blocked, pc>>

LeaseStates == {"absent", "waiting", "active", "releasing"}
AttemptStates == {"absent", "reserved", "started", "terminal", "refunded"}

TypeOK ==
  /\ budget \in [Runs -> Budgets \cup {Unregistered}]
  /\ lease \in [Leases -> LeaseStates]
  /\ seq \in [Leases -> Nat]
  /\ lastSeq \in Nat
  /\ attempt \in [Leases -> AttemptStates]
  /\ child \in [Leases -> {"none", "alive", "killed", "ended"}]
  /\ alive \in [Procs -> BOOLEAN]
  /\ blocked \subseteq Leases
  /\ pc \in [Leases -> {"new", "queued", "failing", "held", "running", "ended",
                        "releasing", "done", "gone"}]

Init ==
  /\ budget = [r \in Runs |-> Unregistered]
  /\ lease = [l \in Leases |-> "absent"]
  /\ seq = [l \in Leases |-> 0]
  /\ lastSeq = 0
  /\ attempt = [l \in Leases |-> "absent"]
  /\ child = [l \in Leases |-> "none"]
  /\ alive = [p \in Procs |-> TRUE]
  /\ blocked = {}
  /\ pc = [l \in Leases |-> "new"]

-----------------------------------------------------------------------------
(* Accounting *)

\* Rows that occupy capacity.
Active == {l \in Leases : lease[l] \in {"active", "releasing"}}

\* The units of capacity that lane n has given out: one per unit of weight.
Units(n, L) == {u \in L \X (1..Capacity[n]) : Lane[u[1]] = n /\ u[2] <= Weight[u[1]]}

FitsLane(l) == Cardinality(Units(Lane[l], Active)) + Weight[l] <= Capacity[Lane[l]]

\* Fault: a lease being released no longer counts.
FitsModel_ActiveOnly(l) ==
  Model[l] # None =>
    Cardinality({k \in Leases : lease[k] = "active" /\ Model[k] = Model[l]}) < ModelCap[Model[l]]

FitsModel(l) ==
  Model[l] # None => Cardinality({k \in Active : Model[k] = Model[l]}) < ModelCap[Model[l]]

\* Executions of a repository; identity scripts are not among them.
Peers(r, L) == {k \in L : Repo[k] = r /\ Run[k] # None}

\* All active declarations participate, and the newcomer's.
FitsRepo(l) ==
  Run[l] # None =>
    \A k \in Peers(Repo[l], Active) \cup {l} :
      RepoCap[k] # None => Cardinality(Peers(Repo[l], Active)) < RepoCap[k]

\* Attempts that consume the budget of a submission.
Spent(r) == {l \in Leases : Run[l] = r /\ attempt[l] \notin {"absent", "refunded"}}

Solvent(l) ==
  Run[l] # None /\ budget[Run[l]] # None => Cardinality(Spent(Run[l])) < budget[Run[l]]

-----------------------------------------------------------------------------
(* Reclaiming *)

\* Rows a reclaim examines: a release that was left unfinished, a dead owner.
Reclaimable ==
  {l \in Leases : \/ lease[l] = "releasing"
                  \/ lease[l] # "absent" /\ ~alive[Home[l]]}

\* A killed group still runs until it has ended.
ChildRuns(l) == child[l] \in {"alive", "killed"}

\* Fault: a lease is dropped although its children run.
Freed_Hasty(L) == L

\* childrenGone: a lease whose group still runs is kept, and the group is killed.
Freed(L) == {l \in L : ~ChildRuns(l)}

LeaseWithout(F) == [l \in Leases |-> IF l \in F THEN "absent" ELSE lease[l]]

\* Fault: every attempt of a dropped lease is refunded.
AttemptWithout_Started(F) ==
  [l \in Leases |-> IF l \in F /\ attempt[l] # "absent" THEN "refunded" ELSE attempt[l]]

\* A reservation that never started is refunded.
AttemptWithout(F) ==
  [l \in Leases |-> IF l \in F /\ attempt[l] = "reserved" THEN "refunded" ELSE attempt[l]]

ChildAfter(L) ==
  [l \in Leases |-> CASE l \in L /\ child[l] = "alive" -> "killed"
                      [] l \in L /\ child[l] = "ended" -> "none"
                      [] OTHER -> child[l]]

\* What a reclaim of the rows L does.
Reclaimed(L) ==
  /\ lease' = LeaseWithout(Freed(L))
  /\ attempt' = AttemptWithout(Freed(L))
  /\ child' = ChildAfter(L)

-----------------------------------------------------------------------------
(* acquire *)

\* registerSubmission: a budget is immutable, a different value is refused.
Register(r, n) ==
  /\ budget[r] = Unregistered
  /\ budget' = [budget EXCEPT ![r] = n]
  /\ UNCHANGED <<lease, seq, lastSeq, attempt, child, alive, blocked, pc>>

\* The inserting transaction, after a reclaim unless one ran a moment ago.
Enqueue(l) ==
  /\ pc[l] = "new"
  /\ Run[l] # None => budget[Run[l]] # Unregistered
  /\ \E L \in {{}, Reclaimable} :
       /\ lease' = [LeaseWithout(Freed(L)) EXCEPT ![l] = "waiting"]
       /\ attempt' = AttemptWithout(Freed(L))
       /\ child' = ChildAfter(L)
  /\ seq' = [seq EXCEPT ![l] = lastSeq + 1]
  /\ lastSeq' = lastSeq + 1
  /\ pc' = [pc EXCEPT ![l] = "queued"]
  /\ UNCHANGED <<budget, alive, blocked>>

\* The submission has no budget, or the statement stays busy.
EnqueueFails(l) ==
  /\ pc[l] = "new"
  /\ l \in Busy \/ (Run[l] # None /\ budget[Run[l]] = Unregistered)
  /\ pc' = [pc EXCEPT ![l] = "done"]
  /\ UNCHANGED <<db, child, alive, blocked>>

\* Waiters of the same process and lane that queued before l.
Predecessors(l) ==
  {k \in Leases : Home[k] = Home[l] /\ Lane[k] = Lane[l] /\ pc[k] = "queued" /\ seq[k] < seq[l]}

\* Fault: a waiter sleeps behind any refused waiter, not only behind an earlier one.
Sleeps_AnyWaiter(l) ==
  \E k \in blocked : Home[k] = Home[l] /\ Lane[k] = Lane[l] /\ k # l /\ pc[k] = "queued"

\* A refused predecessor makes its successor in the process sleep until it settles.
Sleeps(l) ==
  \E k \in Predecessors(l) : k \in blocked /\ \A m \in Predecessors(l) : seq[m] <= seq[k]

Polls(l) == pc[l] = "queued" /\ ~Sleeps(l)

\* A polling waiter reclaims first.
Reclaim(p) ==
  /\ \E l \in Leases : Home[l] = p /\ Polls(l)
  /\ Reclaimable # {}
  /\ Reclaimed(Reclaimable)
  /\ UNCHANGED <<budget, seq, lastSeq, alive, blocked, pc>>

\* No earlier row of the lane waits.
First(l) == \A k \in Leases : Lane[k] = Lane[l] /\ lease[k] = "waiting" => seq[k] >= seq[l]

Eligible(l) == First(l) /\ FitsLane(l) /\ FitsModel(l) /\ FitsRepo(l)

\* The admitting transaction.
Admit(l) ==
  /\ Polls(l)
  /\ lease[l] = "waiting"
  /\ Eligible(l)
  /\ Solvent(l)
  /\ lease' = [lease EXCEPT ![l] = "active"]
  /\ attempt' = [attempt EXCEPT ![l] = IF Run[l] # None THEN "reserved" ELSE @]
  /\ pc' = [pc EXCEPT ![l] = "held"]
  /\ blocked' = blocked \ {l}
  /\ UNCHANGED <<budget, seq, lastSeq, child, alive>>

Refuse(l) ==
  /\ Polls(l)
  /\ l \notin blocked
  /\ ~Eligible(l)
  /\ blocked' = blocked \cup {l}
  /\ UNCHANGED <<db, child, alive, pc>>

Fails(l) ==
  /\ pc' = [pc EXCEPT ![l] = "failing"]
  /\ blocked' = blocked \ {l}
  /\ UNCHANGED <<db, child, alive>>

\* EXECUTION_BUDGET_EXHAUSTED, or "Resource lease disappeared before admission."
Rejected(l) ==
  /\ Polls(l)
  /\ lease[l] # "waiting" \/ (Eligible(l) /\ ~Solvent(l))
  /\ Fails(l)

\* The waiter is canceled, or a transaction stays busy.
Cancel(l) == pc[l] = "queued" /\ Fails(l)

\* The catch block deletes the row.
Withdraw(l) ==
  /\ pc[l] = "failing"
  /\ Reclaimed({l})
  /\ pc' = [pc EXCEPT ![l] = "done"]
  /\ UNCHANGED <<budget, seq, lastSeq, alive, blocked>>

\* The deletion stays busy, and the error is dropped.
WithdrawFails(l) ==
  /\ l \in Busy
  /\ pc[l] = "failing"
  /\ pc' = [pc EXCEPT ![l] = "done"]
  /\ UNCHANGED <<db, child, alive, blocked>>

-----------------------------------------------------------------------------
(* The holder *)

\* started: the marker that consumes the budget, right before the executor runs.
Start(l) ==
  /\ pc[l] = "held"
  /\ Run[l] # None
  /\ lease[l] = "active"
  /\ attempt' = [attempt EXCEPT ![l] = IF @ = "reserved" THEN "started" ELSE @]
  /\ pc' = [pc EXCEPT ![l] = "running"]
  /\ UNCHANGED <<budget, lease, seq, lastSeq, child, alive, blocked>>

\* trackChild; one group per execution here.
TrackChild(l) ==
  /\ pc[l] = "running"
  /\ child[l] = "none"
  /\ child' = [child EXCEPT ![l] = "alive"]
  /\ UNCHANGED <<db, alive, blocked, pc>>

ChildEnds(l) ==
  /\ ChildRuns(l)
  /\ child' = [child EXCEPT ![l] = "ended"]
  /\ UNCHANGED <<db, alive, blocked, pc>>

\* The execution returns, throws, or never starts; then `terminal`, which may
\* stay busy.
End(l) ==
  /\ pc[l] \in {"held", "running"}
  /\ \/ attempt' = [attempt EXCEPT ![l] = IF @ = "started" THEN "terminal" ELSE @]
     \/ l \in Busy /\ UNCHANGED attempt
  /\ pc' = [pc EXCEPT ![l] = "ended"]
  /\ UNCHANGED <<budget, lease, seq, lastSeq, child, alive, blocked>>

\* release: first the row is marked,
MarkReleasing(l) ==
  /\ pc[l] = "ended"
  /\ lease' = [lease EXCEPT ![l] = IF @ = "absent" THEN @ ELSE "releasing"]
  /\ pc' = [pc EXCEPT ![l] = "releasing"]
  /\ UNCHANGED <<budget, seq, lastSeq, attempt, child, alive, blocked>>

\* which may stay busy;
MarkFails(l) ==
  /\ l \in Busy
  /\ pc[l] = "ended"
  /\ pc' = [pc EXCEPT ![l] = "done"]
  /\ UNCHANGED <<db, child, alive, blocked>>

\* then a child group that still runs is killed, or else the row is deleted.
Release(l) ==
  /\ pc[l] = "releasing"
  /\ Reclaimed({l})
  /\ pc' = [pc EXCEPT ![l] = IF ChildRuns(l) THEN @ ELSE "done"]
  /\ UNCHANGED <<budget, seq, lastSeq, alive, blocked>>

\* The group cannot be killed, or the deletion stays busy, for 5 s.
ReleaseFails(l) ==
  /\ pc[l] = "releasing"
  /\ l \in Busy \/ ChildRuns(l)
  /\ pc' = [pc EXCEPT ![l] = "done"]
  /\ UNCHANGED <<db, child, alive, blocked>>

\* A process ends at any point; its child groups do not.
Exit(p) ==
  /\ p \in Mortal /\ alive[p]
  /\ alive' = [alive EXCEPT ![p] = FALSE]
  /\ blocked' = {l \in blocked : Home[l] # p}
  /\ pc' = [l \in Leases |-> IF Home[l] = p THEN "gone" ELSE pc[l]]
  /\ UNCHANGED <<db, child>>

-----------------------------------------------------------------------------
Acquire(l) ==
  \/ Enqueue(l) \/ EnqueueFails(l) \/ Admit(l) \/ Refuse(l)
  \/ Rejected(l) \/ Cancel(l) \/ Withdraw(l) \/ WithdrawFails(l)

Hold(l) ==
  \/ Start(l) \/ TrackChild(l) \/ ChildEnds(l) \/ End(l)
  \/ MarkReleasing(l) \/ MarkFails(l) \/ Release(l) \/ ReleaseFails(l)

Next ==
  \/ \E r \in Runs, n \in Budgets : Register(r, n)
  \/ \E l \in Leases : Acquire(l) \/ Hold(l)
  \/ \E p \in Procs : Reclaim(p) \/ Exit(p)

Spec == Init /\ [][Next]_vars

(***************************************************************************)
(* Waiters poll on a timer, reclaiming as they do; a holder whose          *)
(* execution returns releases its lease.  Nobody need start, be canceled   *)
(* or end; a child group need not end by itself, a killed one does.        *)
(***************************************************************************)
Fairness ==
  /\ \A l \in Leases :
       /\ WF_vars(Admit(l) \/ Rejected(l)) /\ WF_vars(Refuse(l)) /\ WF_vars(Withdraw(l))
       /\ WF_vars(End(l)) /\ WF_vars(MarkReleasing(l)) /\ WF_vars(Release(l))
       /\ WF_vars(child[l] = "killed" /\ ChildEnds(l))
  /\ \A p \in Procs : WF_vars(Reclaim(p))

FairSpec == Spec /\ Fairness

-----------------------------------------------------------------------------
(* Properties *)

\* Admission, release, failed release and reclaim of several processes together
\* never give out more of a lane than its capacity, nor of a model than its cap.
CapacityRespected ==
  /\ \A n \in Lanes : Cardinality(Units(n, Active)) <= Capacity[n]
  /\ \A m \in Models : Cardinality({l \in Active : Model[l] = m}) <= ModelCap[m]

\* No caller can raise a running repository's tighter cap: the executions of a
\* repository respect the caps that all of them declare.
RepoCapRespected ==
  \A k \in Active : Run[k] # None /\ RepoCap[k] # None =>
    Cardinality(Peers(Repo[k], Active)) <= RepoCap[k]

\* Refunds after crashes and cancellations never let a submission have more
\* attempts than its maxExecutions.
BudgetRespected ==
  \A r \in Runs : budget[r] \in Nat => Cardinality(Spent(r)) <= budget[r]

\* Whatever is admitted, released, reclaimed and refunded by several processes, of
\* which some die, the limits that the lanes, models, repositories and submissions
\* declare hold together.
LimitsRespected == CapacityRespected /\ RepoCapRespected /\ BudgetRespected

\* "A stale heartbeat does not reclaim a live process": whatever other processes
\* reclaim, a waiter keeps its place and an execution its slot.
LiveLeaseKept ==
  \A l \in Leases :
    /\ pc[l] = "queued" => lease[l] = "waiting"
    /\ pc[l] \in {"held", "running", "ended"} => lease[l] = "active"

\* Capacity is not given out again while a tracked child group still uses it, also
\* when its owner has died or has given up the release.
ChildrenHoldCapacity == \A l \in Leases : ChildRuns(l) => l \in Active

\* What is in use is not given to another, neither by a reclaim of a process that
\* lives nor by one of a process that left its children behind.
UseIsCounted == LiveLeaseKept /\ ChildrenHoldCapacity

\* No reservation outlives its lease: budget a crash or a cancellation reserved
\* but never started comes back.
ReservationAccounted == \A l \in Leases : attempt[l] = "reserved" => l \in Active

\* What the tables count is what is in use.
UseAccounted == UseIsCounted /\ ReservationAccounted

\* A started or ambiguously started attempt never refunds.
StartedIsSpent ==
  [][\A l \in Leases : attempt[l] \in {"started", "terminal"}
                         => attempt'[l] \in {"started", "terminal"}]_vars

\* A row that no reclaim removes: its holder is done with it and lives on (the
\* comment in `reclaim` about an eternal live-owner slot is about this).
Leaked(l) == pc[l] = "done" /\ alive[Home[l]] /\ lease[l] \in {"waiting", "active"}

\* FIFO per lane, repository caps across lanes, the sleep of a waiter behind its
\* blocked predecessor, canceled waiters and dead holders never leave a waiter
\* waiting for ever, unless a holder gave up its row while the store was busy.
WaitersSettle ==
  \A l \in Leases : pc[l] = "queued" ~> (pc[l] # "queued" \/ \E k \in Leases : Leaked(k))
=============================================================================
