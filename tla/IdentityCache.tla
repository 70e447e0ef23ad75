---------------------------- MODULE IdentityCache ----------------------------
(***************************************************************************)
(* The identity cache (src/src/cache/index.ts): one SQLite store that the  *)
(* processes of a machine share, in which a completed review is found by   *)
(* its explicit identity and concurrent requests for one identity share a  *)
(* single computation.                                                     *)
(*                                                                         *)
(* A call is one `compute(identity, execute)`; it starts at most one job,  *)
(* and every SQLite transaction is one action.  What happens between two   *)
(* awaits of a process is one action too, unless another process can       *)
(* commit in between.  A retry of a busy transaction is the action taken   *)
(* later; a retry that gives up after 5 s has an action of its own.        *)
(*                                                                         *)
(* Abstracted: the value of a result (only the execution that produced it  *)
(* is kept), byte sizes (a result is retained or oversized), recency (any  *)
(* unprotected entry may be the least recent one), page limits of the      *)
(* collector, and calls without identity or with `force`, which never      *)
(* touch this state.                                                       *)
(***************************************************************************)
EXTENDS Naturals, FiniteSets

CONSTANTS
  Procs,       \* OS processes, told apart by pid and start time
  Calls,       \* calls of compute
  Jobs,        \* execution ids, drawn at random by the code
  Identities,  \* the explicit identities
  Home,        \* the process a call is made in
  Wanted,      \* the identity a call asks for
  MaxEntries,  \* the retention limit maxEntries
  Mortal,      \* bound: the processes that may end
  Closers,     \* bound: the processes that may close their cache
  Collectors,  \* bound: the processes that collect garbage
  BusyWriter,  \* bound: whether a transaction may stay busy for 5 s
  None         \* SQL NULL and absent values

ASSUME CacheAssumption ==
  /\ Home \in [Calls -> Procs]
  /\ Wanted \in [Calls -> Identities]
  /\ MaxEntries \in Nat \ {0}
  /\ Mortal \subseteq Procs /\ Closers \subseteq Procs /\ Collectors \subseteq Procs
  /\ BusyWriter \in BOOLEAN
  /\ None \notin Procs \cup Jobs \cup {"result", "ABORTED", "CACHE_OWNERSHIP_LOST",
                                       "COMPUTE_OWNER_EXITED", "COMPUTE_FAILED"}
  /\ Procs \cap {"absent", "free"} = {}

VARIABLES
  \* cache.sqlite
  entry,    \* cache_entries: the execution an identity's entry names
  active,   \* cache_active: the job an identity's callers may join
  row,      \* cache_jobs.state, with the error_code for ERROR, "absent" without a row
  sub,      \* cache_subscribers.job_id of a call's row
  claim,    \* cache_execution_storage: no row, "free", or the retiring process
  \* executions/
  dir,      \* the jobs whose directory executions/<id> exists
  \* memory of the processes
  mode,     \* state of a process's connection
  owner,    \* the process that started a job (also cache_jobs.pid)
  key,      \* the identity a job computes (also cache_jobs.identity)
  task,     \* progress of the promise `start` created for a job
  abort,    \* reason of the job's AbortController, while `owned` holds the job
  failure,  \* pendingFailures: the code to be published for a job
  scan,     \* what the running maintenance pass knows of an owned job
  undetached, \* pendingDetaches
  batch,    \* rows the process's storage retirement has still to handle
  pc,       \* progress of a call
  outcome   \* what a call returned or threw

db     == <<entry, active, row, sub, claim>>
memory == <<mode, owner, key, task, abort, failure, scan, undetached, batch, pc, outcome>>
vars   == <<db, dir, memory>>

Codes == {"ABORTED", "CACHE_OWNERSHIP_LOST", "COMPUTE_OWNER_EXITED", "COMPUTE_FAILED"}

TypeOK ==
  /\ entry \in [Identities -> Jobs \cup {None}]
  /\ active \in [Identities -> Jobs \cup {None}]
  /\ row \in [Jobs -> {"absent", "RUNNING", "COMPLETED"} \cup Codes]
  /\ sub \in [Calls -> Jobs \cup {None}]
  /\ claim \in [Jobs -> {"absent", "free"} \cup Procs]
  /\ dir \subseteq Jobs
  /\ mode \in [Procs -> {"open", "closing", "expired", "closed", "dead"}]
  /\ owner \in [Jobs -> Procs \cup {None}]
  /\ key \in [Jobs -> Identities \cup {None}]
  /\ task \in [Jobs -> {"none", "executing", "ready", "failing", "stranded",
                        "settling", "over"}]
  /\ abort \in [Jobs -> Codes \cup {None}]
  /\ failure \in [Jobs -> Codes \cup {None}]
  /\ scan \in [Jobs -> {"none", "unsubscribed", "fenced"}]
  /\ undetached \subseteq Calls
  /\ batch \in [Procs -> SUBSET Jobs]
  /\ pc \in [Calls -> {"attaching", "waiting", "handover", "leaving", "done", "gone"}]
  /\ outcome \in [Calls -> {None, "result", "aborted", "failed"}]

Init ==
  /\ entry = [i \in Identities |-> None]
  /\ active = [i \in Identities |-> None]
  /\ row = [j \in Jobs |-> "absent"]
  /\ sub = [c \in Calls |-> None]
  /\ claim = [j \in Jobs |-> "absent"]
  /\ dir = {}
  /\ mode = [p \in Procs |-> "open"]
  /\ owner = [j \in Jobs |-> None]
  /\ key = [j \in Jobs |-> None]
  /\ task = [j \in Jobs |-> "none"]
  /\ abort = [j \in Jobs |-> None]
  /\ failure = [j \in Jobs |-> None]
  /\ scan = [j \in Jobs |-> "none"]
  /\ undetached = {}
  /\ batch = [p \in Procs |-> {}]
  /\ pc = [c \in Calls |-> "attaching"]
  /\ outcome = [c \in Calls |-> None]

-----------------------------------------------------------------------------
(* Helpers *)

\* ownerAlive: a process that closed its connection still runs.
Alive(p) == mode[p] # "dead"

\* The connection still executes statements.
Connected(p) == mode[p] \in {"open", "closing", "expired"}

\* The map `owned` holds the job.
Owned(j) == task[j] \in {"executing", "ready", "failing"}

Subscribed(j) == \E c \in Calls : sub[c] = j

\* The job an attaching call finds through cache_active.
Joinable(j) == row[j] = "RUNNING" /\ Alive(owner[j])

\* AbortController.abort keeps the first reason.
AbortWith(j, code) == IF abort[j] = None THEN code ELSE abort[j]

\* Fault: the job row is dropped although its audit directory is still there.
RemoveJob_Audited(j, states, subs, dirs) ==
  IF states[j] \in Codes \cup {"COMPLETED"} /\ \A c \in Calls : subs[c] # j
  THEN [states EXCEPT ![j] = "absent"]
  ELSE states

\* removeJob, on the state the rest of the transaction leaves behind.
RemoveJob(j, states, subs, dirs) ==
  IF /\ states[j] \in Codes \cup {"COMPLETED"}
     /\ j \notin dirs
     /\ \A c \in Calls : subs[c] # j
  THEN [states EXCEPT ![j] = "absent"]
  ELSE states

\* Deleting the cache_active row of job j, whatever its identity.
Deactivated(j) == [i \in Identities |-> IF active[i] = j THEN None ELSE active[i]]

\* executionPublication: what a reader of the audit in executions/<j> is told.
Publication(j) ==
  CASE row[j] = "COMPLETED" -> "accepted"
    [] row[j] \in Codes -> "rejected"
    [] row[j] = "RUNNING" -> IF Alive(owner[j]) THEN "pending" ELSE "rejected"
    [] OTHER -> IF \E i \in Identities : entry[i] = j THEN "accepted" ELSE "pending"

-----------------------------------------------------------------------------
(* compute: attach, wait, detach *)

\* The entry is there, in the first lookup or in the attaching transaction.
Hit(c) ==
  /\ pc[c] = "attaching"
  /\ mode[Home[c]] = "open"
  /\ entry[Wanted[c]] # None
  /\ pc' = [pc EXCEPT ![c] = "done"]
  /\ outcome' = [outcome EXCEPT ![c] = "result"]
  /\ UNCHANGED <<db, dir, mode, owner, key, task, abort, failure, scan, undetached, batch>>

Join(c) ==
  /\ pc[c] = "attaching"
  /\ mode[Home[c]] = "open"
  /\ entry[Wanted[c]] = None
  /\ LET j == active[Wanted[c]]
     IN  /\ j # None
         /\ Joinable(j)
         /\ sub' = [sub EXCEPT ![c] = j]
  /\ pc' = [pc EXCEPT ![c] = "waiting"]
  /\ UNCHANGED <<entry, active, row, claim, dir, mode, owner, key, task,
                 abort, failure, scan, undetached, batch, outcome>>

\* Fault: the transaction relies on the first lookup and does not look again.
Create_StaleLookup(c, j) ==
  /\ pc[c] = "attaching"
  /\ mode[Home[c]] = "open"
  /\ active[Wanted[c]] = None
  /\ task[j] = "none"
  /\ row' = [row EXCEPT ![j] = "RUNNING"]
  /\ active' = [active EXCEPT ![Wanted[c]] = j]
  /\ sub' = [sub EXCEPT ![c] = j]
  /\ claim' = [claim EXCEPT ![j] = "free"]
  /\ owner' = [owner EXCEPT ![j] = Home[c]]
  /\ key' = [key EXCEPT ![j] = Wanted[c]]
  /\ task' = [task EXCEPT ![j] = "executing"]
  /\ dir' \in {dir, dir \cup {j}}
  /\ pc' = [pc EXCEPT ![c] = "waiting"]
  /\ UNCHANGED <<entry, mode, abort, failure, scan, undetached, batch, outcome>>

\* No computation to join: a job of a dead owner is marked, a new job starts, and
\* before its first await it opens its own store under executions/<id>, unless the
\* process ends first or the executor keeps no audit.
Create(c, j) ==
  /\ pc[c] = "attaching"
  /\ mode[Home[c]] = "open"
  /\ entry[Wanted[c]] = None
  /\ task[j] = "none"
  /\ LET old == active[Wanted[c]]
     IN  /\ old # None => row[old] = "RUNNING" /\ ~Alive(owner[old])
         /\ row' = [k \in Jobs |-> CASE k = j -> "RUNNING"
                                     [] k = old -> "COMPUTE_OWNER_EXITED"
                                     [] OTHER -> row[k]]
  /\ active' = [active EXCEPT ![Wanted[c]] = j]
  /\ sub' = [sub EXCEPT ![c] = j]
  /\ claim' = [claim EXCEPT ![j] = "free"]
  /\ owner' = [owner EXCEPT ![j] = Home[c]]
  /\ key' = [key EXCEPT ![j] = Wanted[c]]
  /\ task' = [task EXCEPT ![j] = "executing"]
  /\ dir' \in {dir, dir \cup {j}}
  /\ pc' = [pc EXCEPT ![c] = "waiting"]
  /\ UNCHANGED <<entry, mode, abort, failure, scan, undetached, batch, outcome>>

\* The caller's signal, or the shutdown of its process, ends the call.
Cancel(c) ==
  /\ pc[c] \in {"attaching", "waiting"}
  /\ mode[Home[c]] \in {"open", "closing"}
  /\ pc' = [pc EXCEPT ![c] = IF @ = "waiting" THEN "leaving" ELSE "done"]
  /\ outcome' = [outcome EXCEPT ![c] = "aborted"]
  /\ UNCHANGED <<db, dir, mode, owner, key, task, abort, failure, scan, undetached, batch>>

\* A caller in the owning process sleeps until the task settles or is aborted;
\* every other caller polls.
Awake(c) ==
  LET j == sub[c]
  IN  /\ pc[c] = "waiting"
      /\ mode[Home[c]] = "open"
      /\ ~(owner[j] = Home[c] /\ Owned(j) /\ abort[j] = None)

\* pendingFailures is consulted before the row.
FailedHere(c) == owner[sub[c]] = Home[c] /\ failure[sub[c]] # None

Ends(c, result) ==
  /\ pc' = [pc EXCEPT ![c] = "leaving"]
  /\ outcome' = [outcome EXCEPT ![c] = result]
  /\ UNCHANGED <<db, dir, mode, owner, key, task, abort, failure, scan, undetached, batch>>

\* Fault: a caller learns of a failure only while it is pending in its own process.
ObserveFailure_PendingOnly(c) ==
  /\ Awake(c)
  /\ FailedHere(c)
  /\ Ends(c, "failed")

ObserveFailure(c) ==
  /\ Awake(c)
  /\ \/ FailedHere(c) /\ Ends(c, "failed")
     \/ /\ ~FailedHere(c)
        /\ row[sub[c]] \in Codes \ {"COMPUTE_OWNER_EXITED"}
        /\ Ends(c, "failed")

ObserveResult(c) ==
  /\ Awake(c)
  /\ ~FailedHere(c)
  /\ row[sub[c]] = "COMPLETED"
  /\ Ends(c, "result")

\* The owner is gone or shut down: detach, then attach again.
ObserveOwnerExit(c) ==
  /\ Awake(c)
  /\ ~FailedHere(c)
  /\ \/ row[sub[c]] = "COMPUTE_OWNER_EXITED"
     \/ row[sub[c]] = "RUNNING" /\ ~Alive(owner[sub[c]])
  /\ pc' = [pc EXCEPT ![c] = "handover"]
  /\ UNCHANGED <<db, dir, mode, owner, key, task, abort, failure, scan, undetached, batch, outcome>>

\* The transaction of detach, also when maintenance repeats it.
Unsubscribe(c) ==
  /\ sub' = [sub EXCEPT ![c] = None]
  /\ row' = RemoveJob(sub[c], row, sub', dir)
  /\ UNCHANGED <<entry, active, claim, dir, mode, owner, key, task, abort,
                 failure, scan, batch>>

Detach(c) ==
  /\ pc[c] \in {"handover", "leaving"}
  /\ Connected(Home[c])
  /\ Unsubscribe(c)
  /\ pc' = [pc EXCEPT ![c] = IF @ = "handover" THEN "attaching" ELSE "done"]
  /\ UNCHANGED <<undetached, outcome>>

\* The transaction stays busy for 5 s: maintenance will repeat it, and the call
\* throws CACHE_BUSY even if it had a result.
DetachBusy(c) ==
  /\ BusyWriter
  /\ pc[c] \in {"handover", "leaving"}
  /\ Connected(Home[c])
  /\ undetached' = undetached \cup {c}
  /\ pc' = [pc EXCEPT ![c] = "done"]
  /\ outcome' = [outcome EXCEPT ![c] = IF @ = "aborted" THEN @ ELSE "failed"]
  /\ UNCHANGED <<db, dir, mode, owner, key, task, abort, failure, scan, batch>>

-----------------------------------------------------------------------------
(* start: execute, accept, publish *)

\* execute returned a verdict and the task was not aborted meanwhile.
ExecuteDone(j) ==
  /\ task[j] = "executing"
  /\ abort[j] = None
  /\ task' = [task EXCEPT ![j] = "ready"]
  /\ UNCHANGED <<db, dir, mode, owner, key, abort, failure, scan, undetached, batch, pc, outcome>>

\* The catch block: an abort's reason takes precedence over the error.
Fails(j, code) ==
  /\ task' = [task EXCEPT ![j] = "failing"]
  /\ failure' = [failure EXCEPT ![j] = AbortWith(j, code)]
  /\ UNCHANGED <<db, dir, mode, owner, key, abort, scan, undetached, batch, pc, outcome>>

\* execute or accept rejects, the writer stays busy, or the task was aborted.
ExecuteFails(j) ==
  /\ task[j] \in {"executing", "ready"}
  /\ Fails(j, "COMPUTE_FAILED")

Publishable(j) == row[j] = "RUNNING" /\ active[key[j]] = j

\* The publishing transaction; an oversized result is not retained.
Publish(j) ==
  /\ task[j] = "ready"
  /\ abort[j] = None
  /\ Publishable(j)
  /\ Subscribed(j)
  /\ entry' \in {entry, [entry EXCEPT ![key[j]] = j]}
  /\ row' = [row EXCEPT ![j] = "COMPLETED"]
  /\ active' = [active EXCEPT ![key[j]] = None]
  /\ task' = [task EXCEPT ![j] = "settling"]
  /\ UNCHANGED <<sub, claim, dir, mode, owner, key, abort, failure, scan,
                 undetached, batch, pc, outcome>>

\* The publishing transaction throws, and with it nothing is written.
PublishRefused(j) ==
  /\ task[j] = "ready"
  /\ abort[j] = None
  /\ \/ ~Publishable(j) /\ Fails(j, "CACHE_OWNERSHIP_LOST")
     \/ Publishable(j) /\ ~Subscribed(j) /\ Fails(j, "ABORTED")

\* Fault: the pending failure is forgotten before it is written.
PublishFailure_CodeDropped(j) ==
  /\ task[j] \in {"failing", "stranded"}
  /\ Connected(owner[j])
  /\ row' = [row EXCEPT ![j] = IF @ = "RUNNING" THEN None ELSE @]
  /\ active' = Deactivated(j)
  /\ failure' = [failure EXCEPT ![j] = None]
  /\ task' = [task EXCEPT ![j] = IF @ = "failing" THEN "settling" ELSE "over"]
  /\ abort' = [abort EXCEPT ![j] = None]
  /\ UNCHANGED <<entry, sub, claim, dir, mode, owner, key, scan, undetached, batch, pc, outcome>>

\* publishFailure, from the catch block or from maintenance.
PublishFailure(j) ==
  /\ task[j] \in {"failing", "stranded"}
  /\ Connected(owner[j])
  /\ row' = [row EXCEPT ![j] = IF @ = "RUNNING" THEN failure[j] ELSE @]
  /\ active' = Deactivated(j)
  /\ failure' = [failure EXCEPT ![j] = None]
  /\ task' = [task EXCEPT ![j] = IF @ = "failing" THEN "settling" ELSE "over"]
  /\ abort' = [abort EXCEPT ![j] = None]
  /\ UNCHANGED <<entry, sub, claim, dir, mode, owner, key, scan, undetached, batch, pc, outcome>>

\* publishFailure gives up; the task ends and maintenance inherits the failure.
FailureBusy(j) ==
  /\ BusyWriter
  /\ task[j] = "failing"
  /\ task' = [task EXCEPT ![j] = "stranded"]
  /\ abort' = [abort EXCEPT ![j] = None]
  /\ UNCHANGED <<db, dir, mode, owner, key, failure, scan, undetached, batch, pc, outcome>>

\* The finally block: owned.delete, removeJob.
Settle(j) ==
  /\ task[j] = "settling"
  /\ Connected(owner[j])
  /\ task' = [task EXCEPT ![j] = "over"]
  /\ row' = RemoveJob(j, row, sub, dir)
  /\ UNCHANGED <<entry, active, sub, claim, dir, mode, owner, key, abort,
                 failure, scan, undetached, batch, pc, outcome>>

-----------------------------------------------------------------------------
(* maintain: one timer per process, every 100 ms and after every detach *)

\* An owned job that is no longer RUNNING would be aborted as CACHE_OWNERSHIP_LOST:
\* RunningHasTask and the task's own transitions leave no such state.

\* The pass reads an owned job without subscribers.
ScanUnsubscribed(j) ==
  /\ Owned(j) /\ abort[j] = None
  /\ Connected(owner[j])
  /\ scan[j] = "none"
  /\ row[j] = "RUNNING" /\ ~Subscribed(j)
  /\ scan' = [scan EXCEPT ![j] = "unsubscribed"]
  /\ UNCHANGED <<db, dir, mode, owner, key, task, abort, failure, undetached, batch, pc, outcome>>

\* Fault: the pass trusts the subscribers it read before the transaction.
Fence_Unchecked(j) ==
  /\ scan[j] = "unsubscribed"
  /\ Connected(owner[j])
  /\ scan' = [scan EXCEPT ![j] = "fenced"]
  /\ active' = Deactivated(j)
  /\ UNCHANGED <<entry, row, sub, claim, dir, mode, owner, key, task,
                 abort, failure, undetached, batch, pc, outcome>>

\* Fault: the job is aborted while callers can still find it.
Fence_AliasKept(j) ==
  /\ scan[j] = "unsubscribed"
  /\ Connected(owner[j])
  /\ scan' = [scan EXCEPT ![j] = IF Subscribed(j) THEN "none" ELSE "fenced"]
  /\ UNCHANGED <<entry, active, row, sub, claim, dir, mode, owner, key, task,
                 abort, failure, undetached, batch, pc, outcome>>

\* The fencing transaction looks for a subscriber again before it removes the
\* job from cache_active.
Fence(j) ==
  /\ scan[j] = "unsubscribed"
  /\ Connected(owner[j])
  /\ \/ /\ Subscribed(j)
        /\ scan' = [scan EXCEPT ![j] = "none"]
        /\ UNCHANGED active
     \/ /\ ~Subscribed(j)
        /\ scan' = [scan EXCEPT ![j] = "fenced"]
        /\ active' = Deactivated(j)
  /\ UNCHANGED <<entry, row, sub, claim, dir, mode, owner, key, task,
                 abort, failure, undetached, batch, pc, outcome>>

AbortFenced(j) ==
  /\ scan[j] = "fenced"
  /\ Connected(owner[j])
  /\ abort' = [abort EXCEPT ![j] = IF Owned(j) THEN AbortWith(j, "ABORTED") ELSE @]
  /\ scan' = [scan EXCEPT ![j] = "none"]
  /\ UNCHANGED <<db, dir, mode, owner, key, task, failure, undetached, batch, pc, outcome>>

FlushDetach(c) ==
  /\ c \in undetached
  /\ Connected(Home[c])
  /\ Unsubscribe(c)
  /\ undetached' = undetached \ {c}
  /\ UNCHANGED <<pc, outcome>>

\* reapSubscribers, by maintenance or by the collector.
Reap(p) ==
  /\ Connected(p)
  /\ \E c \in Calls : sub[c] # None /\ ~Alive(Home[c])
  /\ sub' = [c \in Calls |-> IF Alive(Home[c]) THEN sub[c] ELSE None]
  /\ UNCHANGED <<entry, active, row, claim, dir, memory>>

-----------------------------------------------------------------------------
(* gc and storage retirement *)

Orphans == {j \in Jobs : row[j] = "RUNNING" /\ ~Alive(owner[j])}

\* Entries the collector may evict: none whose identity has a subscribed job.
Evictable ==
  {i \in Identities : /\ entry[i] # None
                      /\ \A c \in Calls : sub[c] # None /\ row[sub[c]] # "absent"
                                             => key[sub[c]] # i}

Excess ==
  LET count == Cardinality({i \in Identities : entry[i] # None})
  IN  IF count > MaxEntries THEN count - MaxEntries ELSE 0

\* The least recent evictable entries, until the store is within its limit.
EvictionChoices ==
  {E \in SUBSET Evictable :
     \/ Cardinality(E) = Excess
     \/ E = Evictable /\ Cardinality(E) < Excess}

\* The collector's transaction: mark jobs of dead owners, evict, drop job rows
\* that nothing refers to.
Collect(p) ==
  /\ p \in Collectors /\ Connected(p)
  /\ \E E \in EvictionChoices :
       LET marked == [j \in Jobs |-> IF j \in Orphans THEN "COMPUTE_OWNER_EXITED" ELSE row[j]]
           kept   == [i \in Identities |-> IF i \in E THEN None ELSE entry[i]]
       IN  /\ entry' = kept
           /\ row' = [j \in Jobs |-> IF \A i \in Identities : kept[i] # j
                                        THEN RemoveJob(j, marked, sub, dir)[j]
                                        ELSE marked[j]]
  /\ active' = [i \in Identities |-> IF active[i] \in Orphans THEN None ELSE active[i]]
  /\ UNCHANGED <<sub, claim, dir, memory>>

\* Fault: an execution that a retained entry names counts as retired.
Unreferenced_Uncached(j) == row[j] # "RUNNING" /\ ~Subscribed(j)

Unreferenced(j) ==
  /\ row[j] # "RUNNING"
  /\ ~Subscribed(j)
  /\ \A i \in Identities : entry[i] # j

\* retireStorage claims rows that no live process has claimed.  A process has
\* one retirement pass in flight here; passes of two processes interleave.
RetireClaim(p) ==
  LET rows == {j \in Jobs : /\ claim[j] = "free" \/ (claim[j] \in Procs /\ ~Alive(claim[j]))
                            /\ Unreferenced(j)}
  IN  /\ p \in Collectors /\ Connected(p)
      /\ batch[p] = {}
      /\ rows # {}
      /\ claim' = [j \in Jobs |-> IF j \in rows THEN p ELSE claim[j]]
      /\ batch' = [batch EXCEPT ![p] = rows]
      /\ UNCHANGED <<entry, active, row, sub, dir, mode, owner, key, task,
                     abort, failure, scan, undetached, pc, outcome>>

\* The directory is renamed to .gc-<id>.
RetireRename(p, j) ==
  /\ Connected(p)
  /\ j \in batch[p]
  /\ j \in dir
  /\ dir' = dir \ {j}
  /\ UNCHANGED <<db, memory>>

\* The renamed tree is deleted, then the storage row and the job row.
RetireFinish(p, j) ==
  /\ Connected(p)
  /\ j \in batch[p]
  /\ j \notin dir
  /\ claim' = [claim EXCEPT ![j] = IF @ = p THEN "absent" ELSE @]
  /\ row' = RemoveJob(j, row, sub, dir)
  /\ batch' = [batch EXCEPT ![p] = @ \ {j}]
  /\ UNCHANGED <<entry, active, sub, dir, mode, owner, key, task, abort,
                 failure, scan, undetached, pc, outcome>>

\* A row fails (its tree cannot be moved or deleted): its own claim is given
\* back and the pass ends, whatever rows it still had to handle.
RetireFails(p, j) ==
  /\ Connected(p)
  /\ j \in batch[p]
  /\ claim' = [claim EXCEPT ![j] = IF @ = p THEN "free" ELSE @]
  /\ batch' = [batch EXCEPT ![p] = {}]
  /\ UNCHANGED <<entry, active, row, sub, dir, mode, owner, key, task,
                 abort, failure, scan, undetached, pc, outcome>>

\* The explicit `delete(identity)`.
Delete(i) ==
  /\ entry[i] # None
  /\ active[i] = None
  /\ i \in Evictable
  /\ entry' = [entry EXCEPT ![i] = None]
  /\ UNCHANGED <<active, row, sub, claim, dir, memory>>

-----------------------------------------------------------------------------
(* Shutdown and death of a process *)

Close(p) ==
  /\ p \in Closers
  /\ mode[p] = "open"
  /\ mode' = [mode EXCEPT ![p] = "closing"]
  /\ UNCHANGED <<db, dir, owner, key, task, abort, failure, scan, undetached, batch, pc, outcome>>

CallsOver(p) == \A c \in Calls : Home[c] = p => pc[c] = "done"

\* The drain time is over: the remaining tasks are aborted.
DrainExpires(p) ==
  /\ mode[p] = "closing"
  /\ CallsOver(p)
  /\ \E j \in Jobs : owner[j] = p /\ Owned(j)
  /\ mode' = [mode EXCEPT ![p] = "expired"]
  /\ abort' = [j \in Jobs |-> IF owner[j] = p /\ Owned(j)
                              THEN AbortWith(j, "COMPUTE_OWNER_EXITED") ELSE abort[j]]
  /\ UNCHANGED <<db, dir, owner, key, task, failure, scan, undetached, batch, pc, outcome>>

\* Fault: close does not wait for terminal transitions that could not commit.
Pending_Forgetful(p) == \E j \in Jobs : owner[j] = p /\ (Owned(j) \/ scan[j] # "none")

\* What close still has to wait for, or else throws CACHE_BUSY.
Pending(p) ==
  \/ \E j \in Jobs : owner[j] = p /\ (Owned(j) \/ scan[j] # "none" \/ failure[j] # None)
  \/ \E c \in undetached : Home[c] = p

Closed(p) ==
  /\ mode[p] \in {"closing", "expired"}
  /\ CallsOver(p)
  /\ ~Pending(p)
  /\ mode' = [mode EXCEPT ![p] = "closed"]
  /\ batch' = [batch EXCEPT ![p] = {}]
  /\ UNCHANGED <<db, dir, owner, key, task, abort, failure, scan, undetached, pc, outcome>>

\* The process ends, at any point; the store and the directories remain.
Exit(p) ==
  /\ p \in Mortal
  /\ mode[p] # "dead"
  /\ mode' = [mode EXCEPT ![p] = "dead"]
  /\ task' = [j \in Jobs |-> IF owner[j] = p THEN "over" ELSE task[j]]
  /\ abort' = [j \in Jobs |-> IF owner[j] = p THEN None ELSE abort[j]]
  /\ failure' = [j \in Jobs |-> IF owner[j] = p THEN None ELSE failure[j]]
  /\ scan' = [j \in Jobs |-> IF owner[j] = p THEN "none" ELSE scan[j]]
  /\ undetached' = {c \in undetached : Home[c] # p}
  /\ batch' = [batch EXCEPT ![p] = {}]
  /\ pc' = [c \in Calls |-> IF Home[c] = p THEN "gone" ELSE pc[c]]
  /\ UNCHANGED <<db, dir, owner, key, outcome>>

-----------------------------------------------------------------------------
Attach(c)  == Hit(c) \/ Join(c) \/ \E j \in Jobs : Create(c, j)
Observe(c) == ObserveFailure(c) \/ ObserveResult(c) \/ ObserveOwnerExit(c)
Run(j)     == ExecuteDone(j) \/ ExecuteFails(j) \/ Publish(j) \/ PublishRefused(j)
Maintain(j) == ScanUnsubscribed(j) \/ Fence(j) \/ AbortFenced(j)

CallNext(c) ==
  \/ Attach(c) \/ Observe(c) \/ Cancel(c)
  \/ Detach(c) \/ DetachBusy(c) \/ FlushDetach(c)

JobNext(j) ==
  \/ Run(j) \/ PublishFailure(j) \/ FailureBusy(j)
  \/ Settle(j) \/ Maintain(j)

ProcNext(p) ==
  \/ Reap(p) \/ Collect(p) \/ RetireClaim(p)
  \/ \E j \in Jobs : RetireRename(p, j) \/ RetireFinish(p, j) \/ RetireFails(p, j)
  \/ Close(p) \/ DrainExpires(p) \/ Closed(p) \/ Exit(p)

Next ==
  \/ \E c \in Calls : CallNext(c)
  \/ \E j \in Jobs : JobNext(j)
  \/ \E p \in Procs : ProcNext(p)
  \/ \E i \in Identities : Delete(i)

Spec == Init /\ [][Next]_vars

(***************************************************************************)
(* A waiting call of a living process goes on, and so does the task of a   *)
(* job; that Run(j) is fair says that an execution returns: reviews run    *)
(* under a deadline, and an aborted one ends.  Nothing is asked of         *)
(* maintenance, of collectors and of close, whose work no call waits for:  *)
(* a caller need not cancel, a process need not close or end, and a writer *)
(* need not stay busy.  Closing cancels the calls of the process.          *)
(***************************************************************************)
Proceed(c) == Attach(c) \/ Observe(c) \/ Detach(c) \/ (mode[Home[c]] = "closing" /\ Cancel(c))
Compute(j) == Run(j) \/ PublishFailure(j) \/ Settle(j)

Fairness ==
  /\ \A c \in Calls : WF_vars(Proceed(c))
  /\ \A j \in Jobs : WF_vars(Compute(j))

FairSpec == Spec /\ Fairness

-----------------------------------------------------------------------------
(* Properties *)

\* A call that a process is still working on.
Waiting(c) == pc[c] = "waiting" /\ Alive(Home[c])

\* Whatever the attach, fence, reap and takeover transactions of several
\* processes do in between, a caller waiting for a computation that still runs
\* waits for the one later callers of its identity join.
SubscribersShareActive ==
  \A c \in Calls : Waiting(c) /\ Joinable(sub[c]) => active[Wanted[c]] = sub[c]

\* No caller finds its job gone: neither removeJob nor the collector drops a row
\* under a waiting caller, so compute never throws CACHE_JOB_LOST.
WaiterKeepsJob ==
  \A c \in Calls : Waiting(c) => sub[c] # None /\ row[sub[c]] # "absent"

\* Who waits is served by a computation that exists and that later callers share.
WaitersServed == SubscribersShareActive /\ WaiterKeepsJob

\* Maintenance aborts a computation as abandoned only when nobody waits for it
\* and nobody can join it any more (the comment in `maintain`).
FencedBeforeAbort ==
  \A j \in Jobs : abort[j] = "ABORTED" =>
    /\ \A i \in Identities : active[i] # j
    /\ \A c \in Calls : Waiting(c) => sub[c] # j

\* While an identity has an entry, no computation of it replaces the result: the
\* entry can only be removed.  The ON CONFLICT update of publication never runs.
SingleResult ==
  [][\A i \in Identities : entry[i] # None => entry'[i] \in {None, entry[i]}]_vars

\* As long as its audit directory exists, what readers are told about a
\* publication is final once it is accepted or rejected.
PublicationIsFinal ==
  [][\A j \in dir \cap dir' :
       Publication(j) # "pending" => Publication(j)' = Publication(j)]_vars

\* Storage retirement chooses its rows in one transaction and moves the directory
\* later; by then too, nobody waits for the execution and no entry names it.
RetireSafe ==
  [][\A j \in dir \ dir' :
       /\ row[j] # "RUNNING"
       /\ \A c \in Calls : Waiting(c) => sub[c] # j
       /\ \A i \in Identities : entry[i] # j]_vars

\* A process that closed its cache leaves neither a RUNNING job that nobody else
\* may reclaim while the process lives, nor a subscription of its own.
ClosedClean ==
  \A p \in Procs : mode[p] = "closed" =>
    /\ \A j \in Jobs : owner[j] = p => row[j] # "RUNNING"
    /\ \A c \in Calls : Home[c] = p => sub[c] = None

\* The inductive invariant behind the invariants above.  Its further parts:

\* a job id nobody has drawn is unknown to the store and to every process;
FreshUnused ==
  \A j \in Jobs : task[j] = "none" =>
    /\ row[j] = "absent" /\ abort[j] = None /\ scan[j] = "none"
    /\ \A c \in Calls : sub[c] # j
    /\ \A i \in Identities : active[i] # j /\ entry[i] # j

\* what cache_active names is RUNNING, and nothing is cached for its identity, so
\* neither insertion into cache_active can meet another row of the identity;
ActiveRunning ==
  \A i \in Identities : active[i] # None =>
    row[active[i]] = "RUNNING" /\ key[active[i]] = i /\ entry[i] = None

\* pendingFailures holds a code exactly from the catch block to the written row;
PendingCode ==
  \A j \in Jobs : (failure[j] # None) <=> (task[j] \in {"failing", "stranded"})

\* a fenced computation has no subscriber at all and stays unreachable;
FencedStays ==
  \A j \in Jobs : (scan[j] = "fenced" \/ abort[j] = "ABORTED") =>
    /\ \A i \in Identities : active[i] # j
    /\ \A c \in Calls : sub[c] # j

\* a RUNNING row of a living owner has a task that will still write it;
RunningHasTask ==
  \A j \in Jobs : row[j] = "RUNNING" =>
    /\ owner[j] \in Procs
    /\ Alive(owner[j]) => task[j] \in {"executing", "ready", "failing", "stranded"}

\* a subscription of a living process has a call or maintenance to delete it.
SubscriptionAccounted ==
  /\ \A c \in Calls : sub[c] # None /\ Alive(Home[c]) =>
       pc[c] \in {"waiting", "handover", "leaving"} \/ c \in undetached
  /\ \A c \in undetached : pc[c] = "done"

IInv ==
  /\ TypeOK
  /\ FreshUnused
  /\ ActiveRunning
  /\ PendingCode
  /\ FencedStays
  /\ RunningHasTask
  /\ SubscriptionAccounted
  /\ SubscribersShareActive
  /\ WaiterKeepsJob
  /\ ClosedClean

\* Every call ends, whatever owner exits, hands over or fails in the meantime.
CallsSettle == <>(\A c \in Calls : pc[c] \in {"done", "gone"})
=============================================================================
