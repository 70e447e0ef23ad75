----------------------------- MODULE CacheProofs -----------------------------
(***************************************************************************)
(* Safety of the identity cache for any number of processes, calls, jobs   *)
(* and identities.  The argument is one inductive invariant, IInv: a job   *)
(* that callers can reach is RUNNING and uncached for its identity, a      *)
(* fenced job is unreachable and unsubscribed, and every subscription and  *)
(* every RUNNING row of a living process has somebody who will end it.     *)
(*                                                                         *)
(* One lemma per action shows that it preserves IInv: first the types,     *)
(* then the parts over variables the action leaves alone, then each part   *)
(* it could disturb.                                                       *)
(***************************************************************************)
EXTENDS SharedExecution, TLAPS

RowStates == {"absent", "RUNNING", "COMPLETED"} \cup Codes

\* What a step does to cache_jobs if removeJob is all it does to it.
RowsDropped ==
  /\ row' \in [Jobs -> RowStates]
  /\ \A k \in Jobs : \/ row'[k] = row[k]
                     \/ /\ row'[k] = "absent" /\ row[k] # "RUNNING"
                        /\ \A c \in Calls : sub'[c] # k

\* removeJob changes nothing but a terminal row without subscribers.
LEMMA RemoveJobEffect ==
  ASSUME row \in [Jobs -> RowStates], NEW j, row' = RemoveJob(j, row, sub', dir)
  PROVE  RowsDropped
<1>1. CASE /\ row[j] \in Codes \cup {"COMPLETED"}
           /\ j \notin dir
           /\ \A c \in Calls : sub'[c] # j
  <2>1. row' = [row EXCEPT ![j] = "absent"]
    BY <1>1 DEF RemoveJob
  <2>2. \A k \in Jobs : k # j => row'[k] = row[k]
    BY <2>1
  <2>3. j \in Jobs => row'[j] = "absent" /\ row[j] # "RUNNING"
    BY <1>1, <2>1 DEF Codes
  <2> QED BY <1>1, <2>1, <2>2, <2>3 DEF RowsDropped, RowStates
<1>2. CASE ~(/\ row[j] \in Codes \cup {"COMPLETED"}
             /\ j \notin dir
             /\ \A c \in Calls : sub'[c] # j)
  BY <1>2 DEF RemoveJob, RowsDropped
<1> QED BY <1>1, <1>2

\* An empty store and idle processes satisfy the invariant.
LEMMA InitInv == Init => IInv
BY CacheAssumption DEF Init, IInv, TypeOK, FreshUnused, ActiveRunning, PendingCode,
   FencedStays, RunningHasTask, SubscriptionAccounted, SubscribersShareActive,
   WaiterKeepsJob, ClosedClean, Waiting, Joinable, Alive, Codes

-----------------------------------------------------------------------------
(* compute *)

\* A call answered by an entry waits for nothing.
LEMMA HitInv ==
  ASSUME IInv, NEW c \in Calls, Hit(c)
  PROVE  IInv'
<1> USE DEF IInv
<1>1. TypeOK'
  BY DEF Hit, db, TypeOK
<1>2. /\ FreshUnused' /\ ActiveRunning' /\ PendingCode' /\ FencedStays'
      /\ RunningHasTask' /\ ClosedClean'
  BY DEF Hit, db, FreshUnused, ActiveRunning, PendingCode, FencedStays,
     RunningHasTask, Alive, ClosedClean
<1>3. /\ SubscriptionAccounted' /\ SubscribersShareActive'
      /\ WaiterKeepsJob'
  BY DEF Hit, db, SubscriptionAccounted, Alive, TypeOK,
     SubscribersShareActive, Joinable, Waiting, WaiterKeepsJob
<1> QED BY <1>1, <1>2, <1>3

\* Joining: cache_active names the job, so it is RUNNING, unfenced and uncached.
LEMMA JoinInv ==
  ASSUME IInv, NEW c \in Calls, Join(c)
  PROVE  IInv'
<1> USE DEF IInv
<1>1. TypeOK'
  BY CacheAssumption DEF Join, Alive, Joinable, TypeOK
<1>2. /\ ActiveRunning' /\ PendingCode' /\ RunningHasTask'
  BY DEF Join, Alive, Joinable, ActiveRunning, PendingCode, RunningHasTask
<1>3. FreshUnused'
  BY DEF Join, Alive, Joinable, FreshUnused, TypeOK
<1>4. FencedStays'
  <2>1. active[Wanted[c]] # None
    BY CacheAssumption DEF Join, TypeOK, Joinable
  <2>2. /\ UNCHANGED <<active, scan, abort>>
        /\ \A d \in Calls : sub'[d] = sub[d] \/ (d = c /\ sub'[d] = active[Wanted[c]])
    BY DEF Join, TypeOK
  <2>3. Wanted[c] \in Identities
    BY CacheAssumption
  <2> QED BY <2>1, <2>2, <2>3 DEF FencedStays
<1>5. SubscriptionAccounted'
  BY DEF Join, Alive, Joinable, SubscriptionAccounted, TypeOK
<1>6. /\ SubscribersShareActive' /\ WaiterKeepsJob'
  BY DEF Join, Alive, Joinable, SubscribersShareActive, Waiting, TypeOK,
     WaiterKeepsJob
<1>7. ClosedClean'
  BY DEF Join, Alive, Joinable, ClosedClean, TypeOK
<1> QED BY <1>1, <1>2, <1>3, <1>4, <1>5, <1>6, <1>7

\* Creating: the drawn id is unused, and the identity has neither entry nor active row
\* but for the job of a dead owner, which is marked.
LEMMA CreateInv ==
  ASSUME IInv, NEW c \in Calls, NEW j \in Jobs, Create(c, j)
  PROVE  IInv'
<1> USE DEF IInv
<1>1. TypeOK'
  BY CacheAssumption DEF Create, Alive, TypeOK, Codes
<1>2. /\ FreshUnused' /\ ActiveRunning' /\ PendingCode' /\ FencedStays'
      /\ RunningHasTask' /\ SubscriptionAccounted'
      /\ SubscribersShareActive' /\ WaiterKeepsJob' /\ ClosedClean'
  BY <1>1, CacheAssumption DEF Create, Alive, FreshUnused, TypeOK,
     ActiveRunning, PendingCode, FencedStays, RunningHasTask,
     SubscriptionAccounted, SubscribersShareActive, Joinable, Waiting,
     WaiterKeepsJob, ClosedClean
<1> QED BY <1>1, <1>2

\* A canceled call waits no more.
LEMMA CancelInv ==
  ASSUME IInv, NEW c \in Calls, Cancel(c)
  PROVE  IInv'
<1> USE DEF IInv
<1>1. TypeOK'
  BY DEF Cancel, db, TypeOK
<1>2. /\ FreshUnused' /\ ActiveRunning' /\ PendingCode' /\ FencedStays'
      /\ RunningHasTask' /\ ClosedClean'
  BY DEF Cancel, db, FreshUnused, ActiveRunning, PendingCode, FencedStays,
     RunningHasTask, Alive, ClosedClean
<1>3. /\ SubscriptionAccounted' /\ SubscribersShareActive'
      /\ WaiterKeepsJob'
  BY DEF Cancel, db, SubscriptionAccounted, Alive, TypeOK,
     SubscribersShareActive, Joinable, Waiting, WaiterKeepsJob
<1> QED BY <1>1, <1>2, <1>3

\* A caller that observes an end only changes its own state.
LEMMA ObserveInv ==
  ASSUME IInv, NEW c \in Calls, Observe(c)
  PROVE  IInv'
<1> USE DEF IInv
<1>1. /\ pc[c] = "waiting"
      /\ \/ pc' = [pc EXCEPT ![c] = "leaving"]
         \/ pc' = [pc EXCEPT ![c] = "handover"]
      /\ outcome' \in {outcome, [outcome EXCEPT ![c] = "result"], [outcome EXCEPT ![c] = "failed"]}
      /\ UNCHANGED <<db, dir, mode, owner, key, task, abort, failure, scan, undetached, batch>>
  BY DEF Observe, ObserveFailure, ObserveResult, ObserveOwnerExit, Ends, Awake
<1>2. TypeOK'
  BY <1>1 DEF TypeOK, db
<1>3. /\ FreshUnused' /\ ActiveRunning' /\ PendingCode' /\ FencedStays'
      /\ RunningHasTask' /\ ClosedClean'
  BY <1>1 DEF FreshUnused, ActiveRunning, PendingCode, FencedStays, RunningHasTask,
     ClosedClean, Alive, db
<1>4. SubscriptionAccounted'
  <2>1. \A d \in Calls : pc'[d] # pc[d] => d = c /\ pc'[d] \in {"handover", "leaving"}
    BY <1>1 DEF TypeOK
  <2>2. c \notin undetached
    BY <1>1 DEF SubscriptionAccounted
  <2> QED BY <1>1, <2>1, <2>2 DEF SubscriptionAccounted, Alive, TypeOK, db
<1>5. SubscribersShareActive' /\ WaiterKeepsJob'
  BY <1>1 DEF SubscribersShareActive, WaiterKeepsJob, Waiting, Joinable, Alive, TypeOK, db
<1> QED BY <1>2, <1>3, <1>4, <1>5

\* A detaching call stops waiting before its subscription goes.
LEMMA DetachInv ==
  ASSUME IInv, NEW c \in Calls, Detach(c)
  PROVE  IInv'
<1> USE DEF IInv
<1>1. RowsDropped
  <2>1. row' = RemoveJob(sub[c], row, sub', dir)
    BY DEF Detach, Unsubscribe
  <2>2. row \in [Jobs -> RowStates]
    BY DEF TypeOK, RowStates, Codes
  <2> QED BY <2>1, <2>2, RemoveJobEffect
<1>2. /\ pc[c] \in {"handover", "leaving"}
      /\ sub' = [sub EXCEPT ![c] = None]
      /\ pc' = [pc EXCEPT ![c] = IF @ = "handover" THEN "attaching" ELSE "done"]
      /\ UNCHANGED <<entry, active, claim, dir, mode, owner, key, task,
                    abort, failure, scan, undetached, batch, outcome>>
  BY DEF Detach, Unsubscribe
<1>3. TypeOK'
  BY <1>1, <1>2 DEF TypeOK, RowsDropped
<1>4. PendingCode'
  BY <1>1, <1>2 DEF PendingCode, RowsDropped
<1>5. /\ FreshUnused' /\ ActiveRunning' /\ FencedStays' /\ RunningHasTask'
      /\ SubscriptionAccounted' /\ SubscribersShareActive'
      /\ WaiterKeepsJob' /\ ClosedClean'
  BY <1>1, <1>2, CacheAssumption DEF FreshUnused, TypeOK, RowsDropped,
     ActiveRunning, FencedStays, RunningHasTask, Alive, SubscriptionAccounted,
     SubscribersShareActive, Joinable, Waiting, WaiterKeepsJob, ClosedClean
<1> QED BY <1>3, <1>4, <1>5

\* A subscription that could not be deleted is handed to maintenance.
LEMMA DetachBusyInv ==
  ASSUME IInv, NEW c \in Calls, DetachBusy(c)
  PROVE  IInv'
<1> USE DEF IInv
<1>1. TypeOK'
  BY DEF DetachBusy, db, TypeOK
<1>2. /\ FreshUnused' /\ ActiveRunning' /\ PendingCode' /\ FencedStays'
      /\ RunningHasTask' /\ ClosedClean'
  BY DEF DetachBusy, db, FreshUnused, ActiveRunning, PendingCode, FencedStays,
     RunningHasTask, Alive, ClosedClean
<1>3. /\ SubscriptionAccounted' /\ SubscribersShareActive'
      /\ WaiterKeepsJob'
  BY DEF DetachBusy, db, SubscriptionAccounted, Alive, TypeOK,
     SubscribersShareActive, Joinable, Waiting, WaiterKeepsJob
<1> QED BY <1>1, <1>2, <1>3

\* Maintenance deletes the subscription of a finished call.
LEMMA FlushDetachInv ==
  ASSUME IInv, NEW c \in Calls, FlushDetach(c)
  PROVE  IInv'
<1> USE DEF IInv
<1>1. RowsDropped
  <2>1. row' = RemoveJob(sub[c], row, sub', dir)
    BY DEF FlushDetach, Unsubscribe
  <2>2. row \in [Jobs -> RowStates]
    BY DEF TypeOK, RowStates, Codes
  <2> QED BY <2>1, <2>2, RemoveJobEffect
<1>2. /\ c \in undetached
      /\ sub' = [sub EXCEPT ![c] = None]
      /\ undetached' = undetached \ {c}
      /\ UNCHANGED <<entry, active, claim, dir, mode, owner, key, task,
                    abort, failure, scan, batch, pc, outcome>>
  BY DEF FlushDetach, Unsubscribe
<1>3. TypeOK'
  BY <1>1, <1>2 DEF TypeOK, RowsDropped
<1>4. PendingCode'
  BY <1>1, <1>2 DEF PendingCode, RowsDropped
<1>5. /\ FreshUnused' /\ ActiveRunning' /\ FencedStays' /\ RunningHasTask'
      /\ SubscriptionAccounted' /\ SubscribersShareActive'
      /\ WaiterKeepsJob' /\ ClosedClean'
  BY <1>1, <1>2, CacheAssumption DEF FreshUnused, TypeOK, RowsDropped,
     ActiveRunning, FencedStays, RunningHasTask, Alive, SubscriptionAccounted,
     SubscribersShareActive, Joinable, Waiting, WaiterKeepsJob, ClosedClean
<1> QED BY <1>3, <1>4, <1>5

-----------------------------------------------------------------------------
(* start *)

\* A verdict is not yet published.
LEMMA ExecuteDoneInv ==
  ASSUME IInv, NEW j \in Jobs, ExecuteDone(j)
  PROVE  IInv'
<1> USE DEF IInv
<1>1. TypeOK'
  BY DEF ExecuteDone, db, TypeOK
<1>2. /\ ActiveRunning' /\ FencedStays' /\ SubscriptionAccounted'
      /\ SubscribersShareActive' /\ WaiterKeepsJob' /\ ClosedClean'
  BY DEF ExecuteDone, db, ActiveRunning, FencedStays, SubscriptionAccounted,
     Alive, SubscribersShareActive, Joinable, Waiting, WaiterKeepsJob,
     ClosedClean
<1>3. /\ FreshUnused' /\ PendingCode' /\ RunningHasTask'
  BY DEF ExecuteDone, db, FreshUnused, TypeOK, PendingCode, RunningHasTask,
     Alive
<1> QED BY <1>1, <1>2, <1>3

\* The catch block records the code to publish.
LEMMA ExecuteFailsInv ==
  ASSUME IInv, NEW j \in Jobs, ExecuteFails(j)
  PROVE  IInv'
<1> USE DEF IInv
<1>1. TypeOK'
  BY DEF ExecuteFails, AbortWith, Fails, db, TypeOK, Codes
<1>2. /\ ActiveRunning' /\ FencedStays' /\ SubscriptionAccounted'
      /\ SubscribersShareActive' /\ WaiterKeepsJob' /\ ClosedClean'
  BY DEF ExecuteFails, Fails, db, ActiveRunning, FencedStays,
     SubscriptionAccounted, Alive, SubscribersShareActive, Joinable, Waiting,
     WaiterKeepsJob, ClosedClean
<1>3. /\ FreshUnused' /\ PendingCode' /\ RunningHasTask'
  BY <1>1, CacheAssumption DEF ExecuteFails, Fails, db, FreshUnused, TypeOK,
     AbortWith, PendingCode, RunningHasTask, Alive
<1> QED BY <1>1, <1>2, <1>3

\* Publication fills the entry and frees cache_active in one transaction.
LEMMA PublishInv ==
  ASSUME IInv, NEW j \in Jobs, Publish(j)
  PROVE  IInv'
<1> USE DEF IInv
<1>1. TypeOK'
  BY DEF Publish, TypeOK
<1>2. SubscriptionAccounted'
  BY DEF Publish, SubscriptionAccounted, Alive
<1>3. /\ FreshUnused' /\ ActiveRunning' /\ PendingCode' /\ FencedStays'
      /\ RunningHasTask' /\ SubscribersShareActive' /\ WaiterKeepsJob'
      /\ ClosedClean'
  BY <1>1, CacheAssumption DEF Publish, FreshUnused, TypeOK, ActiveRunning,
     PendingCode, FencedStays, RunningHasTask, Alive, Publishable, Subscribed,
     SubscribersShareActive, Joinable, Waiting, Codes, WaiterKeepsJob,
     ClosedClean
<1> QED BY <1>1, <1>2, <1>3

\* A refused publication writes nothing.
LEMMA PublishRefusedInv ==
  ASSUME IInv, NEW j \in Jobs, PublishRefused(j)
  PROVE  IInv'
<1> USE DEF IInv
<1>1. TypeOK'
  BY DEF PublishRefused, AbortWith, Fails, Publishable, Subscribed, db,
     TypeOK, Codes
<1>2. /\ ActiveRunning' /\ FencedStays' /\ SubscriptionAccounted'
      /\ SubscribersShareActive' /\ WaiterKeepsJob' /\ ClosedClean'
  BY DEF PublishRefused, Fails, db, ActiveRunning, FencedStays,
     SubscriptionAccounted, Alive, SubscribersShareActive, Joinable, Waiting,
     WaiterKeepsJob, ClosedClean
<1>3. /\ FreshUnused' /\ PendingCode' /\ RunningHasTask'
  BY <1>1, CacheAssumption DEF PublishRefused, Fails, db, FreshUnused, TypeOK,
     AbortWith, Subscribed, PendingCode, RunningHasTask, Alive
<1> QED BY <1>1, <1>2, <1>3

\* A published failure is terminal, and cache_active lets go of the job.
LEMMA PublishFailureInv ==
  ASSUME IInv, NEW j \in Jobs, PublishFailure(j)
  PROVE  IInv'
<1> USE DEF IInv
<1>1. TypeOK'
  BY DEF PublishFailure, Deactivated, TypeOK, PendingCode
<1>2. SubscriptionAccounted'
  BY DEF PublishFailure, Deactivated, SubscriptionAccounted, Alive
<1>3. /\ FreshUnused' /\ ActiveRunning' /\ PendingCode' /\ FencedStays'
      /\ RunningHasTask' /\ SubscribersShareActive' /\ WaiterKeepsJob'
      /\ ClosedClean'
  BY <1>1, CacheAssumption DEF PublishFailure, Deactivated, FreshUnused,
     TypeOK, ActiveRunning, PendingCode, FencedStays, RunningHasTask, Alive,
     Codes, SubscribersShareActive, Joinable, Waiting, WaiterKeepsJob,
     ClosedClean
<1> QED BY <1>1, <1>2, <1>3

\* A stranded failure keeps its code.
LEMMA FailureBusyInv ==
  ASSUME IInv, NEW j \in Jobs, FailureBusy(j)
  PROVE  IInv'
<1> USE DEF IInv
<1>1. TypeOK'
  BY DEF FailureBusy, db, TypeOK
<1>2. /\ ActiveRunning' /\ SubscriptionAccounted' /\ SubscribersShareActive'
      /\ WaiterKeepsJob' /\ ClosedClean'
  BY DEF FailureBusy, db, ActiveRunning, SubscriptionAccounted, Alive,
     SubscribersShareActive, Joinable, Waiting, WaiterKeepsJob, ClosedClean
<1>3. /\ FreshUnused' /\ PendingCode' /\ FencedStays' /\ RunningHasTask'
  BY CacheAssumption DEF FailureBusy, db, FreshUnused, TypeOK, PendingCode,
     FencedStays, RunningHasTask, Alive
<1> QED BY <1>1, <1>2, <1>3

\* removeJob in the finally block drops a terminal row without subscribers.
LEMMA SettleInv ==
  ASSUME IInv, NEW j \in Jobs, Settle(j)
  PROVE  IInv'
<1> USE DEF IInv
<1>1. RowsDropped
  <2>1. row' = RemoveJob(j, row, sub', dir)
    BY DEF Settle
  <2>2. row \in [Jobs -> RowStates]
    BY DEF TypeOK, RowStates, Codes
  <2> QED BY <2>1, <2>2, RemoveJobEffect
<1>2. /\ task[j] = "settling"
      /\ task' = [task EXCEPT ![j] = "over"]
      /\ UNCHANGED <<entry, active, sub, claim, dir, mode, owner, key, abort,
                    failure, scan, undetached, batch, pc, outcome>>
  BY DEF Settle
<1>3. TypeOK'
  BY <1>1, <1>2 DEF TypeOK, RowsDropped
<1>4. /\ FencedStays' /\ SubscriptionAccounted'
  BY <1>1, <1>2 DEF FencedStays, SubscriptionAccounted, Alive, RowsDropped
<1>5. /\ FreshUnused' /\ ActiveRunning' /\ PendingCode' /\ RunningHasTask'
      /\ SubscribersShareActive' /\ WaiterKeepsJob' /\ ClosedClean'
  BY <1>1, <1>2 DEF FreshUnused, TypeOK, RowsDropped, ActiveRunning,
     PendingCode, RunningHasTask, Alive, SubscribersShareActive, Joinable,
     Waiting, WaiterKeepsJob, ClosedClean
<1> QED BY <1>3, <1>4, <1>5

-----------------------------------------------------------------------------
(* maintain *)

\* Reading an unsubscribed job changes nothing shared.
LEMMA ScanUnsubscribedInv ==
  ASSUME IInv, NEW j \in Jobs, ScanUnsubscribed(j)
  PROVE  IInv'
<1> USE DEF IInv
<1>1. TypeOK'
  BY DEF ScanUnsubscribed, db, TypeOK
<1>2. /\ ActiveRunning' /\ PendingCode' /\ RunningHasTask'
      /\ SubscriptionAccounted' /\ SubscribersShareActive'
      /\ WaiterKeepsJob' /\ ClosedClean'
  BY DEF ScanUnsubscribed, db, ActiveRunning, PendingCode, RunningHasTask,
     Alive, SubscriptionAccounted, SubscribersShareActive, Joinable, Waiting,
     WaiterKeepsJob, ClosedClean
<1>3. /\ FreshUnused' /\ FencedStays'
  BY DEF ScanUnsubscribed, db, FreshUnused, TypeOK, FencedStays
<1> QED BY <1>1, <1>2, <1>3

\* A fenced job has lost its active row and has no subscriber.
LEMMA FenceInv ==
  ASSUME IInv, NEW j \in Jobs, Fence(j)
  PROVE  IInv'
<1> USE DEF IInv
<1>1. TypeOK'
  BY DEF Fence, Deactivated, TypeOK
<1>2. /\ PendingCode' /\ RunningHasTask' /\ SubscriptionAccounted'
      /\ WaiterKeepsJob' /\ ClosedClean'
  BY DEF Fence, Deactivated, PendingCode, RunningHasTask, Alive,
     SubscriptionAccounted, WaiterKeepsJob, Waiting, ClosedClean
<1>3. /\ FreshUnused' /\ ActiveRunning' /\ FencedStays'
      /\ SubscribersShareActive'
  BY <1>1, CacheAssumption DEF Fence, Deactivated, FreshUnused, TypeOK,
     ActiveRunning, Subscribed, FencedStays, SubscribersShareActive, Alive,
     Joinable, Waiting
<1> QED BY <1>1, <1>2, <1>3

\* A fenced job is aborted.
LEMMA AbortFencedInv ==
  ASSUME IInv, NEW j \in Jobs, AbortFenced(j)
  PROVE  IInv'
<1> USE DEF IInv
<1>1. TypeOK'
  BY DEF AbortFenced, AbortWith, Owned, db, TypeOK, Codes
<1>2. /\ ActiveRunning' /\ PendingCode' /\ RunningHasTask'
      /\ SubscriptionAccounted' /\ SubscribersShareActive'
      /\ WaiterKeepsJob' /\ ClosedClean'
  BY DEF AbortFenced, db, ActiveRunning, PendingCode, RunningHasTask, Alive,
     SubscriptionAccounted, SubscribersShareActive, Joinable, Waiting,
     WaiterKeepsJob, ClosedClean
<1>3. /\ FreshUnused' /\ FencedStays'
  BY DEF AbortFenced, db, FreshUnused, TypeOK, FencedStays
<1> QED BY <1>1, <1>2, <1>3

\* Only subscriptions of dead processes are reaped.
LEMMA ReapInv ==
  ASSUME IInv, NEW p \in Procs, Reap(p)
  PROVE  IInv'
<1> USE DEF IInv
<1>1. TypeOK'
  BY DEF Reap, Alive, memory, TypeOK
<1>2. /\ ActiveRunning' /\ PendingCode' /\ RunningHasTask'
  BY DEF Reap, Alive, memory, ActiveRunning, PendingCode, RunningHasTask
<1>3. /\ FreshUnused' /\ FencedStays' /\ SubscriptionAccounted'
      /\ SubscribersShareActive' /\ WaiterKeepsJob' /\ ClosedClean'
  BY CacheAssumption DEF Reap, Alive, memory, FreshUnused, TypeOK,
     FencedStays, SubscriptionAccounted, SubscribersShareActive, Joinable,
     Waiting, WaiterKeepsJob, ClosedClean
<1> QED BY <1>1, <1>2, <1>3

-----------------------------------------------------------------------------
(* gc and retirement *)

\* The collector marks jobs of dead owners, evicts entries and drops unreferenced rows.
LEMMA CollectInv ==
  ASSUME IInv, NEW p \in Procs, Collect(p)
  PROVE  IInv'
<1> USE DEF IInv
<1>1. PICK E \in EvictionChoices :
        LET marked == [j \in Jobs |-> IF j \in Orphans THEN "COMPUTE_OWNER_EXITED" ELSE row[j]]
            kept   == [i \in Identities |-> IF i \in E THEN None ELSE entry[i]]
        IN  /\ entry' = kept
            /\ row' = [j \in Jobs |-> IF \A i \in Identities : kept[i] # j
                                         THEN RemoveJob(j, marked, sub, dir)[j]
                                         ELSE marked[j]]
  BY DEF Collect
<1> DEFINE marked == [j \in Jobs |-> IF j \in Orphans THEN "COMPUTE_OWNER_EXITED" ELSE row[j]]
<1>2. /\ entry' \in [Identities -> Jobs \cup {None}]
      /\ \A i \in Identities : entry'[i] \in {entry[i], None}
  BY <1>1 DEF TypeOK
<1>3. \A j \in Jobs :
        \/ row'[j] = marked[j]
        \/ /\ row'[j] = "absent" /\ marked[j] # "RUNNING"
           /\ \A c \in Calls : sub[c] # j
  <2> TAKE j \in Jobs
  <2>1. row'[j] \in {RemoveJob(j, marked, sub, dir)[j], marked[j]}
    BY <1>1
  <2>2. \/ RemoveJob(j, marked, sub, dir)[j] = marked[j]
        \/ /\ RemoveJob(j, marked, sub, dir)[j] = "absent"
           /\ marked[j] # "RUNNING"
           /\ \A c \in Calls : sub[c] # j
    BY DEF RemoveJob, Codes
  <2> QED BY <2>1, <2>2
<1>4. /\ row' \in [Jobs -> RowStates]
      /\ \A j \in Jobs :
           \/ row'[j] = row[j] /\ j \notin Orphans
           \/ row'[j] = "COMPUTE_OWNER_EXITED" /\ j \in Orphans
           \/ /\ row'[j] = "absent" /\ (row[j] # "RUNNING" \/ j \in Orphans)
              /\ \A c \in Calls : sub[c] # j
  <2>1. \A j \in Jobs : row'[j] \in RowStates
    BY <1>3 DEF TypeOK, RowStates, Codes
  <2>2. row' = [j \in Jobs |-> row'[j]]
    BY <1>1
  <2>3. row' \in [Jobs -> RowStates]
    BY <2>1, <2>2
  <2> QED BY <2>3, <1>3
<1>5. /\ active' = [i \in Identities |-> IF active[i] \in Orphans THEN None ELSE active[i]]
      /\ UNCHANGED <<sub, claim, dir, memory>>
  BY DEF Collect
<1> HIDE DEF marked
<1>6. TypeOK'
  BY <1>2, <1>4, <1>5 DEF TypeOK, RowStates, Codes, memory
<1>7. /\ PendingCode'
      /\ SubscriptionAccounted'
  BY <1>5 DEF PendingCode, SubscriptionAccounted, Alive, memory
<1>8. FreshUnused'
  BY <1>2, <1>4, <1>5, CacheAssumption DEF FreshUnused, Orphans, TypeOK, memory
<1>9. ActiveRunning'
  <2> SUFFICES ASSUME NEW i \in Identities, active'[i] # None
               PROVE  row'[active'[i]] = "RUNNING" /\ key'[active'[i]] = i /\ entry'[i] = None
    BY DEF ActiveRunning
  <2>1. active'[i] = active[i] /\ active[i] \notin Orphans /\ active[i] \in Jobs
    BY <1>5 DEF TypeOK
  <2>2. row[active[i]] = "RUNNING" /\ key[active[i]] = i /\ entry[i] = None
    BY <2>1 DEF ActiveRunning
  <2>3. row'[active[i]] = "RUNNING"
    BY <1>4, <2>1, <2>2
  <2> QED BY <1>2, <1>5, <2>1, <2>2, <2>3 DEF memory
<1>10. FencedStays'
  BY <1>5, CacheAssumption DEF FencedStays, TypeOK, memory
<1>11. RunningHasTask'
  BY <1>4, <1>5 DEF RunningHasTask, Orphans, Alive, TypeOK, memory
<1>12. SubscribersShareActive'
  <2> SUFFICES ASSUME NEW c \in Calls, Waiting(c)', Joinable(sub[c])'
               PROVE  active'[Wanted[c]] = sub[c]
    BY <1>5 DEF SubscribersShareActive
  <2>1. Waiting(c) /\ sub[c] \in Jobs
    BY <1>5 DEF Waiting, Alive, WaiterKeepsJob, TypeOK, memory
  <2>2. row[sub[c]] = "RUNNING" /\ Alive(owner[sub[c]]) /\ sub[c] \notin Orphans
    BY <1>4, <1>5, <2>1 DEF Joinable, Alive, Orphans, memory
  <2>3. active[Wanted[c]] = sub[c]
    BY <2>1, <2>2 DEF SubscribersShareActive, Joinable
  <2> QED BY <1>5, <2>2, <2>3, CacheAssumption
<1>13. WaiterKeepsJob'
  BY <1>4, <1>5 DEF WaiterKeepsJob, Waiting, Alive, TypeOK, memory
<1>14. ClosedClean'
  BY <1>4, <1>5 DEF ClosedClean, TypeOK, memory
<1> QED BY <1>6, <1>7, <1>8, <1>9, <1>10, <1>11, <1>12, <1>13, <1>14

\* Claiming storage rows touches no job.
LEMMA RetireClaimInv ==
  ASSUME IInv, NEW p \in Procs, RetireClaim(p)
  PROVE  IInv'
<1> USE DEF IInv
<1>1. TypeOK'
  BY DEF RetireClaim, Alive, TypeOK
<1>2. /\ FreshUnused' /\ ActiveRunning' /\ PendingCode' /\ FencedStays'
      /\ RunningHasTask' /\ SubscriptionAccounted'
      /\ SubscribersShareActive' /\ WaiterKeepsJob' /\ ClosedClean'
  BY DEF RetireClaim, Alive, FreshUnused, ActiveRunning, PendingCode,
     FencedStays, RunningHasTask, SubscriptionAccounted,
     SubscribersShareActive, Joinable, Waiting, WaiterKeepsJob, ClosedClean
<1> QED BY <1>1, <1>2

\* Moving a directory touches no row.
LEMMA RetireRenameInv ==
  ASSUME IInv, NEW p \in Procs, NEW j \in Jobs, RetireRename(p, j)
  PROVE  IInv'
<1> USE DEF IInv
<1>1. TypeOK'
  BY DEF RetireRename, db, memory, TypeOK
<1>2. /\ FreshUnused' /\ ActiveRunning' /\ PendingCode' /\ FencedStays'
      /\ RunningHasTask' /\ SubscriptionAccounted'
      /\ SubscribersShareActive' /\ WaiterKeepsJob' /\ ClosedClean'
  BY DEF RetireRename, db, memory, FreshUnused, ActiveRunning, PendingCode,
     FencedStays, RunningHasTask, Alive, SubscriptionAccounted,
     SubscribersShareActive, Joinable, Waiting, WaiterKeepsJob, ClosedClean
<1> QED BY <1>1, <1>2

\* removeJob after retirement drops a terminal row without subscribers.
LEMMA RetireFinishInv ==
  ASSUME IInv, NEW p \in Procs, NEW j \in Jobs, RetireFinish(p, j)
  PROVE  IInv'
<1> USE DEF IInv
<1>1. RowsDropped
  <2>1. row' = RemoveJob(j, row, sub', dir)
    BY DEF RetireFinish
  <2>2. row \in [Jobs -> RowStates]
    BY DEF TypeOK, RowStates, Codes
  <2> QED BY <2>1, <2>2, RemoveJobEffect
<1>2. /\ claim' = [claim EXCEPT ![j] = IF @ = p THEN "absent" ELSE @]
      /\ batch' = [batch EXCEPT ![p] = @ \ {j}]
      /\ UNCHANGED <<entry, active, sub, dir, mode, owner, key, task, abort,
                    failure, scan, undetached, pc, outcome>>
  BY DEF RetireFinish
<1>3. TypeOK'
  BY <1>1, <1>2 DEF TypeOK, RowsDropped
<1>4. /\ PendingCode' /\ FencedStays' /\ SubscriptionAccounted'
  BY <1>1, <1>2 DEF PendingCode, FencedStays, SubscriptionAccounted, Alive,
     RowsDropped
<1>5. /\ FreshUnused' /\ ActiveRunning' /\ RunningHasTask'
      /\ SubscribersShareActive' /\ WaiterKeepsJob' /\ ClosedClean'
  BY <1>1, <1>2 DEF FreshUnused, TypeOK, RowsDropped, ActiveRunning,
     RunningHasTask, Alive, SubscribersShareActive, Joinable, Waiting,
     WaiterKeepsJob, ClosedClean
<1> QED BY <1>3, <1>4, <1>5

\* A failed retirement touches no job.
LEMMA RetireFailsInv ==
  ASSUME IInv, NEW p \in Procs, NEW j \in Jobs, RetireFails(p, j)
  PROVE  IInv'
<1> USE DEF IInv
<1>1. TypeOK'
  BY DEF RetireFails, TypeOK
<1>2. /\ FreshUnused' /\ ActiveRunning' /\ PendingCode' /\ FencedStays'
      /\ RunningHasTask' /\ SubscriptionAccounted'
      /\ SubscribersShareActive' /\ WaiterKeepsJob' /\ ClosedClean'
  BY DEF RetireFails, FreshUnused, ActiveRunning, PendingCode, FencedStays,
     RunningHasTask, Alive, SubscriptionAccounted, SubscribersShareActive,
     Joinable, Waiting, WaiterKeepsJob, ClosedClean
<1> QED BY <1>1, <1>2

-----------------------------------------------------------------------------
(* Shutdown and death *)

\* A closing process is alive.
LEMMA CloseInv ==
  ASSUME IInv, NEW p \in Procs, Close(p)
  PROVE  IInv'
<1> USE DEF IInv
<1>1. TypeOK'
  BY DEF Close, db, TypeOK
<1>2. /\ FreshUnused' /\ ActiveRunning' /\ PendingCode' /\ FencedStays'
  BY DEF Close, db, FreshUnused, ActiveRunning, PendingCode, FencedStays
<1>3. /\ RunningHasTask' /\ SubscriptionAccounted'
      /\ SubscribersShareActive' /\ WaiterKeepsJob' /\ ClosedClean'
  BY DEF Close, db, RunningHasTask, Alive, TypeOK, SubscriptionAccounted,
     SubscribersShareActive, Joinable, Waiting, WaiterKeepsJob, ClosedClean
<1> QED BY <1>1, <1>2, <1>3

\* Jobs aborted by shutdown keep their rows and subscribers.
LEMMA DrainExpiresInv ==
  ASSUME IInv, NEW p \in Procs, DrainExpires(p)
  PROVE  IInv'
<1> USE DEF IInv
<1>1. TypeOK'
  BY DEF DrainExpires, AbortWith, CallsOver, Owned, db, TypeOK, Codes
<1>2. /\ ActiveRunning' /\ PendingCode'
  BY DEF DrainExpires, db, ActiveRunning, PendingCode
<1>3. /\ FreshUnused' /\ FencedStays' /\ RunningHasTask'
      /\ SubscriptionAccounted' /\ SubscribersShareActive'
      /\ WaiterKeepsJob' /\ ClosedClean'
  BY <1>1 DEF DrainExpires, AbortWith, CallsOver, Owned, db, FreshUnused,
     TypeOK, FencedStays, RunningHasTask, Alive, SubscriptionAccounted,
     SubscribersShareActive, Joinable, Waiting, WaiterKeepsJob, ClosedClean
<1> QED BY <1>1, <1>2, <1>3

\* close ends only without owned jobs, pending failures and pending detaches.
LEMMA ClosedInv ==
  ASSUME IInv, NEW p \in Procs, Closed(p)
  PROVE  IInv'
<1> USE DEF IInv
<1>1. TypeOK'
  BY DEF Closed, db, TypeOK
<1>2. /\ FreshUnused' /\ ActiveRunning' /\ PendingCode' /\ FencedStays'
  BY DEF Closed, db, FreshUnused, ActiveRunning, PendingCode, FencedStays
<1>3. /\ RunningHasTask' /\ SubscriptionAccounted'
      /\ SubscribersShareActive' /\ WaiterKeepsJob' /\ ClosedClean'
  BY <1>1 DEF Closed, db, RunningHasTask, Alive, TypeOK,
     SubscriptionAccounted, SubscribersShareActive, Joinable, Waiting,
     WaiterKeepsJob, CallsOver, Owned, Pending, ClosedClean, PendingCode
<1> QED BY <1>1, <1>2, <1>3

\* The end of a process takes its calls, tasks and memory, and leaves the store.
LEMMA ExitInv ==
  ASSUME IInv, NEW p \in Procs, Exit(p)
  PROVE  IInv'
<1> USE DEF IInv
<1>1. TypeOK'
  BY DEF Exit, db, TypeOK
<1>2. ActiveRunning'
  BY DEF Exit, db, ActiveRunning
<1>3. /\ FreshUnused' /\ PendingCode' /\ FencedStays' /\ RunningHasTask'
      /\ SubscriptionAccounted' /\ SubscribersShareActive'
      /\ WaiterKeepsJob' /\ ClosedClean'
  BY CacheAssumption DEF Exit, db, FreshUnused, TypeOK, PendingCode,
     FencedStays, RunningHasTask, Alive, SubscriptionAccounted,
     SubscribersShareActive, Joinable, Waiting, WaiterKeepsJob, ClosedClean
<1> QED BY <1>1, <1>2, <1>3

\* The explicit deletion removes an entry.
LEMMA DeleteInv ==
  ASSUME IInv, NEW i \in Identities, Delete(i)
  PROVE  IInv'
<1> USE DEF IInv
<1>1. TypeOK'
  BY DEF Delete, memory, TypeOK
<1>2. /\ PendingCode' /\ FencedStays' /\ RunningHasTask'
      /\ SubscriptionAccounted' /\ SubscribersShareActive'
      /\ WaiterKeepsJob' /\ ClosedClean'
  BY DEF Delete, memory, PendingCode, FencedStays, RunningHasTask, Alive,
     SubscriptionAccounted, SubscribersShareActive, Joinable, Waiting,
     WaiterKeepsJob, ClosedClean
<1>3. /\ FreshUnused' /\ ActiveRunning'
  BY DEF Delete, memory, FreshUnused, TypeOK, ActiveRunning
<1> QED BY <1>1, <1>2, <1>3

-----------------------------------------------------------------------------
(* The invariant and its consequences *)

\* A step that changes nothing preserves the invariant.
LEMMA StutterInv == IInv /\ UNCHANGED vars => IInv'
BY DEF vars, db, memory, IInv, TypeOK, FreshUnused, ActiveRunning, PendingCode,
   FencedStays, RunningHasTask, SubscriptionAccounted, SubscribersShareActive,
   WaiterKeepsJob, ClosedClean, Waiting, Joinable, Alive

\* Every step preserves the invariant.
LEMMA NextInv == IInv /\ [Next]_vars => IInv'
<1> SUFFICES ASSUME IInv, [Next]_vars
             PROVE  IInv'
  OBVIOUS
<1>1. ASSUME NEW c \in Calls, CallNext(c) PROVE IInv'
  BY <1>1, HitInv, JoinInv, CreateInv, ObserveInv, CancelInv, DetachInv, DetachBusyInv,
     FlushDetachInv DEF CallNext, Attach
<1>2. ASSUME NEW j \in Jobs, JobNext(j) PROVE IInv'
  BY <1>2, ExecuteDoneInv, ExecuteFailsInv, PublishInv, PublishRefusedInv,
     PublishFailureInv, FailureBusyInv, SettleInv, ScanUnsubscribedInv,
     FenceInv, AbortFencedInv DEF JobNext, Run, Maintain
<1>3. ASSUME NEW p \in Procs, ProcNext(p) PROVE IInv'
  BY <1>3, ReapInv, CollectInv, RetireClaimInv, RetireRenameInv, RetireFinishInv,
     RetireFailsInv, CloseInv, DrainExpiresInv, ClosedInv, ExitInv DEF ProcNext
<1>4. ASSUME NEW i \in Identities, Delete(i) PROVE IInv'
  BY <1>4, DeleteInv
<1>5. CASE UNCHANGED vars
  BY <1>5, StutterInv
<1> QED BY <1>1, <1>2, <1>3, <1>4, <1>5 DEF Next

\* The invariant holds in every reachable state.
THEOREM Invariance == Spec => []IInv
<1>1. Init => IInv
  BY InitInv
<1>2. IInv /\ [Next]_vars => IInv'
  BY NextInv
<1> QED BY <1>1, <1>2, PTL DEF Spec

\* The store and the memory of the processes keep their types.
THEOREM TypeCorrect == Spec => []TypeOK
<1>1. IInv => TypeOK
  BY DEF IInv
<1> QED BY <1>1, Invariance, PTL

\* A waiting caller waits for a job that exists and, while it runs, for the one that
\* later callers of its identity join.
THEOREM Sharing == Spec => []WaitersServed
<1>1. IInv => WaitersServed
  BY DEF IInv, WaitersServed
<1> QED BY <1>1, Invariance, PTL

\* A computation aborted as abandoned is unreachable, and nobody waits for it.
THEOREM Fencing == Spec => []FencedBeforeAbort
<1>1. IInv => FencedBeforeAbort
  BY DEF IInv, FencedStays, FencedBeforeAbort
<1> QED BY <1>1, Invariance, PTL

\* A process that closed its cache leaves no RUNNING job and no subscription behind.
THEOREM CleanClose == Spec => []ClosedClean
<1>1. IInv => ClosedClean
  BY DEF IInv
<1> QED BY <1>1, Invariance, PTL

\* Only publication writes an entry, and then the identity had none.
LEMMA EntryStep ==
  ASSUME IInv, [Next]_vars, NEW i \in Identities, entry[i] # None
  PROVE  entry'[i] \in {None, entry[i]}
<1>1. CASE UNCHANGED entry
  BY <1>1
<1>2. ASSUME NEW j \in Jobs, Publish(j)
      PROVE  entry'[i] \in {None, entry[i]}
  <2>1. CASE key[j] = i
    <3>1. active[i] = j /\ active[i] # None
      BY <1>2, <2>1, CacheAssumption DEF Publish, Publishable
    <3> QED BY <3>1 DEF IInv, ActiveRunning
  <2>2. CASE key[j] # i
    BY <1>2, <2>2 DEF Publish, IInv, TypeOK
  <2> QED BY <2>1, <2>2
<1>3. ASSUME NEW p \in Procs, Collect(p)
      PROVE  entry'[i] \in {None, entry[i]}
  BY <1>3 DEF Collect
<1>4. ASSUME NEW k \in Identities, Delete(k)
      PROVE  entry'[i] \in {None, entry[i]}
  BY <1>4 DEF Delete, IInv, TypeOK
<1>5. ASSUME NEW c \in Calls, CallNext(c) PROVE UNCHANGED entry
  BY <1>5 DEF CallNext, Attach, Hit, Join, Create, Observe, ObserveFailure, ObserveResult,
     ObserveOwnerExit, Ends, Cancel, Detach, DetachBusy, FlushDetach,
     Unsubscribe, db
<1>6. ASSUME NEW j \in Jobs, JobNext(j), ~Publish(j) PROVE UNCHANGED entry
  BY <1>6 DEF JobNext, Run, ExecuteDone, ExecuteFails, PublishRefused, Fails,
     PublishFailure, FailureBusy, Settle, Maintain, ScanUnsubscribed, Fence,
     AbortFenced, db
<1>7. ASSUME NEW p \in Procs, ProcNext(p), ~Collect(p) PROVE UNCHANGED entry
  BY <1>7 DEF ProcNext, Reap, RetireClaim, RetireRename, RetireFinish, RetireFails, Close,
     DrainExpires, Closed, Exit, db
<1> QED BY <1>1, <1>2, <1>3, <1>4, <1>5, <1>6, <1>7 DEF Next, vars, db

\* While an identity has an entry, no computation replaces the result.
THEOREM ResultsStay == Spec => SingleResult
<1>1. IInv /\ [Next]_vars
        => [\A i \in Identities : entry[i] # None => entry'[i] \in {None, entry[i]}]_vars
  BY EntryStep
<1> QED BY <1>1, Invariance, PTL DEF Spec, SingleResult

-----------------------------------------------------------------------------
(***************************************************************************)
(* Publication and storage retirement.  These need to know more: removeJob *)
(* keeps the row while the directory is there, the tasks of a dead process *)
(* are over, and what a retirement pass has claimed stays unused.          *)
(***************************************************************************)

DirHasRow == \A j \in dir : row[j] # "absent"

DeadTasksOver == \A j \in Jobs : owner[j] \in Procs /\ ~Alive(owner[j]) => task[j] = "over"

FreshUnclaimed == \A j \in Jobs : task[j] = "none" => claim[j] = "absent"

ClaimedUnused ==
  \A p \in Procs : \A j \in batch[p] : task[j] # "none" /\ Unreferenced(j)

Kept == DirHasRow /\ DeadTasksOver /\ FreshUnclaimed /\ ClaimedUnused

\* What a step does to a row that is not fresh, and to a fresh one.
RowMoves(j) ==
  \/ row'[j] = row[j]
  \/ row'[j] = "absent" /\ j \notin dir'
  \/ task[j] = "none" /\ row'[j] = "RUNNING" /\ owner'[j] \in Procs /\ Alive(owner[j])'
  \/ row[j] = "RUNNING" /\ row'[j] \in Codes
  \/ row[j] = "RUNNING" /\ row'[j] = "COMPLETED" /\ task[j] = "ready"

LEMMA RemovedAlone ==
  ASSUME NEW subs, NEW states \in [Jobs -> RowStates], NEW j, NEW k \in Jobs
  PROVE  \/ RemoveJob(j, states, subs, dir)[k] = states[k]
         \/ RemoveJob(j, states, subs, dir)[k] = "absent" /\ k \notin dir
BY DEF RemoveJob

LEMMA RowStep ==
  ASSUME IInv, [Next]_vars, NEW k \in Jobs
  PROVE  RowMoves(k)
<1>0. TypeOK /\ row \in [Jobs -> RowStates]
  BY DEF IInv, TypeOK, RowStates
<1>1. ASSUME NEW c \in Calls, CallNext(c) PROVE RowMoves(k)
  <2>1. CASE Detach(c) \/ FlushDetach(c)
    <3>1. row' = RemoveJob(sub[c], row, sub', dir) /\ dir' = dir
      BY <2>1 DEF Detach, FlushDetach, Unsubscribe
    <3>2. QED BY <1>0, <3>1, RemovedAlone DEF RowMoves
  <2>2. ASSUME NEW j \in Jobs, Create(c, j) PROVE RowMoves(k)
    <3>1. row'[k] = row[k] \/ (k = j /\ row'[k] = "RUNNING")
            \/ (row[k] = "RUNNING" /\ row'[k] = "COMPUTE_OWNER_EXITED")
      BY <1>0, <2>2, CacheAssumption DEF Create
    <3>2. owner'[j] = Home[c] /\ Alive(owner[j])' /\ task[j] = "none" /\ Home[c] \in Procs
      BY <1>0, <2>2, CacheAssumption DEF Create, TypeOK, Alive
    <3>3. QED BY <3>1, <3>2 DEF RowMoves, Codes
  <2>3. CASE Hit(c) \/ Join(c) \/ Observe(c) \/ Cancel(c) \/ DetachBusy(c)
    <3>1. row' = row
      BY <2>3 DEF Hit, Join, Observe, ObserveFailure, ObserveResult, ObserveOwnerExit, Ends, Cancel,
                  DetachBusy, db
    <3>2. QED BY <3>1 DEF RowMoves
  <2>4. QED BY <1>1, <2>1, <2>2, <2>3 DEF CallNext, Attach
<1>2. ASSUME NEW j \in Jobs, JobNext(j) PROVE RowMoves(k)
  <2>1. CASE Settle(j)
    <3>1. row' = RemoveJob(j, row, sub, dir) /\ dir' = dir
      BY <2>1 DEF Settle
    <3>2. QED BY <1>0, <3>1, RemovedAlone DEF RowMoves
  <2>2. CASE Publish(j)
    BY <1>0, <2>2 DEF Publish, Publishable, RowMoves
  <2>3. CASE PublishFailure(j)
    <3>1. failure[j] \in Codes
      BY <2>3 DEF PublishFailure, IInv, PendingCode, TypeOK
    <3>2. QED BY <1>0, <2>3, <3>1 DEF PublishFailure, RowMoves
  <2>4. CASE ~Settle(j) /\ ~Publish(j) /\ ~PublishFailure(j)
    <3>1. row' = row
      BY <1>2, <2>4 DEF JobNext, Run, ExecuteDone, ExecuteFails, PublishRefused, Fails, FailureBusy,
                  Maintain, ScanUnsubscribed, Fence, AbortFenced, db
    <3>2. QED BY <3>1 DEF RowMoves
  <2>5. QED BY <2>1, <2>2, <2>3, <2>4
<1>3. ASSUME NEW p \in Procs, ProcNext(p) PROVE RowMoves(k)
  <2>1. CASE Collect(p)
    <3>. DEFINE marked == [j \in Jobs |-> IF j \in Orphans THEN "COMPUTE_OWNER_EXITED" ELSE row[j]]
    <3>1. dir' = dir /\ row'[k] \in {RemoveJob(k, marked, sub, dir)[k], marked[k]}
      BY <2>1 DEF Collect
    <3>2. marked \in [Jobs -> RowStates]
      BY <1>0 DEF RowStates, Codes
    <3>3. marked[k] = row[k] \/ (row[k] = "RUNNING" /\ marked[k] \in Codes)
      BY DEF Orphans, Codes
    <3>. HIDE DEF marked
    <3>4. row'[k] = marked[k] \/ (row'[k] = "absent" /\ k \notin dir)
      BY <3>1, <3>2, RemovedAlone
    <3>5. QED BY <3>1, <3>3, <3>4 DEF RowMoves
  <2>2. ASSUME NEW j \in Jobs, RetireFinish(p, j) PROVE RowMoves(k)
    <3>1. row' = RemoveJob(j, row, sub, dir) /\ dir' = dir
      BY <2>2 DEF RetireFinish
    <3>2. QED BY <1>0, <3>1, RemovedAlone DEF RowMoves
  <2>3. ASSUME ~Collect(p), ~ \E j \in Jobs : RetireFinish(p, j) PROVE RowMoves(k)
    <3>1. row' = row
      BY <1>3, <2>3 DEF ProcNext, Reap, RetireClaim, RetireRename, RetireFails, Close,
                  DrainExpires, Closed, Exit, db
    <3>2. QED BY <3>1 DEF RowMoves
  <2>4. QED BY <2>1, <2>2, <2>3
<1>4. ASSUME (\E i \in Identities : Delete(i)) \/ UNCHANGED vars PROVE RowMoves(k)
  <2>1. row' = row
    BY <1>4 DEF Delete, vars, db
  <2>2. QED BY <2>1 DEF RowMoves
<1>5. QED BY <1>1, <1>2, <1>3, <1>4 DEF Next

\* Only a new job gets an owner, a dead process stays dead, and its tasks are over.
LEMMA OwnerStep ==
  ASSUME IInv, DeadTasksOver, [Next]_vars
  PROVE  /\ \A j \in Jobs : task[j] # "none" => owner'[j] = owner[j] /\ task'[j] # "none"
         /\ \A p \in Procs : ~Alive(p) => ~Alive(p)'
         /\ DeadTasksOver'
<1>0. TypeOK
  BY DEF IInv
<1>. USE DEF DeadTasksOver, Alive, TypeOK
<1>1. ASSUME NEW c \in Calls, NEW j \in Jobs, Create(c, j)
      PROVE  /\ \A k \in Jobs : task[k] # "none" => owner'[k] = owner[k] /\ task'[k] # "none"
             /\ \A p \in Procs : ~Alive(p) => ~Alive(p)'
             /\ DeadTasksOver'
  BY <1>0, <1>1, CacheAssumption DEF Create
<1>2. ASSUME NEW j \in Jobs, Run(j) \/ PublishFailure(j) \/ FailureBusy(j) \/ Settle(j)
      PROVE  /\ \A k \in Jobs : task[k] # "none" => owner'[k] = owner[k] /\ task'[k] # "none"
             /\ \A p \in Procs : ~Alive(p) => ~Alive(p)'
             /\ DeadTasksOver'
  <2>1. owner' = owner /\ mode' = mode
    BY <1>2 DEF Run, ExecuteDone, ExecuteFails, Publish, PublishRefused, Fails, PublishFailure,
                FailureBusy, Settle
  <2>2. /\ task[j] \notin {"none", "over"}
        /\ \E s \in {"ready", "failing", "settling", "over", "stranded"} : task' = [task EXCEPT ![j] = s]
    <3>1. CASE ExecuteDone(j) \/ ExecuteFails(j) \/ Publish(j) \/ PublishRefused(j)
      BY <3>1 DEF ExecuteDone, ExecuteFails, Publish, PublishRefused, Fails
    <3>2. CASE PublishFailure(j)
      BY <3>2 DEF PublishFailure
    <3>3. CASE FailureBusy(j) \/ Settle(j)
      BY <3>3 DEF FailureBusy, Settle
    <3>4. QED BY <1>2, <3>1, <3>2, <3>3 DEF Run
  <2>3. QED BY <1>0, <2>1, <2>2
<1>3. ASSUME NEW p \in Procs, Exit(p)
      PROVE  /\ \A k \in Jobs : task[k] # "none" => owner'[k] = owner[k] /\ task'[k] # "none"
             /\ \A q \in Procs : ~Alive(q) => ~Alive(q)'
             /\ DeadTasksOver'
  BY <1>0, <1>3 DEF Exit
<1>4. ASSUME NEW p \in Procs, Close(p) \/ DrainExpires(p) \/ Closed(p)
      PROVE  /\ \A k \in Jobs : task[k] # "none" => owner'[k] = owner[k] /\ task'[k] # "none"
             /\ \A q \in Procs : ~Alive(q) => ~Alive(q)'
             /\ DeadTasksOver'
  BY <1>0, <1>4 DEF Close, DrainExpires, Closed
<1>5. ASSUME UNCHANGED <<owner, mode, task>>
      PROVE  /\ \A k \in Jobs : task[k] # "none" => owner'[k] = owner[k] /\ task'[k] # "none"
             /\ \A q \in Procs : ~Alive(q) => ~Alive(q)'
             /\ DeadTasksOver'
  BY <1>0, <1>5
<1>6. ASSUME NEW c \in Calls, CallNext(c), ~ \E j \in Jobs : Create(c, j)
      PROVE  UNCHANGED <<owner, mode, task>>
  BY <1>6 DEF CallNext, Attach, Hit, Join, Observe, ObserveFailure, ObserveResult,
     ObserveOwnerExit, Ends, Cancel, Detach, DetachBusy, FlushDetach, Unsubscribe
<1>7. ASSUME NEW j \in Jobs, Maintain(j)
      PROVE  UNCHANGED <<owner, mode, task>>
  BY <1>7 DEF Maintain, ScanUnsubscribed, Fence, AbortFenced
<1>8. ASSUME NEW p \in Procs, ProcNext(p), ~Exit(p), ~(Close(p) \/ DrainExpires(p) \/ Closed(p))
      PROVE  UNCHANGED <<owner, mode, task>>
  BY <1>8 DEF ProcNext, Reap, Collect, RetireClaim, RetireRename, RetireFinish, RetireFails, memory
<1>9. ASSUME (\E i \in Identities : Delete(i)) \/ UNCHANGED vars
      PROVE  UNCHANGED <<owner, mode, task>>
  BY <1>9 DEF Delete, vars, memory
<1>10. QED BY <1>1, <1>2, <1>3, <1>4, <1>5, <1>6, <1>7, <1>8, <1>9 DEF Next, JobNext

\* A directory appears only with its row.
LEMMA DirStep ==
  ASSUME IInv, DirHasRow, [Next]_vars
  PROVE  DirHasRow'
<1>1. ASSUME NEW k, k \in dir', k \notin dir
      PROVE  k \in Jobs /\ row'[k] = "RUNNING"
  <2>1. ASSUME NEW c \in Calls, NEW j \in Jobs, Create(c, j)
        PROVE  k \in Jobs /\ row'[k] = "RUNNING"
    <3>1. dir' = dir \/ dir' = dir \cup {j}
      BY <2>1 DEF Create
    <3>2. row'[j] = "RUNNING"
      BY <2>1, CacheAssumption DEF Create, IInv, FreshUnused
    <3>3. QED BY <1>1, <3>1, <3>2
  <2>2. ASSUME NEW c \in Calls, CallNext(c), ~ \E j \in Jobs : Create(c, j)
        PROVE  dir' = dir
    BY <2>2 DEF CallNext, Attach, Hit, Join, Observe, ObserveFailure, ObserveResult,
       ObserveOwnerExit, Ends, Cancel, Detach, DetachBusy, FlushDetach, Unsubscribe
  <2>3. ASSUME NEW j \in Jobs, JobNext(j)
        PROVE  dir' = dir
    BY <2>3 DEF JobNext, Run, ExecuteDone, ExecuteFails, Publish, PublishRefused, Fails,
       PublishFailure, FailureBusy, Settle, Maintain, ScanUnsubscribed, Fence, AbortFenced
  <2>4. ASSUME NEW p \in Procs, ProcNext(p)
        PROVE  dir' \subseteq dir
    BY <2>4 DEF ProcNext, Reap, Collect, RetireClaim, RetireRename, RetireFinish, RetireFails,
       Close, DrainExpires, Closed, Exit
  <2>5. ASSUME (\E i \in Identities : Delete(i)) \/ UNCHANGED vars
        PROVE  dir' = dir
    BY <2>5 DEF Delete, vars
  <2>6. QED BY <1>1, <2>1, <2>2, <2>3, <2>4, <2>5 DEF Next
<1>2. ASSUME NEW k, k \in dir', k \in dir
      PROVE  row'[k] # "absent"
  <2>1. k \in Jobs /\ row[k] # "absent"
    BY <1>2 DEF DirHasRow, IInv, TypeOK
  <2>2. RowMoves(k)
    BY <2>1, RowStep
  <2>3. QED BY <1>2, <2>1, <2>2 DEF RowMoves, Codes
<1>3. QED BY <1>1, <1>2 DEF DirHasRow

\* Only a new job and a row that failed to retire become free; the collectors claim
\* no fresh job.
LEMMA ClaimStep ==
  ASSUME IInv, DeadTasksOver, FreshUnclaimed, ClaimedUnused, [Next]_vars
  PROVE  FreshUnclaimed'
<1>0. TypeOK /\ \A j \in Jobs : task[j] # "none" => task'[j] # "none"
  BY OwnerStep DEF IInv
<1>. SUFFICES ASSUME NEW k \in Jobs, task'[k] = "none"
              PROVE  claim'[k] = "absent"
  BY DEF FreshUnclaimed
<1>1. task[k] = "none" /\ claim[k] = "absent"
  BY <1>0 DEF FreshUnclaimed
<1>2. ASSUME NEW c \in Calls, NEW j \in Jobs, Create(c, j)
      PROVE  claim'[k] = claim[k]
  BY <1>0, <1>2 DEF Create, TypeOK
<1>3. ASSUME NEW p \in Procs, RetireClaim(p)
      PROVE  claim'[k] = claim[k]
  <2>1. ~(claim[k] = "free" \/ claim[k] \in Procs)
    BY <1>1, CacheAssumption
  <2>2. QED BY <1>3, <2>1 DEF RetireClaim
<1>4. ASSUME NEW p \in Procs, NEW j \in Jobs, RetireFinish(p, j) \/ RetireFails(p, j)
      PROVE  claim'[k] = claim[k]
  <2>1. k # j
    BY <1>1, <1>4 DEF RetireFinish, RetireFails, ClaimedUnused
  <2>2. QED BY <1>0, <1>4, <2>1 DEF RetireFinish, RetireFails, TypeOK
<1>5. ASSUME NEW c \in Calls, CallNext(c), ~ \E j \in Jobs : Create(c, j)
      PROVE  claim' = claim
  BY <1>5 DEF CallNext, Attach, Hit, Join, Observe, ObserveFailure, ObserveResult,
     ObserveOwnerExit, Ends, Cancel, Detach, DetachBusy, FlushDetach, Unsubscribe, db
<1>6. ASSUME NEW j \in Jobs, JobNext(j)
      PROVE  claim' = claim
  BY <1>6 DEF JobNext, Run, ExecuteDone, ExecuteFails, Publish, PublishRefused, Fails,
     PublishFailure, FailureBusy, Settle, Maintain, ScanUnsubscribed, Fence, AbortFenced, db
<1>7. ASSUME NEW p \in Procs, ProcNext(p), ~RetireClaim(p),
             ~ \E j \in Jobs : RetireFinish(p, j) \/ RetireFails(p, j)
      PROVE  claim' = claim
  BY <1>7 DEF ProcNext, Reap, Collect, RetireRename, Close, DrainExpires, Closed, Exit, db
<1>8. ASSUME (\E i \in Identities : Delete(i)) \/ UNCHANGED vars
      PROVE  claim' = claim
  BY <1>8 DEF Delete, vars, db
<1>9. QED BY <1>1, <1>2, <1>3, <1>4, <1>5, <1>6, <1>7, <1>8 DEF Next

\* Nobody subscribes to, and no entry comes to name, an execution that is neither new
\* nor RUNNING.
LEMMA UnusedStep ==
  ASSUME IInv, [Next]_vars, NEW k \in Jobs, task[k] # "none", Unreferenced(k)
  PROVE  Unreferenced(k)'
<1>0. TypeOK
  BY DEF IInv
<1>1. row'[k] # "RUNNING"
  BY RowStep DEF Unreferenced, RowMoves, Codes
<1>2. \A c \in Calls : sub'[c] # k
  <2>1. ASSUME NEW c \in Calls, Join(c)
        PROVE  \A d \in Calls : sub'[d] # k
    <3>1. sub' = [sub EXCEPT ![c] = active[Wanted[c]]] /\ row[active[Wanted[c]]] = "RUNNING"
      BY <2>1 DEF Join, Joinable
    <3>2. QED BY <1>0, <3>1 DEF TypeOK, Unreferenced, Subscribed
  <2>2. ASSUME NEW c \in Calls, NEW j \in Jobs, Create(c, j)
        PROVE  \A d \in Calls : sub'[d] # k
    BY <1>0, <2>2 DEF Create, TypeOK, Unreferenced, Subscribed
  <2>3. ASSUME NEW c \in Calls, Detach(c) \/ FlushDetach(c)
        PROVE  \A d \in Calls : sub'[d] # k
    <3>1. sub' = [sub EXCEPT ![c] = None]
      BY <2>3 DEF Detach, FlushDetach, Unsubscribe
    <3>2. QED BY <1>0, <3>1, CacheAssumption DEF TypeOK, Unreferenced, Subscribed
  <2>4. ASSUME NEW p \in Procs, Reap(p)
        PROVE  \A d \in Calls : sub'[d] # k
    BY <2>4, CacheAssumption DEF Reap, Unreferenced, Subscribed
  <2>5. ASSUME sub' = sub
        PROVE  \A d \in Calls : sub'[d] # k
    BY <2>5 DEF Unreferenced, Subscribed
  <2>6. ASSUME NEW c \in Calls, CallNext(c), ~Join(c), ~ \E j \in Jobs : Create(c, j),
               ~Detach(c), ~FlushDetach(c)
        PROVE  sub' = sub
    BY <2>6 DEF CallNext, Attach, Hit, Observe, ObserveFailure, ObserveResult,
       ObserveOwnerExit, Ends, Cancel, DetachBusy, db
  <2>7. ASSUME NEW j \in Jobs, JobNext(j)
        PROVE  sub' = sub
    BY <2>7 DEF JobNext, Run, ExecuteDone, ExecuteFails, Publish, PublishRefused, Fails,
       PublishFailure, FailureBusy, Settle, Maintain, ScanUnsubscribed, Fence, AbortFenced, db
  <2>8. ASSUME NEW p \in Procs, ProcNext(p), ~Reap(p)
        PROVE  sub' = sub
    BY <2>8 DEF ProcNext, Collect, RetireClaim, RetireRename, RetireFinish, RetireFails, Close,
       DrainExpires, Closed, Exit, db
  <2>9. ASSUME (\E i \in Identities : Delete(i)) \/ UNCHANGED vars
        PROVE  sub' = sub
    BY <2>9 DEF Delete, vars, db
  <2>10. QED BY <2>1, <2>2, <2>3, <2>4, <2>5, <2>6, <2>7, <2>8, <2>9 DEF Next
<1>3. \A i \in Identities : entry'[i] # k
  <2>. SUFFICES ASSUME NEW i \in Identities
                PROVE  entry'[i] # k
    OBVIOUS
  <2>1. entry[i] # k /\ k # None
    BY CacheAssumption DEF Unreferenced
  <2>2. ASSUME NEW j \in Jobs, Publish(j)
        PROVE  entry'[i] # k
    <3>1. j # k
      BY <2>2 DEF Publish, Publishable, Unreferenced
    <3>2. QED BY <1>0, <2>1, <2>2, <3>1 DEF Publish, TypeOK
  <2>3. CASE entry[i] = None /\ ~ \E j \in Jobs : Publish(j)
    <3>1. ASSUME NEW p \in Procs, Collect(p)
          PROVE  entry'[i] # k
      BY <2>1, <3>1 DEF Collect
    <3>2. ASSUME NEW l \in Identities, Delete(l)
          PROVE  entry'[i] # k
      BY <1>0, <2>1, <3>2 DEF Delete, TypeOK
    <3>3. ASSUME NEW c \in Calls, CallNext(c) PROVE entry' = entry
      BY <3>3 DEF CallNext, Attach, Hit, Join, Create, Observe, ObserveFailure, ObserveResult,
         ObserveOwnerExit, Ends, Cancel, Detach, DetachBusy, FlushDetach, Unsubscribe, db
    <3>4. ASSUME NEW j \in Jobs, JobNext(j), ~Publish(j) PROVE entry' = entry
      BY <3>4 DEF JobNext, Run, ExecuteDone, ExecuteFails, PublishRefused, Fails,
         PublishFailure, FailureBusy, Settle, Maintain, ScanUnsubscribed, Fence, AbortFenced, db
    <3>5. ASSUME NEW p \in Procs, ProcNext(p), ~Collect(p) PROVE entry' = entry
      BY <3>5 DEF ProcNext, Reap, RetireClaim, RetireRename, RetireFinish, RetireFails, Close,
         DrainExpires, Closed, Exit, db
    <3>6. CASE UNCHANGED vars
      BY <2>1, <3>6 DEF vars, db
    <3>7. QED BY <2>1, <2>3, <3>1, <3>2, <3>3, <3>4, <3>5, <3>6 DEF Next
  <2>4. CASE entry[i] # None
    BY <2>1, <2>4, EntryStep
  <2>5. QED BY <2>2, <2>3, <2>4
<1>4. QED BY <1>1, <1>2, <1>3 DEF Unreferenced, Subscribed

LEMMA BatchStep ==
  ASSUME IInv, DeadTasksOver, FreshUnclaimed, ClaimedUnused, [Next]_vars
  PROVE  ClaimedUnused'
<1>0. TypeOK /\ \A j \in Jobs : task[j] # "none" => task'[j] # "none"
  BY OwnerStep DEF IInv
<1>. SUFFICES ASSUME NEW p \in Procs, NEW k \in batch'[p]
              PROVE  task'[k] # "none" /\ Unreferenced(k)'
  BY DEF ClaimedUnused
<1>1. ASSUME NEW q \in Procs, RetireClaim(q)
      PROVE  k \in Jobs /\ task[k] # "none" /\ Unreferenced(k)
  <2>1. CASE k \in batch[p]
    BY <1>0, <2>1 DEF ClaimedUnused, TypeOK
  <2>2. CASE k \notin batch[p]
    <3>1. k \in Jobs /\ Unreferenced(k) /\ (claim[k] = "free" \/ claim[k] \in Procs)
      BY <1>0, <1>1, <2>2 DEF RetireClaim, TypeOK
    <3>2. task[k] # "none"
      BY <3>1, CacheAssumption DEF FreshUnclaimed
    <3>3. QED BY <3>1, <3>2
  <2>3. QED BY <2>1, <2>2
<1>2. ASSUME ~ \E q \in Procs : RetireClaim(q)
      PROVE  k \in batch[p]
  <2>1. ASSUME NEW q \in Procs, NEW j \in Jobs, RetireFinish(q, j) \/ RetireFails(q, j)
        PROVE  k \in batch[p]
    BY <1>0, <2>1 DEF RetireFinish, RetireFails, TypeOK
  <2>2. ASSUME NEW q \in Procs, Closed(q) \/ Exit(q)
        PROVE  k \in batch[p]
    BY <1>0, <2>2 DEF Closed, Exit, TypeOK
  <2>3. ASSUME NEW c \in Calls, CallNext(c) PROVE batch' = batch
    BY <2>3 DEF CallNext, Attach, Hit, Join, Create, Observe, ObserveFailure, ObserveResult,
       ObserveOwnerExit, Ends, Cancel, Detach, DetachBusy, FlushDetach, Unsubscribe
  <2>4. ASSUME NEW j \in Jobs, JobNext(j) PROVE batch' = batch
    BY <2>4 DEF JobNext, Run, ExecuteDone, ExecuteFails, Publish, PublishRefused, Fails,
       PublishFailure, FailureBusy, Settle, Maintain, ScanUnsubscribed, Fence, AbortFenced
  <2>5. ASSUME NEW q \in Procs, Reap(q) \/ Collect(q) \/ Close(q) \/ DrainExpires(q)
                                   \/ \E j \in Jobs : RetireRename(q, j)
        PROVE  batch' = batch
    BY <2>5 DEF Reap, Collect, RetireRename, Close, DrainExpires, memory
  <2>6. ASSUME (\E i \in Identities : Delete(i)) \/ UNCHANGED vars
        PROVE  batch' = batch
    BY <2>6 DEF Delete, vars, memory
  <2>7. QED BY <1>2, <2>1, <2>2, <2>3, <2>4, <2>5, <2>6 DEF Next, ProcNext
<1>3. k \in Jobs /\ task[k] # "none" /\ Unreferenced(k)
  BY <1>0, <1>1, <1>2 DEF ClaimedUnused, TypeOK
<1>4. QED BY <1>0, <1>3, UnusedStep

\* What readers are told and what the collectors rely on, in every reachable state.
THEOREM KeptInvariance == Spec => [](IInv /\ Kept)
<1>1. Init => IInv /\ Kept
  BY InitInv DEF Init, Kept, DirHasRow, DeadTasksOver, Alive, FreshUnclaimed, ClaimedUnused
<1>2. (IInv /\ Kept) /\ [Next]_vars => (IInv /\ Kept)'
  BY NextInv, DirStep, OwnerStep, ClaimStep, BatchStep DEF Kept
<1>3. QED BY <1>1, <1>2, PTL DEF Spec

LEMMA PublicationStep ==
  ASSUME IInv, Kept, [Next]_vars, NEW k \in dir \cap dir', Publication(k) # "pending"
  PROVE  Publication(k)' = Publication(k)
<1>1. k \in Jobs /\ row[k] \in RowStates /\ row[k] # "absent" /\ row'[k] # "absent"
  BY DirStep DEF IInv, TypeOK, RowStates, Kept, DirHasRow
<1>2. task[k] # "none"
  BY <1>1 DEF IInv, FreshUnused
<1>3. owner'[k] = owner[k] /\ \A p \in Procs : ~Alive(p) => ~Alive(p)'
  BY <1>1, <1>2, OwnerStep DEF Kept
<1>4. RowMoves(k)
  BY <1>1, RowStep
<1>5. CASE row[k] = "RUNNING"
  <2>1. owner[k] \in Procs /\ ~Alive(owner[k]) /\ Publication(k) = "rejected"
    BY <1>1, <1>5 DEF Publication, IInv, RunningHasTask, Codes
  <2>2. ~Alive(owner[k])'
    BY <1>3, <2>1 DEF Alive
  <2>3. task[k] = "over"
    BY <1>1, <2>1 DEF Kept, DeadTasksOver
  <2>4. row'[k] = "RUNNING" \/ row'[k] \in Codes
    BY <1>1, <1>2, <1>4, <1>5, <2>3 DEF RowMoves
  <2>5. QED BY <2>1, <2>2, <2>4 DEF Publication, Codes
<1>6. CASE row[k] # "RUNNING"
  <2>1. row'[k] = row[k]
    BY <1>1, <1>2, <1>4, <1>6 DEF RowMoves
  <2>2. QED BY <1>1, <1>6, <2>1 DEF Publication, RowStates
<1>7. QED BY <1>5, <1>6

\* What readers of an audit are told of its publication is final, as long as the audit
\* is there: neither a takeover, a collector, nor a death in between changes it.
THEOREM PublicationStays == Spec => PublicationIsFinal
<1>1. (IInv /\ Kept) /\ [Next]_vars
        => [\A j \in dir \cap dir' :
              Publication(j) # "pending" => Publication(j)' = Publication(j)]_vars
  BY PublicationStep
<1>2. QED BY <1>1, KeptInvariance, PTL DEF Spec, PublicationIsFinal

\* A directory is moved away only when nobody runs it, waits for it or has an entry
\* that names it, however long ago its row was claimed.
THEOREM RetirementSafe == Spec => RetireSafe
<1>1. ASSUME IInv, Kept, Next, NEW k \in dir \ dir'
      PROVE  k \in Jobs /\ \E p \in Procs : k \in batch[p]
  <2>1. ASSUME NEW c \in Calls, CallNext(c) PROVE dir \subseteq dir'
    BY <2>1 DEF CallNext, Attach, Hit, Join, Create, Observe, ObserveFailure, ObserveResult,
       ObserveOwnerExit, Ends, Cancel, Detach, DetachBusy, FlushDetach, Unsubscribe
  <2>2. ASSUME NEW j \in Jobs, JobNext(j) PROVE dir' = dir
    BY <2>2 DEF JobNext, Run, ExecuteDone, ExecuteFails, Publish, PublishRefused, Fails,
       PublishFailure, FailureBusy, Settle, Maintain, ScanUnsubscribed, Fence, AbortFenced
  <2>3. ASSUME NEW p \in Procs, ProcNext(p), ~ \E j \in Jobs : RetireRename(p, j) PROVE dir' = dir
    BY <2>3 DEF ProcNext, Reap, Collect, RetireClaim, RetireFinish, RetireFails, Close,
       DrainExpires, Closed, Exit
  <2>4. ASSUME NEW i \in Identities, Delete(i) PROVE dir' = dir
    BY <2>4 DEF Delete
  <2>5. PICK p \in Procs, j \in Jobs : RetireRename(p, j)
    BY <1>1, <2>1, <2>2, <2>3, <2>4 DEF Next
  <2>6. QED BY <1>1, <2>5 DEF RetireRename, IInv, TypeOK
<1>2. ASSUME IInv, Kept, [Next]_vars
      PROVE  [\A j \in dir \ dir' :
                /\ row[j] # "RUNNING"
                /\ \A c \in Calls : Waiting(c) => sub[c] # j
                /\ \A i \in Identities : entry[i] # j]_vars
  BY <1>1, <1>2 DEF Kept, ClaimedUnused, Unreferenced, Subscribed
<1>3. QED BY <1>2, KeptInvariance, PTL DEF Spec, RetireSafe

-----------------------------------------------------------------------------
(***************************************************************************)
(* Proofs about SharedExecution, for any processes, attempts, receipts and *)
(* people: the steps of receipts, executions and people use the cache the  *)
(* way IdentityCache allows, so all that is proved of the cache holds      *)
(* here; a terminal receipt stays; and a receipt has a verdict only if its *)
(* execution was accepted with it.                                         *)
(***************************************************************************)

Statuses == {"QUEUED", "RUNNING", "WAITING_HUMAN"} \cup Terminal

Commands == [step : {"claim", "mirror", "submit", "commit"}, of : Receipts, in : Jobs]

SharedTypeOK ==
  /\ receipt \in [Receipts -> [status : Statuses, source : Jobs \cup {None}, claim : People \cup {None}]]
  /\ token \in [Receipts -> Calls \cup {None}]
  /\ serves \in [Calls -> Receipts \cup {None}]
  /\ filed \subseteq Calls
  /\ told \in [Calls -> Jobs \cup {None}]
  /\ got \in [Calls -> Jobs \cup {None}]
  /\ maker \in [Jobs -> Calls \cup {None}]
  /\ exec \in [Jobs -> {"absent", "RUNNING", "WAITING_HUMAN"} \cup Terminal]
  /\ holder \in [Jobs -> People \cup {None}]
  /\ checked \subseteq Jobs
  /\ edited \subseteq Procs
  /\ sound \subseteq Jobs
  /\ cmd \in [People -> Commands \cup {Idle}]

-----------------------------------------------------------------------------
(* The invariant *)

\* An execution begins with its job, in a directory of its own.
BegunExecutions ==
  \A j \in Jobs :
    /\ task[j] = "none" => exec[j] = "absent"
    /\ task[j] \in {"executing", "ready"} => exec[j] # "absent"
    /\ exec[j] # "absent" => j \in dir

\* A verdict was given on a workspace of the identity, or the edit will be noticed.
VerdictsSound == \A j \in Jobs : exec[j] \in Verdicts => j \in sound \/ owner[j] \in edited

\* The execution returned with the verdict of its Run.
ReturnedVerdict == \A j \in Jobs : task[j] = "ready" => exec[j] \in Verdicts

\* A verdict on a workspace that had the identity.
Good(j) == exec[j] \in Verdicts /\ j \in sound

CheckedGood == \A j \in checked : Good(j)

\* What the cache published is good, and readers of the execution are told so.
PublishedGood ==
  /\ \A j \in Jobs : row[j] = "COMPLETED" => Good(j)
  /\ \A i \in Identities : entry[i] # None => row[entry[i]] = "COMPLETED"

Accepted(j) == j \in Jobs /\ Good(j) /\ row[j] = "COMPLETED"

\* The value that compute returned.
GotAccepted ==
  \A c \in Calls :
    /\ serves[c] = None => outcome[c] # "result"
    /\ c \in Begun \ filed /\ outcome[c] = "result" => Accepted(got[c])

\* A verdict in a receipt.
FiledAccepted ==
  \A r \in Receipts : receipt[r].status \in Verdicts =>
    Accepted(receipt[r].source) /\ exec[receipt[r].source] = receipt[r].status

Shares ==
  /\ BegunExecutions /\ VerdictsSound /\ ReturnedVerdict /\ CheckedGood
  /\ PublishedGood /\ GotAccepted /\ FiledAccepted

SharedInv == SharedTypeOK /\ IInv /\ Kept /\ Shares

-----------------------------------------------------------------------------
(* The cache underneath *)

\* What the workers, the executions and the people do to the cache is what IdentityCache
\* allows.
LEMMA CacheStepOf ==
  ASSUME [SharedNext]_allVars
  PROVE  [Next]_vars
<1>1. ASSUME NEW c \in Calls, AttemptNext(c)
      PROVE  [Next]_vars
  <2>1. CASE (\E r \in Receipts : Begin(c, r)) \/ Mirror(c) \/ FileResult(c) \/ FileError(c)
    BY <2>1 DEF Begin, Mirror, FileResult, FileError, Files
  <2>2. CASE HitEntry(c) \/ JoinJob(c) \/ TakeResult(c)
    BY <2>2 DEF HitEntry, JoinJob, TakeResult, Next, CallNext, Attach, Observe
  <2>3. ASSUME NEW j \in Jobs, CreateJob(c, j)
        PROVE  [Next]_vars
    BY <2>3 DEF CreateJob, Next, CallNext, Attach
  <2>4. CASE CallStep(c)
    BY <2>4 DEF CallStep, Next, CallNext, Observe
  <2>5. QED BY <1>1, <2>1, <2>2, <2>3, <2>4 DEF AttemptNext
<1>2. ASSUME NEW j \in Jobs, ExecNext(j)
      PROVE  [Next]_vars
  BY <1>2 DEF ExecNext, Notify, Executed, ExecutionFails, Accept, PublishChecked, Next, JobNext,
              Run
<1>3. ASSUME NEW r \in Receipts, CancelRun(r) \/ Reconcile(r) \/ Retry(r)
      PROVE  UNCHANGED vars
  BY <1>3 DEF CancelRun, Reconcile, Retry
<1>4. ASSUME NEW h \in People, PersonNext(h)
      PROVE  UNCHANGED vars
  BY <1>4 DEF PersonNext, Start, Claim, MirrorClaim, CheckInput, Judge
<1>5. ASSUME NEW p \in Procs, Edit(p)
      PROVE  UNCHANGED vars
  BY <1>5 DEF Edit
<1>6. ASSUME CacheStep
      PROVE  Next
  BY <1>6 DEF CacheStep, Next, JobNext, ProcNext
<1>7. CASE UNCHANGED allVars
  BY <1>7 DEF allVars
<1>8. QED BY <1>1, <1>2, <1>3, <1>4, <1>5, <1>6, <1>7 DEF SharedNext

-----------------------------------------------------------------------------
(* Receipts *)

\* The worker files the value that compute returned.
FilesValue(r) ==
  \E c \in Begun \ filed :
    /\ outcome[c] = "result" /\ serves[c] = r
    /\ receipt'[r].status = exec[got[c]] /\ receipt'[r].source = got[c]

\* What a step does to a receipt.
ReceiptMoves(r) ==
  \/ receipt'[r] = receipt[r]
  \/ ~Over(r) /\ receipt'[r].status \notin Verdicts
  \/ receipt[r].status = "ERROR" /\ receipt'[r].status = "QUEUED"
  \/ ~Over(r) /\ FilesValue(r)

ReceiptType == [status : Statuses, source : Jobs \cup {None}, claim : People \cup {None}]

LEMMA ReceiptStep ==
  ASSUME SharedTypeOK, [SharedNext]_allVars, NEW k \in Receipts
  PROVE  ReceiptMoves(k)
<1>0. receipt \in [Receipts -> ReceiptType] /\ receipt[k] \in ReceiptType
  BY DEF SharedTypeOK, ReceiptType
<1>1. ASSUME receipt' = receipt PROVE ReceiptMoves(k)
  BY <1>1 DEF ReceiptMoves
<1>3. ASSUME NEW c \in Calls, NEW r \in Receipts, Begin(c, r)
      PROVE  ReceiptMoves(k)
  BY <1>0, <1>3 DEF Begin, ReceiptMoves, Over, Terminal, Verdicts, ReceiptType
<1>4. ASSUME NEW old \in ReceiptType, NEW j \in Jobs \cup {None}
      PROVE  /\ Copied(old, j).status = old.status
             /\ Mirrored(old, j).status \in {old.status, "WAITING_HUMAN"}
  BY <1>4 DEF Copied, Mirrored, ReceiptType
<1>5. \A r \in Receipts : Failed(receipt[r]).status = "ERROR"
  BY <1>0 DEF Failed, Copied, ReceiptType
<1>6. ASSUME NEW c \in Calls, Mirror(c)
      PROVE  ReceiptMoves(k)
  <2>1. serves[c] \in Receipts /\ told[c] \in Jobs
    BY <1>6 DEF Mirror, Begun, SharedTypeOK
  <2>2. receipt' = [receipt EXCEPT ![serves[c]] = Mirrored(receipt[serves[c]], told[c])]
    BY <1>6 DEF Mirror
  <2>3. ~Over(serves[c])
    BY <1>6 DEF Mirror
  <2>4. QED BY <1>0, <1>4, <2>1, <2>2, <2>3 DEF ReceiptMoves, Over, Terminal, Verdicts
<1>7. ASSUME NEW c \in Calls, FileResult(c)
      PROVE  ReceiptMoves(k)
  <2>1. c \in Begun \ filed /\ outcome[c] = "result" /\ serves[c] \in Receipts
    BY <1>7 DEF FileResult, Files, Begun, SharedTypeOK
  <2>2. \/ receipt'[k] = receipt[k]
        \/ /\ ~Over(k) /\ k = serves[c]
           /\ receipt'[k] = [receipt[k] EXCEPT !.status = exec[got[c]], !.source = got[c]]
    BY <1>0, <1>7 DEF FileResult, Files
  <2>3. QED BY <1>0, <2>1, <2>2 DEF ReceiptMoves, FilesValue, ReceiptType
<1>8. ASSUME NEW c \in Calls, FileError(c)
      PROVE  ReceiptMoves(k)
  <2>1. \/ receipt'[k] = receipt[k]
        \/ ~Over(k) /\ receipt'[k] = Failed(receipt[k])
    BY <1>0, <1>8 DEF FileError, Files
  <2>2. QED BY <1>5, <2>1 DEF ReceiptMoves, Verdicts
<1>9. ASSUME NEW r \in Receipts, CancelRun(r)
      PROVE  ReceiptMoves(k)
  BY <1>0, <1>5, <1>9 DEF CancelRun, ReceiptMoves, Verdicts
<1>10. ASSUME NEW r \in Receipts, Reconcile(r)
       PROVE  ReceiptMoves(k)
  BY <1>0, <1>5, <1>10 DEF Reconcile, ReceiptMoves, Verdicts
<1>11. ASSUME NEW r \in Receipts, Retry(r)
       PROVE  ReceiptMoves(k)
  BY <1>0, <1>11 DEF Retry, ReceiptMoves, ReceiptType
<1>12. ASSUME NEW j \in Jobs, Executed(j)
       PROVE  ReceiptMoves(k)
  <2>1. \/ receipt'[k] = receipt[k]
        \/ ~Over(k) /\ receipt'[k] = Copied(receipt[k], j)
    BY <1>0, <1>12 DEF Executed
  <2>2. QED BY <1>0, <1>4, <2>1 DEF ReceiptMoves, Over, Terminal
<1>13. ASSUME NEW h \in People, MirrorClaim(h)
       PROVE  ReceiptMoves(k)
  <2>1. cmd[h].in \in Jobs
    BY <1>13 DEF MirrorClaim, Steps, SharedTypeOK, Commands, Idle
  <2>2. \/ receipt'[k] = receipt[k]
        \/ ~Over(k) /\ receipt'[k] = Mirrored(receipt[k], cmd[h].in)
    BY <1>0, <1>13 DEF MirrorClaim
  <2>3. QED BY <1>0, <1>4, <2>1, <2>2 DEF ReceiptMoves, Over, Terminal, Verdicts
<1>14. ASSUME NEW c \in Calls, AttemptNext(c)
       PROVE  ReceiptMoves(k)
  <2>1. ASSUME HitEntry(c) \/ JoinJob(c) \/ \E j \in Jobs : CreateJob(c, j)
        PROVE  ReceiptMoves(k)
    <3>1. c \in Begun /\ \E j : OnState(c, j)
      BY <2>1 DEF HitEntry, JoinJob, CreateJob
    <3>2. QED BY <1>0, <3>1 DEF OnState, ReceiptMoves, Over, Terminal, Verdicts, ReceiptType, Statuses
  <2>2. ASSUME TakeResult(c) \/ CallStep(c)
        PROVE  receipt' = receipt
    BY <2>2 DEF TakeResult, CallStep, receipts
  <2>3. QED BY <1>1, <1>3, <1>6, <1>7, <1>8, <1>14, <2>1, <2>2 DEF AttemptNext
<1>15. ASSUME NEW j \in Jobs, ExecNext(j), ~Executed(j)
       PROVE  receipt' = receipt
  BY <1>15 DEF ExecNext, Notify, ExecutionFails, Accept, PublishChecked, receipts
<1>16. ASSUME NEW h \in People, PersonNext(h), ~MirrorClaim(h)
       PROVE  receipt' = receipt
  BY <1>16 DEF PersonNext, Start, Claim, CheckInput, Judge, receipts
<1>17. ASSUME (\E p \in Procs : Edit(p)) \/ CacheStep \/ UNCHANGED allVars
       PROVE  receipt' = receipt
  BY <1>17 DEF Edit, CacheStep, allVars, receipts
<1>18. QED
  BY <1>1, <1>9, <1>10, <1>11, <1>12, <1>13, <1>14, <1>15, <1>16, <1>17 DEF SharedNext

-----------------------------------------------------------------------------
(* Types *)

ReceiptTypes ==
  /\ receipt \in [Receipts -> ReceiptType]
  /\ token \in [Receipts -> Calls \cup {None}]
  /\ serves \in [Calls -> Receipts \cup {None}]
  /\ filed \subseteq Calls
  /\ told \in [Calls -> Jobs \cup {None}]
  /\ got \in [Calls -> Jobs \cup {None}]

ExecutionTypes ==
  /\ maker \in [Jobs -> Calls \cup {None}]
  /\ exec \in [Jobs -> {"absent", "RUNNING", "WAITING_HUMAN"} \cup Terminal]
  /\ holder \in [Jobs -> People \cup {None}]
  /\ checked \subseteq Jobs
  /\ sound \subseteq Jobs

PeopleTypes ==
  /\ edited \subseteq Procs
  /\ cmd \in [People -> Commands \cup {Idle}]

LEMMA TypesSplit == SharedTypeOK <=> ReceiptTypes /\ ExecutionTypes /\ PeopleTypes
BY DEF SharedTypeOK, ReceiptTypes, ReceiptType, ExecutionTypes, PeopleTypes

LEMMA CopyTypes ==
  ASSUME SharedTypeOK, NEW old \in ReceiptType, NEW j \in Jobs \cup {None}
  PROVE  /\ Copied(old, j) \in ReceiptType
         /\ j # None => Mirrored(old, j) \in ReceiptType
         /\ Failed(old) \in ReceiptType
BY DEF SharedTypeOK, Copied, Mirrored, Failed, ReceiptType, Statuses, Terminal

LEMMA ReceiptTypesStep ==
  ASSUME SharedTypeOK, TypeOK, GotAccepted, [SharedNext]_allVars
  PROVE  ReceiptTypes'
<1>0. ReceiptTypes
  BY TypesSplit
<1>. USE DEF ReceiptTypes
<1>1. ASSUME UNCHANGED receipts PROVE ReceiptTypes'
  BY <1>0, <1>1 DEF receipts
<1>2. ASSUME NEW c \in Calls, NEW j \in Jobs, c \in Begun, OnState(c, j)
      PROVE  /\ receipt' \in [Receipts -> ReceiptType]
             /\ told' \in [Calls -> Jobs \cup {None}]
  BY <1>0, <1>2 DEF OnState, Begun, ReceiptType, Statuses
<1>3. ASSUME NEW c \in Calls, AttemptNext(c)
      PROVE  ReceiptTypes'
  <2>1. ASSUME NEW r \in Receipts, Begin(c, r)
        PROVE  ReceiptTypes'
    BY <1>0, <2>1 DEF Begin, ReceiptType, Statuses
  <2>2. CASE Mirror(c)
    <3>1. serves[c] \in Receipts /\ told[c] \in Jobs
      BY <1>0, <2>2 DEF Mirror, Begun
    <3>2. told[c] # None => Mirrored(receipt[serves[c]], told[c]) \in ReceiptType
      BY <1>0, <3>1, CopyTypes
    <3>3. receipt' = [receipt EXCEPT ![serves[c]] = Mirrored(receipt[serves[c]], told[c])]
            /\ told[c] # None
      BY <2>2 DEF Mirror
    <3>4. receipt' \in [Receipts -> ReceiptType]
      BY <1>0, <3>1, <3>2, <3>3
    <3>5. QED BY <1>0, <2>2, <3>4 DEF Mirror
  <2>3. ASSUME NEW new \in ReceiptType, Files(c, new)
        PROVE  ReceiptTypes'
    BY <1>0, <2>3 DEF Files, Begun
  <2>4. CASE FileResult(c)
    <3>1. c \in Begun \ filed /\ outcome[c] = "result" /\ serves[c] \in Receipts
      BY <1>0, <2>4 DEF FileResult, Files, Begun
    <3>2. got[c] \in Jobs /\ exec[got[c]] \in Verdicts
      BY <3>1 DEF GotAccepted, Accepted, Good
    <3>3. [receipt[serves[c]] EXCEPT !.status = exec[got[c]], !.source = got[c]] \in ReceiptType
      BY <1>0, <3>1, <3>2 DEF ReceiptType, Statuses, Terminal
    <3>4. QED BY <2>3, <2>4, <3>3 DEF FileResult
  <2>5. CASE FileError(c)
    <3>1. c \in Begun \ filed /\ serves[c] \in Receipts
      BY <1>0, <2>5 DEF FileError, Files, Begun
    <3>2. Failed(receipt[serves[c]]) \in ReceiptType
      BY <1>0, <3>1, CopyTypes
    <3>3. QED BY <2>3, <2>5, <3>2 DEF FileError
  <2>6. CASE HitEntry(c)
    <3>1. entry[Wanted[c]] \in Jobs
      BY <2>6, CacheAssumption DEF HitEntry, Hit, TypeOK
    <3>2. QED BY <1>0, <1>2, <2>6, <3>1 DEF HitEntry
  <2>7. CASE JoinJob(c)
    <3>1. active[Wanted[c]] \in Jobs
      BY <2>7, CacheAssumption DEF JoinJob, Join, TypeOK
    <3>2. QED BY <1>0, <1>2, <2>7, <3>1 DEF JoinJob
  <2>8. ASSUME NEW j \in Jobs, CreateJob(c, j)
        PROVE  ReceiptTypes'
    BY <1>0, <1>2, <2>8 DEF CreateJob
  <2>9. CASE TakeResult(c)
    BY <1>0, <2>9 DEF TakeResult, TypeOK
  <2>10. CASE CallStep(c)
    BY <1>1, <2>10 DEF CallStep
  <2>11. QED
    BY <1>3, <2>1, <2>2, <2>4, <2>5, <2>6, <2>7, <2>8, <2>9, <2>10 DEF AttemptNext
<1>4. ASSUME NEW r \in Receipts, CancelRun(r) \/ Reconcile(r) \/ Retry(r)
      PROVE  ReceiptTypes'
  <2>1. Failed(receipt[r]) \in ReceiptType /\ receipt[r] \in ReceiptType
    BY <1>0, CopyTypes
  <2>2. CASE CancelRun(r)
    BY <1>0, <2>1, <2>2 DEF CancelRun
  <2>3. CASE Reconcile(r)
    BY <1>0, <2>1, <2>3 DEF Reconcile
  <2>4. CASE Retry(r)
    BY <1>0, <2>1, <2>4 DEF Retry, ReceiptType, Statuses
  <2>5. QED BY <1>4, <2>2, <2>3, <2>4
<1>5. ASSUME NEW j \in Jobs, Executed(j)
      PROVE  ReceiptTypes'
  <2>1. \A r \in Receipts : Copied(receipt[r], j) \in ReceiptType
    BY <1>0, CopyTypes
  <2>2. QED BY <1>0, <1>5, <2>1 DEF Executed
<1>6. ASSUME NEW h \in People, MirrorClaim(h)
      PROVE  ReceiptTypes'
  <2>1. cmd[h].in \in Jobs /\ cmd[h].of \in Receipts
    BY <1>6 DEF MirrorClaim, Steps, SharedTypeOK, Commands, Idle
  <2>2. None \notin Jobs
    BY CacheAssumption
  <2>3. Mirrored(receipt[cmd[h].of], cmd[h].in) \in ReceiptType
    BY <1>0, <2>1, <2>2, CopyTypes
  <2>4. QED BY <1>0, <1>6, <2>1, <2>3 DEF MirrorClaim
<1>7. ASSUME NEW j \in Jobs, ExecNext(j), ~Executed(j)
      PROVE  UNCHANGED receipts
  BY <1>7 DEF ExecNext, Notify, ExecutionFails, Accept, PublishChecked
<1>8. ASSUME NEW h \in People, PersonNext(h), ~MirrorClaim(h)
      PROVE  UNCHANGED receipts
  BY <1>8 DEF PersonNext, Start, Claim, CheckInput, Judge
<1>9. ASSUME (\E p \in Procs : Edit(p)) \/ CacheStep \/ UNCHANGED allVars
      PROVE  UNCHANGED receipts
  BY <1>9 DEF Edit, CacheStep, allVars
<1>10. QED
  BY <1>1, <1>3, <1>4, <1>5, <1>6, <1>7, <1>8, <1>9 DEF SharedNext

LEMMA ExecutionTypesStep ==
  ASSUME SharedTypeOK, [SharedNext]_allVars
  PROVE  ExecutionTypes' /\ PeopleTypes'
<1>0. ExecutionTypes /\ PeopleTypes
  BY TypesSplit
<1>. USE DEF ExecutionTypes, PeopleTypes, Terminal
<1>1. ASSUME UNCHANGED <<executions, people>>
      PROVE  ExecutionTypes' /\ PeopleTypes'
  BY <1>0, <1>1 DEF executions, people
<1>2. ASSUME NEW c \in Calls, NEW j \in Jobs, CreateJob(c, j)
      PROVE  ExecutionTypes' /\ PeopleTypes'
  BY <1>0, <1>2 DEF CreateJob, people
<1>3. ASSUME NEW c \in Calls, AttemptNext(c), ~ \E j \in Jobs : CreateJob(c, j)
      PROVE  UNCHANGED <<executions, people>>
  BY <1>3 DEF AttemptNext, Begin, Mirror, FileResult, FileError, Files, HitEntry, JoinJob,
              TakeResult, CallStep
<1>4. ASSUME NEW j \in Jobs, ExecNext(j)
      PROVE  ExecutionTypes' /\ PeopleTypes'
  <2>1. CASE Notify(j)
    BY <1>0, <2>1 DEF Notify, people
  <2>2. CASE ExecutionFails(j)
    BY <1>0, <2>2 DEF ExecutionFails, people
  <2>3. CASE Accept(j)
    BY <1>0, <2>3 DEF Accept, people
  <2>4. CASE Executed(j) \/ PublishChecked(j)
    BY <1>1, <2>4 DEF Executed, PublishChecked
  <2>5. QED BY <1>4, <2>1, <2>2, <2>3, <2>4 DEF ExecNext
<1>5. ASSUME NEW r \in Receipts, CancelRun(r) \/ Reconcile(r) \/ Retry(r)
      PROVE  UNCHANGED <<executions, people>>
  BY <1>5 DEF CancelRun, Reconcile, Retry
<1>6. ASSUME NEW h \in People, PersonNext(h)
      PROVE  ExecutionTypes' /\ PeopleTypes'
  <2>0. ASSUME cmd[h].step \in {"claim", "mirror", "submit", "commit"}
        PROVE  /\ cmd[h].in \in Jobs
               /\ \A step \in {"mirror", "commit"} :
                    Goes(h, step) => cmd' \in [People -> Commands \cup {Idle}]
    BY <1>0, <2>0 DEF Commands, Idle, Goes
  <2>1. Returns(h) => cmd' \in [People -> Commands \cup {Idle}]
    BY <1>0 DEF Returns
  <2>2. ASSUME NEW r \in Receipts, NEW step \in {"claim", "submit"}, Start(h, r, step)
        PROVE  ExecutionTypes' /\ PeopleTypes'
    <3>1. receipt[r].source \in Jobs
      BY <2>2 DEF Start, SharedTypeOK
    <3>2. [step |-> step, of |-> r, in |-> receipt[r].source] \in Commands
      BY <3>1 DEF Commands
    <3>3. QED BY <1>0, <2>2, <3>1, <3>2 DEF Start
  <2>3. CASE Claim(h)
    BY <1>0, <2>0, <2>1, <2>3 DEF Claim, Steps
  <2>4. CASE MirrorClaim(h)
    BY <1>0, <2>1, <2>4 DEF MirrorClaim, executions
  <2>5. CASE CheckInput(h)
    BY <1>0, <2>0, <2>1, <2>5 DEF CheckInput, Steps
  <2>6. CASE Judge(h)
    <3>1. Given \subseteq Verdicts
      BY SharedAssumption DEF Verdicts
    <3>2. QED BY <1>0, <2>0, <2>1, <2>6, <3>1 DEF Judge, Steps
  <2>7. QED BY <1>6, <2>2, <2>3, <2>4, <2>5, <2>6 DEF PersonNext
<1>7. ASSUME NEW p \in Procs, Edit(p)
      PROVE  ExecutionTypes' /\ PeopleTypes'
  BY <1>0, <1>7 DEF Edit, executions
<1>8. ASSUME CacheStep \/ UNCHANGED allVars
      PROVE  UNCHANGED <<executions, people>>
  BY <1>8 DEF CacheStep, allVars
<1>9. QED
  BY <1>1, <1>2, <1>3, <1>4, <1>5, <1>6, <1>7, <1>8 DEF SharedNext

-----------------------------------------------------------------------------
(* Executions *)

\* What a step does to the status of an execution.
ExecMoves(j) ==
  \/ exec'[j] = exec[j]
  \/ exec'[j] = "RUNNING" /\ task[j] = "none" /\ j \in dir' /\ task'[j] # "none"
  \/ exec[j] \notin Terminal \cup {"absent"} /\ exec'[j] \in {"WAITING_HUMAN", "ERROR"}
  \/ /\ exec[j] = "WAITING_HUMAN" /\ exec'[j] \in Verdicts
     /\ owner[j] \in edited \/ j \in sound'

LEMMA ExecStep ==
  ASSUME SharedInv, [SharedNext]_allVars, NEW k \in Jobs
  PROVE  ExecMoves(k)
<1>0. /\ exec \in [Jobs -> {"absent", "RUNNING", "WAITING_HUMAN"} \cup Terminal]
      /\ sound \subseteq Jobs /\ TypeOK /\ SharedTypeOK
  BY DEF SharedInv, SharedTypeOK, IInv
<1>. USE DEF ExecMoves
<1>1. ASSUME NEW c \in Calls, NEW j \in Jobs, CreateJob(c, j)
      PROVE  ExecMoves(k)
  <2>1. task[j] = "none" /\ j \in dir' /\ task'[j] # "none"
    BY <1>0, <1>1 DEF CreateJob, Create, TypeOK
  <2>2. QED BY <1>0, <1>1, <2>1 DEF CreateJob
<1>2. ASSUME NEW j \in Jobs, Notify(j)
      PROVE  ExecMoves(k)
  BY <1>0, <1>2 DEF Notify, Terminal, Verdicts
<1>3. ASSUME NEW j \in Jobs, ExecutionFails(j)
      PROVE  ExecMoves(k)
  <2>1. exec[j] # "absent"
    BY <1>3 DEF ExecutionFails, ExecuteFails, SharedInv, Shares, BegunExecutions
  <2>2. QED BY <1>0, <1>3, <2>1 DEF ExecutionFails, ExecOver
<1>4. ASSUME NEW h \in People, NEW r \in Receipts, NEW step \in {"claim", "submit"}, Start(h, r, step)
      PROVE  ExecMoves(k)
  BY <1>0, <1>4 DEF Start, Terminal, Verdicts
<1>5. ASSUME NEW h \in People, CheckInput(h)
      PROVE  ExecMoves(k)
  BY <1>0, <1>5 DEF CheckInput, Terminal, Verdicts
<1>6. ASSUME NEW h \in People, Judge(h)
      PROVE  ExecMoves(k)
  BY <1>0, <1>6, SharedAssumption DEF Judge, Awaits, Terminal, Verdicts
<1>7. ASSUME NEW c \in Calls, AttemptNext(c), ~ \E j \in Jobs : CreateJob(c, j)
      PROVE  exec' = exec
  BY <1>7 DEF AttemptNext, Begin, Mirror, FileResult, FileError, Files, HitEntry, JoinJob,
              TakeResult, CallStep, executions
<1>8. ASSUME NEW j \in Jobs, ExecNext(j), ~Notify(j), ~ExecutionFails(j)
      PROVE  exec' = exec
  BY <1>8 DEF ExecNext, Executed, Accept, PublishChecked, executions
<1>9. ASSUME (\E h \in People : Claim(h) \/ MirrorClaim(h))
               \/ (\E r \in Receipts : CancelRun(r) \/ Reconcile(r) \/ Retry(r))
               \/ (\E p \in Procs : Edit(p)) \/ CacheStep \/ UNCHANGED allVars
      PROVE  exec' = exec
  BY <1>9 DEF Claim, MirrorClaim, CancelRun, Reconcile, Retry, Edit, CacheStep, allVars, executions
<1>10. QED
  BY <1>1, <1>2, <1>3, <1>4, <1>5, <1>6, <1>7, <1>8, <1>9 DEF SharedNext, ExecNext, PersonNext

\* Nothing is forgotten: what was judged, checked, edited, begun or filed, and where.
LEMMA Grows ==
  ASSUME SharedInv, [SharedNext]_allVars
  PROVE  /\ sound \subseteq sound' /\ edited \subseteq edited' /\ filed \subseteq filed'
         /\ dir \subseteq dir'
         /\ \A c \in Calls : serves[c] # None => serves'[c] = serves[c]
<1>0. SharedTypeOK
  BY DEF SharedInv
<1>1. ASSUME NEW c \in Calls, AttemptNext(c)
      PROVE  sound' = sound /\ edited' = edited
  BY <1>1 DEF AttemptNext, Begin, Mirror, FileResult, FileError, Files, HitEntry, JoinJob,
              CreateJob, TakeResult, CallStep, executions, people
<1>2. ASSUME NEW j \in Jobs, ExecNext(j)
      PROVE  sound' = sound /\ edited' = edited
  BY <1>2 DEF ExecNext, Notify, Executed, ExecutionFails, Accept, PublishChecked, executions, people
<1>3. ASSUME NEW h \in People, PersonNext(h)
      PROVE  sound \subseteq sound' /\ edited' = edited
  BY <1>3 DEF PersonNext, Start, Claim, MirrorClaim, CheckInput, Judge, executions
<1>4. ASSUME (\E r \in Receipts : CancelRun(r) \/ Reconcile(r) \/ Retry(r))
               \/ CacheStep \/ UNCHANGED allVars
      PROVE  sound' = sound /\ edited' = edited
  BY <1>4 DEF CancelRun, Reconcile, Retry, CacheStep, allVars, executions, people
<1>5. ASSUME NEW p \in Procs, Edit(p)
      PROVE  sound' = sound /\ edited \subseteq edited'
  BY <1>5 DEF Edit, executions
<1>6. sound \subseteq sound' /\ edited \subseteq edited'
  BY <1>1, <1>2, <1>3, <1>4, <1>5 DEF SharedNext
<1>7. dir \subseteq dir'
  <2>1. ASSUME UNCHANGED vars PROVE dir' = dir
    BY <2>1 DEF vars
  <2>2. ASSUME NEW c \in Calls, AttemptNext(c)
        PROVE  dir \subseteq dir'
    BY <2>1, <2>2 DEF AttemptNext, Begin, Mirror, FileResult, FileError, Files, HitEntry, JoinJob,
                CreateJob, TakeResult, CallStep, Hit, Join, ObserveResult, ObserveFailure,
                ObserveOwnerExit, Ends, Detach, Unsubscribe, Cancel
  <2>3. ASSUME NEW j \in Jobs, ExecNext(j)
        PROVE  dir \subseteq dir'
    BY <2>1, <2>3 DEF ExecNext, Notify, Executed, ExecutionFails, Accept, PublishChecked,
                ExecuteDone, ExecuteFails, Fails, Publish, PublishRefused
  <2>4. ASSUME CacheStep PROVE dir' = dir
    BY <2>4 DEF CacheStep, PublishFailure, Settle, Maintain, ScanUnsubscribed, Fence, AbortFenced,
                Reap, Exit
  <2>5. ASSUME (\E h \in People : PersonNext(h)) \/ (\E p \in Procs : Edit(p))
                 \/ (\E r \in Receipts : CancelRun(r) \/ Reconcile(r) \/ Retry(r))
                 \/ UNCHANGED allVars
        PROVE  UNCHANGED vars
    BY <2>5 DEF PersonNext, Start, Claim, MirrorClaim, CheckInput, Judge, Edit, CancelRun,
                Reconcile, Retry, allVars
  <2>6. QED BY <2>1, <2>2, <2>3, <2>4, <2>5 DEF SharedNext
<1>8. filed \subseteq filed' /\ \A c \in Calls : serves[c] # None => serves'[c] = serves[c]
  <2>1. ASSUME NEW c \in Calls, NEW r \in Receipts, Begin(c, r)
        PROVE  filed \subseteq filed' /\ \A d \in Calls : serves[d] # None => serves'[d] = serves[d]
    BY <1>0, <2>1 DEF Begin, SharedTypeOK
  <2>2. ASSUME NEW c \in Calls, FileResult(c) \/ FileError(c)
        PROVE  filed \subseteq filed' /\ serves' = serves
    BY <2>2 DEF FileResult, FileError, Files
  <2>3. ASSUME NEW c \in Calls, AttemptNext(c), ~ \E r \in Receipts : Begin(c, r),
               ~FileResult(c), ~FileError(c)
        PROVE  UNCHANGED <<serves, filed>>
    BY <2>3 DEF AttemptNext, Mirror, HitEntry, JoinJob, CreateJob, TakeResult, CallStep, receipts
  <2>4. ASSUME (\E j \in Jobs : ExecNext(j)) \/ CacheStep
        PROVE  UNCHANGED <<serves, filed>>
    BY <2>4 DEF ExecNext, Notify, Executed, ExecutionFails, Accept, PublishChecked, CacheStep, receipts
  <2>5. ASSUME (\E h \in People : PersonNext(h)) \/ (\E p \in Procs : Edit(p))
                 \/ (\E r \in Receipts : CancelRun(r) \/ Reconcile(r) \/ Retry(r))
                 \/ UNCHANGED allVars
        PROVE  UNCHANGED <<serves, filed>>
    BY <2>5 DEF PersonNext, Start, Claim, MirrorClaim, CheckInput, Judge, Edit, CancelRun,
                Reconcile, Retry, allVars, receipts
  <2>6. QED BY <2>1, <2>2, <2>3, <2>4, <2>5 DEF SharedNext
<1>9. QED BY <1>6, <1>7, <1>8

\* A verdict is never taken back, nor is that it was given on the right workspace.
LEMMA GoodStays ==
  ASSUME SharedInv, [SharedNext]_allVars, NEW j \in Jobs, exec[j] \in Terminal
  PROVE  exec'[j] = exec[j] /\ (Good(j) => Good(j)') /\ j \in dir /\ j \in dir'
<1>1. ExecMoves(j) /\ exec[j] # "absent"
  BY ExecStep DEF Terminal, Verdicts
<1>2. task[j] # "none" /\ j \in dir /\ exec'[j] = exec[j]
  BY <1>1 DEF ExecMoves, SharedInv, Shares, BegunExecutions, Terminal, Verdicts
<1>3. QED BY <1>2, Grows DEF Good

\* A task comes from a creation, and returns only with a verdict.
LEMMA TaskStep ==
  ASSUME SharedInv, [SharedNext]_allVars, NEW k \in Jobs
  PROVE  \/ \E c \in Calls : CreateJob(c, k)
         \/ /\ task'[k] \in {"executing", "ready"} => task[k] \in {"executing", "ready"}
            /\ task'[k] = "ready" => task[k] = "ready" \/ exec[k] \in Verdicts
<1>. DEFINE Goal == \/ \E c \in Calls : CreateJob(c, k)
                    \/ /\ task'[k] \in {"executing", "ready"} => task[k] \in {"executing", "ready"}
                       /\ task'[k] = "ready" => task[k] = "ready" \/ exec[k] \in Verdicts
<1>0. TypeOK
  BY DEF SharedInv, IInv
<1>1. ASSUME NEW c \in Calls, NEW j \in Jobs, CreateJob(c, j)
      PROVE  Goal
  <2>1. CASE j = k
    BY <1>1, <2>1
  <2>2. CASE j # k
    <3>1. task' = [task EXCEPT ![j] = "executing"]
      BY <1>1 DEF CreateJob, Create
    <3>2. task'[k] = task[k]
      BY <1>0, <2>2, <3>1 DEF TypeOK
    <3>3. QED BY <3>2
  <2>3. QED BY <2>1, <2>2
<1>2. ASSUME NEW j \in Jobs, Executed(j)
      PROVE  Goal
  BY <1>0, <1>2 DEF Executed, ExecuteDone, TypeOK
<1>3. ASSUME NEW j \in Jobs, ExecutionFails(j)
      PROVE  Goal
  BY <1>0, <1>3 DEF ExecutionFails, ExecuteFails, Fails, TypeOK
<1>4. ASSUME NEW j \in Jobs, PublishChecked(j)
      PROVE  Goal
  BY <1>0, <1>4 DEF PublishChecked, Publish, PublishRefused, Fails, TypeOK
<1>5. ASSUME CacheStep
      PROVE  Goal
  <2>1. ASSUME NEW i \in Jobs, PublishFailure(i) \/ Settle(i)
        PROVE  Goal
    BY <1>0, <2>1 DEF PublishFailure, Settle, TypeOK
  <2>2. ASSUME NEW p \in Procs, Exit(p)
        PROVE  Goal
    BY <1>0, <2>2 DEF Exit, TypeOK
  <2>3. ASSUME (\E i \in Jobs : Maintain(i)) \/ (\E p \in Procs : Reap(p))
        PROVE  task' = task
    BY <2>3 DEF Maintain, ScanUnsubscribed, Fence, AbortFenced, Reap, memory
  <2>4. QED BY <1>5, <2>1, <2>2, <2>3 DEF CacheStep
<1>6. ASSUME UNCHANGED vars PROVE task' = task
  BY <1>6 DEF vars, memory
<1>7. ASSUME NEW c \in Calls, AttemptNext(c), ~ \E j \in Jobs : CreateJob(c, j)
      PROVE  task' = task
  BY <1>6, <1>7 DEF AttemptNext, Begin, Mirror, FileResult, FileError, Files, HitEntry, JoinJob,
              TakeResult, CallStep, Hit, Join, ObserveResult, ObserveFailure,
              ObserveOwnerExit, Ends, Detach, Unsubscribe, Cancel
<1>8. ASSUME NEW j \in Jobs, ExecNext(j), ~Executed(j), ~ExecutionFails(j), ~PublishChecked(j)
      PROVE  task' = task
  BY <1>6, <1>8 DEF ExecNext, Notify, Accept
<1>9. ASSUME (\E h \in People : PersonNext(h)) \/ (\E p \in Procs : Edit(p))
               \/ (\E r \in Receipts : CancelRun(r) \/ Reconcile(r) \/ Retry(r))
               \/ UNCHANGED allVars
      PROVE  task' = task
  BY <1>6, <1>9 DEF PersonNext, Start, Claim, MirrorClaim, CheckInput, Judge, Edit, CancelRun,
              Reconcile, Retry, allVars
<1>10. QED
  BY <1>1, <1>2, <1>3, <1>4, <1>5, <1>7, <1>8, <1>9 DEF SharedNext, ExecNext

\* Only a published job completes, and only it gets an entry.
LEMMA CompletedStep ==
  ASSUME SharedInv, [SharedNext]_allVars
  PROVE  /\ \A k \in Jobs : row'[k] = "COMPLETED" => row[k] = "COMPLETED" \/ k \in checked
         /\ \A i \in Identities : entry'[i] = entry[i] \/ row'[entry'[i]] = "COMPLETED"
<1>. DEFINE Goal == /\ \A k \in Jobs : row'[k] = "COMPLETED" => row[k] = "COMPLETED" \/ k \in checked
                    /\ \A i \in Identities : entry'[i] = entry[i] \/ row'[entry'[i]] = "COMPLETED"
<1>0. TypeOK /\ row \in [Jobs -> RowStates]
  BY DEF SharedInv, IInv, TypeOK, RowStates
<1>1. ASSUME UNCHANGED <<row, entry>> PROVE Goal
  BY <1>1
<1>2. ASSUME NEW j, NEW subs, row' = RemoveJob(j, row, subs, dir), entry' = entry
      PROVE  Goal
  BY <1>0, <1>2, RemovedAlone
<1>3. ASSUME NEW c \in Calls, AttemptNext(c)
      PROVE  Goal
  <2>1. ASSUME NEW j \in Jobs, CreateJob(c, j)
        PROVE  Goal
    <3>1. entry' = entry
      BY <2>1 DEF CreateJob, Create
    <3>2. \A k \in Jobs : row'[k] \in {row[k], "RUNNING", "COMPUTE_OWNER_EXITED"}
      BY <1>0, <2>1 DEF CreateJob, Create
    <3>3. QED BY <3>1, <3>2
  <2>2. CASE CallStep(c) /\ Detach(c)
    BY <1>2, <2>2 DEF Detach, Unsubscribe
  <2>3. ASSUME CallStep(c), ~Detach(c)
        PROVE  UNCHANGED <<row, entry>>
    BY <2>3 DEF CallStep, ObserveFailure, ObserveOwnerExit, Cancel, Ends, db
  <2>4. ASSUME (\E r \in Receipts : Begin(c, r)) \/ Mirror(c)
                 \/ FileResult(c) \/ FileError(c)
        PROVE  UNCHANGED <<row, entry>>
    BY <2>4 DEF Begin, Mirror, FileResult, FileError, Files, vars, db
  <2>5. ASSUME HitEntry(c) \/ JoinJob(c) \/ TakeResult(c)
        PROVE  UNCHANGED <<row, entry>>
    BY <2>5 DEF HitEntry, JoinJob, TakeResult, Hit, Join, ObserveResult, Ends, db
  <2>6. QED BY <1>1, <1>3, <2>1, <2>2, <2>3, <2>4, <2>5 DEF AttemptNext
<1>4. ASSUME NEW j \in Jobs, ExecNext(j)
      PROVE  Goal
  <2>1. CASE PublishChecked(j) /\ Publish(j)
    <3>1. row' = [row EXCEPT ![j] = "COMPLETED"] /\ j \in checked
      BY <2>1 DEF PublishChecked, Publish
    <3>2. entry' \in {entry, [entry EXCEPT ![key[j]] = j]}
      BY <2>1 DEF Publish
    <3>3. QED BY <1>0, <3>1, <3>2 DEF TypeOK
  <2>2. CASE ~(PublishChecked(j) /\ Publish(j))
    BY <1>1, <1>4, <2>2 DEF ExecNext, Notify, Executed, ExecutionFails, Accept, PublishChecked,
                ExecuteDone, ExecuteFails, Fails, PublishRefused, vars, db
  <2>3. QED BY <2>1, <2>2
<1>5. ASSUME CacheStep
      PROVE  Goal
  <2>1. ASSUME NEW j \in Jobs, PublishFailure(j)
        PROVE  Goal
    <3>1. failure[j] \in Codes
      BY <2>1 DEF PublishFailure, SharedInv, IInv, PendingCode, TypeOK
    <3>2. entry' = entry /\ \A k \in Jobs : row'[k] \in {row[k]} \cup Codes
      BY <1>0, <2>1, <3>1 DEF PublishFailure
    <3>3. QED BY <3>2 DEF Codes
  <2>2. ASSUME NEW j \in Jobs, Settle(j)
        PROVE  Goal
    BY <1>2, <2>2 DEF Settle
  <2>3. ASSUME (\E j \in Jobs : Maintain(j)) \/ (\E p \in Procs : Reap(p) \/ Exit(p))
        PROVE  UNCHANGED <<row, entry>>
    BY <2>3 DEF Maintain, ScanUnsubscribed, Fence, AbortFenced, Reap, Exit, db
  <2>4. QED BY <1>1, <1>5, <2>1, <2>2, <2>3 DEF CacheStep
<1>6. ASSUME (\E h \in People : PersonNext(h)) \/ (\E p \in Procs : Edit(p))
               \/ (\E r \in Receipts : CancelRun(r) \/ Reconcile(r) \/ Retry(r))
               \/ UNCHANGED allVars
      PROVE  UNCHANGED <<row, entry>>
  BY <1>6 DEF PersonNext, Start, Claim, MirrorClaim, CheckInput, Judge, Edit, CancelRun,
              Reconcile, Retry, allVars, vars, db
<1>7. QED BY <1>1, <1>3, <1>4, <1>5, <1>6 DEF SharedNext

\* What the cache published stays published.
LEMMA AcceptedStays ==
  ASSUME SharedInv, [SharedNext]_allVars, NEW j, Accepted(j)
  PROVE  Accepted(j)' /\ exec'[j] = exec[j]
<1>1. j \in Jobs /\ Good(j) /\ exec[j] \in Terminal
  BY DEF Accepted, Good, Terminal
<1>2. Good(j)' /\ j \in dir' /\ exec'[j] = exec[j]
  BY <1>1, GoodStays
<1>3. RowMoves(j)
  BY <1>1, CacheStepOf, RowStep DEF SharedInv
<1>4. task[j] # "none"
  BY <1>1 DEF SharedInv, Shares, BegunExecutions, Terminal, Verdicts
<1>5. row'[j] = "COMPLETED"
  BY <1>2, <1>3, <1>4 DEF RowMoves, Accepted
<1>6. QED BY <1>1, <1>2, <1>5 DEF Accepted

\* A call returns a value only from an accepted execution, and then for a receipt.
LEMMA OutcomeStep ==
  ASSUME SharedInv, [SharedNext]_allVars, NEW d \in Calls, outcome'[d] = "result"
  PROVE  \/ outcome[d] = "result" /\ (got'[d] = got[d] \/ d \in filed')
         \/ d \in Begun /\ Accepted(got'[d])
<1>. DEFINE Goal == \/ outcome[d] = "result" /\ (got'[d] = got[d] \/ d \in filed')
                    \/ d \in Begun /\ Accepted(got'[d])
<1>0. TypeOK /\ SharedTypeOK
  BY DEF SharedInv, IInv
<1>1. ASSUME outcome' = outcome, got' = got PROVE Goal
  BY <1>1
<1>2. ASSUME NEW c \in Calls, AttemptNext(c)
      PROVE  Goal
  <2>1. CASE HitEntry(c)
    <3>1. entry[Wanted[c]] # None /\ entry[Wanted[c]] \in Jobs /\ Wanted[c] \in Identities
      BY <1>0, <2>1, CacheAssumption DEF HitEntry, Hit, TypeOK
    <3>2. Accepted(entry[Wanted[c]])
      BY <3>1 DEF SharedInv, Shares, PublishedGood, Accepted
    <3>3. /\ outcome' = [outcome EXCEPT ![c] = "result"] /\ c \in Begun
          /\ got' = [got EXCEPT ![c] = entry[Wanted[c]]]
      BY <2>1 DEF HitEntry, Hit
    <3>4. QED BY <1>0, <3>2, <3>3 DEF TypeOK, SharedTypeOK
  <2>2. CASE TakeResult(c)
    <3>1. sub[c] \in Jobs /\ row[sub[c]] = "COMPLETED"
      <4>1. pc[c] = "waiting" /\ mode[Home[c]] = "open" /\ row[sub[c]] = "COMPLETED"
        BY <2>2 DEF TakeResult, ObserveResult, Awake
      <4>2. sub[c] # None
        BY <4>1 DEF SharedInv, IInv, WaiterKeepsJob, Waiting, Alive
      <4>3. QED BY <1>0, <4>1, <4>2 DEF TypeOK
    <3>2. Accepted(sub[c])
      BY <3>1 DEF SharedInv, Shares, PublishedGood, Accepted
    <3>3. /\ outcome' = [outcome EXCEPT ![c] = "result"] /\ c \in Begun
          /\ got' = [got EXCEPT ![c] = sub[c]]
      BY <2>2 DEF TakeResult, ObserveResult, Ends
    <3>4. QED BY <1>0, <3>2, <3>3 DEF TypeOK, SharedTypeOK
  <2>3. CASE FileResult(c) \/ FileError(c)
    <3>1. outcome' = outcome /\ got' = [got EXCEPT ![c] = None] /\ filed' = filed \cup {c}
      BY <2>3 DEF FileResult, FileError, Files, vars, memory
    <3>2. QED BY <1>0, <3>1 DEF SharedTypeOK
  <2>4. CASE CallStep(c)
    <3>1. got' = got /\ (outcome' = outcome \/ \E o \in {"failed", "aborted"} :
                                                outcome' = [outcome EXCEPT ![c] = o])
      BY <2>4 DEF CallStep, ObserveFailure, ObserveOwnerExit, Detach, Cancel, Ends, receipts
    <3>2. QED BY <1>0, <3>1 DEF TypeOK
  <2>5. ASSUME (\E r \in Receipts : Begin(c, r)) \/ Mirror(c) \/ JoinJob(c)
                 \/ \E j \in Jobs : CreateJob(c, j)
        PROVE  outcome' = outcome /\ got' = got
    BY <2>5 DEF Begin, Mirror, JoinJob, Join, CreateJob, Create, vars, memory
  <2>6. QED BY <1>1, <1>2, <2>1, <2>2, <2>3, <2>4, <2>5 DEF AttemptNext
<1>3. ASSUME NEW j \in Jobs, ExecNext(j)
      PROVE  outcome' = outcome /\ got' = got
  BY <1>3 DEF ExecNext, Notify, Executed, ExecutionFails, Accept, PublishChecked,
              ExecuteDone, ExecuteFails, Fails, Publish, PublishRefused, vars, memory, receipts
<1>4. ASSUME CacheStep
      PROVE  outcome' = outcome /\ got' = got
  BY <1>4 DEF CacheStep, PublishFailure, Settle, Maintain, ScanUnsubscribed, Fence, AbortFenced,
              Reap, Exit, memory, receipts
<1>5. ASSUME (\E h \in People : PersonNext(h)) \/ (\E p \in Procs : Edit(p))
               \/ (\E r \in Receipts : CancelRun(r) \/ Reconcile(r) \/ Retry(r))
               \/ UNCHANGED allVars
      PROVE  outcome' = outcome /\ got' = got
  BY <1>5 DEF PersonNext, Start, Claim, MirrorClaim, CheckInput, Judge, Edit, CancelRun,
              Reconcile, Retry, allVars, vars, memory, receipts
<1>6. QED BY <1>1, <1>2, <1>3, <1>4, <1>5 DEF SharedNext

-----------------------------------------------------------------------------
(* The invariant is preserved *)

LEMMA BegunStep ==
  ASSUME SharedInv, [SharedNext]_allVars
  PROVE  BegunExecutions'
<1>. SUFFICES ASSUME NEW j \in Jobs
              PROVE  /\ task'[j] = "none" => exec'[j] = "absent"
                     /\ task'[j] \in {"executing", "ready"} => exec'[j] # "absent"
                     /\ exec'[j] # "absent" => j \in dir'
  BY DEF BegunExecutions
<1>1. ExecMoves(j) /\ BegunExecutions
  BY ExecStep DEF SharedInv, Shares
<1>2. task[j] # "none" => task'[j] # "none"
  BY CacheStepOf, OwnerStep DEF SharedInv, Kept
<1>3. dir \subseteq dir'
  BY Grows
<1>4. task'[j] = "none" => exec'[j] = "absent"
  BY <1>1, <1>2 DEF ExecMoves, BegunExecutions
<1>5. exec'[j] # "absent" => j \in dir'
  BY <1>1, <1>3 DEF ExecMoves, BegunExecutions
<1>6. ASSUME task'[j] \in {"executing", "ready"}
      PROVE  exec'[j] # "absent"
  <2>1. ASSUME NEW c \in Calls, CreateJob(c, j)
        PROVE  exec'[j] = "RUNNING"
    BY <2>1 DEF CreateJob, SharedInv, SharedTypeOK
  <2>2. CASE task[j] \in {"executing", "ready"}
    <3>1. exec[j] # "absent"
      BY <1>1, <2>2 DEF BegunExecutions
    <3>2. QED BY <1>1, <3>1 DEF ExecMoves, Verdicts
  <2>3. QED BY <1>6, <2>1, <2>2, TaskStep
<1>7. QED BY <1>4, <1>5, <1>6

LEMMA VerdictsStep ==
  ASSUME SharedInv, [SharedNext]_allVars
  PROVE  VerdictsSound' /\ ReturnedVerdict'
<1>1. ASSUME NEW j \in Jobs, exec'[j] \in Verdicts
      PROVE  j \in sound' \/ owner'[j] \in edited'
  <2>1. ExecMoves(j) /\ BegunExecutions /\ VerdictsSound
    BY ExecStep DEF SharedInv, Shares
  <2>2. exec[j] # "absent" /\ (j \in sound' \/ owner[j] \in edited)
    BY <1>1, <2>1, Grows DEF ExecMoves, VerdictsSound, Verdicts
  <2>3. task[j] # "none"
    BY <2>1, <2>2 DEF BegunExecutions
  <2>4. owner'[j] = owner[j]
    BY <2>3, CacheStepOf, OwnerStep DEF SharedInv, Kept
  <2>5. QED BY <2>2, <2>4, Grows
<1>2. ASSUME NEW j \in Jobs, task'[j] = "ready"
      PROVE  exec'[j] \in Verdicts
  <2>1. ASSUME NEW c \in Calls, CreateJob(c, j)
        PROVE  FALSE
    BY <1>2, <2>1 DEF CreateJob, Create, SharedInv, IInv, TypeOK
  <2>2. exec[j] \in Verdicts
    BY <1>2, <2>1, TaskStep DEF SharedInv, Shares, ReturnedVerdict
  <2>3. QED BY <2>2, GoodStays DEF Terminal
<1>3. QED BY <1>1, <1>2 DEF VerdictsSound, ReturnedVerdict

LEMMA CheckedStep ==
  ASSUME SharedInv, [SharedNext]_allVars
  PROVE  CheckedGood'
<1>1. ASSUME NEW j \in Jobs, Good(j)
      PROVE  Good(j)'
  BY <1>1, GoodStays DEF Good, Terminal
<1>2. ASSUME NEW j \in Jobs, Accept(j)
      PROVE  checked' = checked \cup {j} /\ Good(j)
  <2>1. exec[j] \in Verdicts
    BY <1>2 DEF Accept, SharedInv, Shares, ReturnedVerdict
  <2>2. QED BY <1>2, <2>1 DEF Accept, Good, SharedInv, Shares, VerdictsSound
<1>3. ASSUME ~ \E j \in Jobs : Accept(j)
      PROVE  checked' = checked
  <2>1. ASSUME NEW c \in Calls, AttemptNext(c)
        PROVE  checked' = checked
    BY <2>1 DEF AttemptNext, Begin, Mirror, FileResult, FileError, Files, HitEntry, JoinJob,
                CreateJob, TakeResult, CallStep, executions
  <2>2. ASSUME NEW j \in Jobs, ExecNext(j)
        PROVE  checked' = checked
    BY <1>3, <2>2 DEF ExecNext, Notify, Executed, ExecutionFails, PublishChecked, executions
  <2>3. ASSUME (\E h \in People : PersonNext(h)) \/ (\E p \in Procs : Edit(p)) \/ CacheStep
                 \/ (\E r \in Receipts : CancelRun(r) \/ Reconcile(r) \/ Retry(r))
                 \/ UNCHANGED allVars
        PROVE  checked' = checked
    BY <2>3 DEF PersonNext, Start, Claim, MirrorClaim, CheckInput, Judge, Edit, CacheStep, CancelRun,
                Reconcile, Retry, allVars, executions
  <2>4. QED BY <2>1, <2>2, <2>3 DEF SharedNext
<1>4. CheckedGood /\ checked \subseteq Jobs
  BY DEF SharedInv, SharedTypeOK, Shares
<1>5. \A j \in checked' : j \in Jobs /\ Good(j)
  BY <1>2, <1>3, <1>4 DEF CheckedGood
<1>6. QED BY <1>1, <1>5 DEF CheckedGood

LEMMA PublishedStep ==
  ASSUME SharedInv, [SharedNext]_allVars
  PROVE  PublishedGood'
<1>0. PublishedGood /\ CheckedGood /\ TypeOK
  BY DEF SharedInv, Shares, IInv
<1>1. ASSUME NEW j \in Jobs, row'[j] = "COMPLETED"
      PROVE  Good(j)'
  <2>1. Good(j)
    BY <1>0, <1>1, CompletedStep DEF PublishedGood, CheckedGood
  <2>2. QED BY <2>1, GoodStays DEF Good, Terminal
<1>2. ASSUME NEW i \in Identities, entry'[i] # None
      PROVE  row'[entry'[i]] = "COMPLETED"
  <2>1. CASE entry'[i] = entry[i]
    <3>1. entry[i] \in Jobs /\ row[entry[i]] = "COMPLETED" /\ Good(entry[i])
      BY <1>0, <1>2, <2>1 DEF PublishedGood, TypeOK
    <3>2. Accepted(entry[i])
      BY <3>1 DEF Accepted
    <3>3. row'[entry[i]] = "COMPLETED"
      BY <3>2, AcceptedStays DEF Accepted
    <3>4. QED BY <2>1, <3>3
  <2>2. QED BY <2>1, CompletedStep
<1>3. QED BY <1>1, <1>2 DEF PublishedGood

LEMMA GotStep ==
  ASSUME SharedInv, [SharedNext]_allVars
  PROVE  GotAccepted'
<1>. SUFFICES ASSUME NEW c \in Calls, outcome'[c] = "result"
              PROVE  serves'[c] # None /\ (c \notin filed' => Accepted(got[c])')
  BY DEF GotAccepted, Begun
<1>1. c \in Begun
  BY OutcomeStep DEF SharedInv, Shares, GotAccepted, Begun
<1>2. serves'[c] # None
  BY <1>1, Grows DEF Begun
<1>3. ASSUME c \notin filed'
      PROVE  Accepted(got'[c])
  <2>1. CASE outcome[c] = "result" /\ got'[c] = got[c]
    <3>1. c \notin filed
      BY <1>3, Grows
    <3>2. QED BY <1>1, <2>1, <3>1 DEF SharedInv, Shares, GotAccepted
  <2>2. QED BY <1>3, <2>1, OutcomeStep
<1>4. ASSUME NEW j, j = got'[c], Accepted(j)
      PROVE  Accepted(got[c])'
  <2>1. Accepted(j)'
    BY <1>4, AcceptedStays
  <2>2. QED BY <1>4, <2>1 DEF Accepted, Good
<1>5. QED BY <1>2, <1>3, <1>4

LEMMA FiledStep ==
  ASSUME SharedInv, [SharedNext]_allVars
  PROVE  FiledAccepted'
<1>. SUFFICES ASSUME NEW r \in Receipts, receipt'[r].status \in Verdicts
              PROVE  /\ Accepted(receipt[r].source)'
                     /\ exec'[receipt'[r].source] = receipt'[r].status
  BY DEF FiledAccepted
<1>1. ReceiptMoves(r) /\ SharedTypeOK
  BY ReceiptStep DEF SharedInv
<1>2. Accepted(receipt'[r].source) /\ exec[receipt'[r].source] = receipt'[r].status
  <2>1. CASE receipt'[r] = receipt[r]
    BY <2>1 DEF SharedInv, Shares, FiledAccepted
  <2>2. CASE FilesValue(r)
    BY <2>2 DEF FilesValue, SharedInv, Shares, GotAccepted, Begun
  <2>3. QED BY <1>1, <2>1, <2>2 DEF ReceiptMoves, Verdicts
<1>3. ASSUME NEW j, j = receipt'[r].source, Accepted(j), exec[j] = receipt'[r].status
      PROVE  Accepted(receipt[r].source)' /\ exec'[j] = receipt'[r].status
  <2>1. Accepted(j)' /\ exec'[j] = exec[j]
    BY <1>3, AcceptedStays
  <2>2. QED BY <1>3, <2>1 DEF Accepted, Good
<1>4. QED BY <1>2, <1>3

LEMMA SharedInitHolds == SharedInit => SharedInv
<1>. SUFFICES ASSUME SharedInit
              PROVE  SharedInv
  OBVIOUS
<1>1. IInv
  BY InitInv DEF SharedInit
<1>2. Kept
  BY DEF SharedInit, Init, Kept, DirHasRow, DeadTasksOver, Alive, FreshUnclaimed, ClaimedUnused
<1>3. SharedTypeOK
  BY DEF SharedInit, SharedTypeOK, Statuses, Terminal
<1>4. Shares
  BY CacheAssumption DEF SharedInit, Init, Shares, BegunExecutions, VerdictsSound, ReturnedVerdict, CheckedGood,
         PublishedGood, GotAccepted, FiledAccepted, Verdicts, Begun
<1>5. QED BY <1>1, <1>2, <1>3, <1>4 DEF SharedInv

-----------------------------------------------------------------------------
(* Theorems *)

\* The inductive invariant, which adds to that of the cache how the status of an
\* execution, its task, its acceptance check and its row go together.
THEOREM SharedInvariance == SharedSpec => []SharedInv
<1>1. SharedInit => SharedInv
  BY SharedInitHolds
<1>2. ASSUME SharedInv, [SharedNext]_allVars
      PROVE  SharedInv'
  <2>1. (IInv /\ Kept)'
    BY <1>2, CacheStepOf, NextInv, DirStep, OwnerStep, ClaimStep, BatchStep DEF SharedInv, Kept
  <2>2. SharedTypeOK'
    <3>1. ReceiptTypes'
      BY <1>2, ReceiptTypesStep DEF SharedInv, Shares, IInv
    <3>2. ExecutionTypes' /\ PeopleTypes'
      BY <1>2, ExecutionTypesStep DEF SharedInv
    <3>3. QED BY <3>1, <3>2 DEF SharedTypeOK, ReceiptTypes, ReceiptType, ExecutionTypes, PeopleTypes
  <2>3. Shares'
    BY <1>2, BegunStep, VerdictsStep, CheckedStep, PublishedStep, GotStep, FiledStep DEF Shares
  <2>4. QED BY <2>1, <2>2, <2>3 DEF SharedInv
<1>3. QED BY <1>1, <1>2, PTL DEF SharedSpec

\* The detailed specification implements the cache: workers, executions and people call
\* it only as IdentityCache says, so every theorem about Spec holds of them.
THEOREM SharesTheCache == SharedSpec => Spec
<1>1. SharedInit => Init
  BY DEF SharedInit
<1>2. [SharedNext]_allVars => [Next]_vars
  BY CacheStepOf
<1>3. QED BY <1>1, <1>2, PTL DEF SharedSpec, Spec

\* A receipt has a verdict only if its execution gave it on a workspace of the identity
\* and the cache accepted it, whatever is canceled, retried, edited or killed meanwhile.
THEOREM VerdictsAreShared == SharedSpec => []VerdictShared
<1>1. ASSUME SharedInv
      PROVE  VerdictShared
  <2>. SUFFICES ASSUME NEW r \in Receipts, receipt[r].status \in Verdicts
                PROVE  LET j == receipt[r].source
                       IN  /\ j # None /\ exec[j] = receipt[r].status
                           /\ Shown(j) = receipt[r].status /\ j \in sound
    BY DEF VerdictShared
  <2>1. Accepted(receipt[r].source) /\ exec[receipt[r].source] = receipt[r].status
    BY <1>1 DEF SharedInv, Shares, FiledAccepted
  <2>2. Publication(receipt[r].source) = "accepted"
    BY <2>1 DEF Accepted, Publication, Codes
  <2>3. Shown(receipt[r].source) = exec[receipt[r].source]
    BY <2>2 DEF Shown
  <2>4. QED BY <2>1, <2>3, CacheAssumption DEF Accepted, Good
<1>2. QED BY <1>1, SharedInvariance, PTL

\* No mirror, claim, late result or other execution touches a terminal receipt, except
\* that a failed one may be retried.
THEOREM ReceiptsStay == SharedSpec => ReceiptFinal
<1>1. ASSUME SharedInv, [SharedNext]_allVars
      PROVE  [\A r \in Receipts : Over(r) =>
                \/ receipt'[r] = receipt[r]
                \/ receipt[r].status = "ERROR" /\ receipt'[r].status = "QUEUED"]_allVars
  <2>1. \A r \in Receipts : ReceiptMoves(r)
    BY <1>1, ReceiptStep DEF SharedInv
  <2>2. QED BY <2>1 DEF ReceiptMoves
<1>2. QED BY <1>1, SharedInvariance, PTL DEF SharedSpec, ReceiptFinal
=============================================================================
