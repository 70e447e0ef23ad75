--------------------------- MODULE LifecycleProofs ---------------------------
(***************************************************************************)
(* What holds in every reachable state of RunLifecycle, for any requests,  *)
(* gates, workers and bounds, and of HumanReview and Prune on top of it,   *)
(* for any reviewers, attempts and moments at which their leases end.      *)
(*                                                                         *)
(* The invariant of the Run is shown by what a transaction does to the     *)
(* requests (first part) and by who may execute it (second part).  A       *)
(* review is an extension of the Run: its steps are steps of RunLifecycle  *)
(* or leave the Run alone, so what was shown of the Run holds here as well *)
(* (third part).                                                           *)
(***************************************************************************)
EXTENDS Prune, TLAPS

Pending == {"QUEUED", "RUNNING", "WAITING_HUMAN"}

\* The part of the invariant that is about the requests and the Run.
Store ==
  /\ status \in [Requests -> Statuses]
  /\ run \in {"QUEUED", "RUNNING", "WAITING_HUMAN", "INCOMPLETE", "ERROR"} \cup Verdicts
  /\ DecidedRunIsIdle
  /\ GatesRespected

\* No verdict is replaced.
Kept == \A r \in Requests : status[r] \in Verdicts => status'[r] = status[r]

-----------------------------------------------------------------------------
(* Transactions *)

\* Propagation changes only what its gates hold, and opens a gate only when
\* every request behind it is GREEN.
LEMMA GatedEffect ==
  ASSUME NEW st, NEW new \in Gated(st)
  PROVE  /\ DOMAIN new = Requests
         /\ new = [r \in Requests |-> new[r]]
         /\ \A r \in Requests :
              /\ st[r] \notin Gates => new[r] = st[r]
              /\ st[r] \in Gates => new[r] \in {"QUEUED"} \cup Gates
              /\ st[r] \in Gates /\ new[r] = "QUEUED" => \A d \in Needs[r] : new[d] = "GREEN"
<1> DEFINE held == {r \in Requests : st[r] \in Gates}
           with(g) == [r \in Requests |-> IF r \in held THEN g[r] ELSE st[r]]
<1>1. PICK g \in [held -> {"QUEUED"} \cup Gates] :
        /\ new = with(g)
        /\ \A r \in held : g[r] = GateState(with(g), r)
  BY DEF Gated
<1>2. \A r \in held : new[r] = g[r] /\ g[r] = GateState(new, r)
  BY <1>1
<1>3. \A r \in Requests : GateState(new, r) = "QUEUED" => \A d \in Needs[r] : new[d] = "GREEN"
  BY DEF GateState
<1> QED BY <1>1, <1>2, <1>3

\* A Run whose requests are queued, running or waiting is not decided.
LEMMA OpenRun ==
  ASSUME NEW st, NEW r \in Requests, st[r] \in Pending
  PROVE  RunStatus(st) \in Pending
BY DEF RunStatus, Pending

LEMMA RunStatusType ==
  ASSUME NEW st
  PROVE  RunStatus(st) \in {"QUEUED", "RUNNING", "WAITING_HUMAN", "INCOMPLETE", "ERROR"} \cup Verdicts
BY DEF RunStatus, Verdicts

\* saveHeader of a request that was queued, running or waiting.
LEMMA SaveEffect ==
  ASSUME Store, NEW r \in Requests, status[r] \in Pending,
         NEW state \in Statuses \ Gates,
         state \in Pending => status[r] \in Pending,
         Save(r, state)
  PROVE  Store' /\ Kept
<1> DEFINE new == [status EXCEPT ![r] = state]
<1>1. ~Terminal
  BY DEF Store, DecidedRunIsIdle, Pending
<1>2. status' \in Gated(new) /\ run' = RunStatus(status')
  BY <1>1 DEF Save
<1>3. /\ new \in [Requests -> Statuses] /\ new[r] = state
      /\ \A q \in Requests \ {r} : new[q] = status[q]
  BY DEF Store
<1>4. /\ status' = [q \in Requests |-> status'[q]]
      /\ status'[r] = state
      /\ \A q \in Requests \ {r} :
           /\ status[q] \notin Gates => status'[q] = status[q]
           /\ status[q] \in Gates => status'[q] \in {"QUEUED"} \cup Gates
           /\ status[q] \in Gates /\ status'[q] = "QUEUED" =>
                \A d \in Needs[q] : status'[d] = "GREEN"
  <2> HIDE DEF new
  <2>1. /\ status' = [q \in Requests |-> status'[q]]
        /\ \A q \in Requests :
             /\ new[q] \notin Gates => status'[q] = new[q]
             /\ new[q] \in Gates => status'[q] \in {"QUEUED"} \cup Gates
             /\ new[q] \in Gates /\ status'[q] = "QUEUED" =>
                  \A d \in Needs[q] : status'[d] = "GREEN"
    BY <1>2, GatedEffect
  <2> QED BY <1>3, <2>1
<1>5. status' \in [Requests -> Statuses]
  <2>1. \A q \in Requests : status'[q] \in Statuses
    BY <1>4 DEF Store, Statuses, Open
  <2> QED BY <1>4, <2>1
<1>6. run' \in {"QUEUED", "RUNNING", "WAITING_HUMAN", "INCOMPLETE", "ERROR"} \cup Verdicts
  BY <1>2, RunStatusType
<1>7. DecidedRunIsIdle'
  BY <1>2, OpenRun DEF DecidedRunIsIdle, Pending, Terminal, Verdicts
<1>8. Kept
  BY <1>4 DEF Kept, Pending, Verdicts, Gates
<1>9. GatesRespected'
  <2> SUFFICES ASSUME NEW q \in Requests, status'[q] \in Pending \cup Verdicts,
                      NEW d \in Needs[q]
               PROVE  status'[d] = "GREEN"
    BY DEF GatesRespected, Pending
  <2>1. d \in Requests
    BY RunAssumption
  <2>2. CASE status[q] \in Gates
    BY <1>4, <2>2 DEF Pending, Gates, Verdicts
  <2>3. CASE status[q] \notin Gates
    <3>1. status[q] \in Pending \cup Verdicts
      BY <1>4, <2>3
    <3>2. status[d] = "GREEN"
      BY <3>1 DEF Store, GatesRespected, Pending
    <3> QED BY <3>2, <2>1, <1>8 DEF Kept, Verdicts
  <2> QED BY <2>2, <2>3
<1> QED BY <1>5, <1>6, <1>7, <1>8, <1>9 DEF Store

\* finishWithin.
LEMMA FinishEffect ==
  ASSUME Store, NEW w \in Workers, NEW r \in Requests, NEW outcome \in Verdicts \cup {"ERROR"},
         NEW states \in SUBSET Pending, Finish(w, r, outcome, states)
  PROVE  Store' /\ Kept /\ (Terminal => UNCHANGED <<run, status>>)
<1>1. CASE Expected(w, r, states)
  <2>1. status[r] \in Pending /\ Save(r, outcome) /\ ~Terminal
    BY <1>1 DEF Expected, Finish
  <2>2. outcome \in Statuses \ Gates
    BY DEF Statuses, Gates, Verdicts
  <2> QED BY <2>1, <2>2, SaveEffect
<1>2. CASE ~Expected(w, r, states)
  BY <1>2 DEF Finish, Store, DecidedRunIsIdle, GatesRespected, Terminal, Kept
<1> QED BY <1>1, <1>2

\* failWithin leaves a decided Run.
LEMMA FailEffect ==
  ASSUME Store, FailWithin
  PROVE  Store' /\ Kept /\ Terminal' /\ (Terminal => UNCHANGED <<run, status>>)
<1>1. CASE Terminal
  BY <1>1 DEF FailWithin, Store, DecidedRunIsIdle, GatesRespected, Terminal, Kept
<1>2. CASE ~Terminal
  <2>1. /\ run' = "ERROR"
        /\ status' = [r \in Requests |-> IF status[r] \in Open THEN "ERROR" ELSE status[r]]
    BY <1>2 DEF FailWithin
  <2>2. Kept /\ Terminal'
    BY <2>1 DEF Kept, Terminal, Open, Gates, Verdicts
  <2>3. status' \in [Requests -> Statuses]
    BY <2>1 DEF Store, Statuses
  <2>4. DecidedRunIsIdle'
    BY <2>1 DEF DecidedRunIsIdle, Open
  <2>5. GatesRespected'
    BY <2>1, <2>2, RunAssumption DEF Store, GatesRespected, Kept, Open, Verdicts
  <2> QED BY <1>2, <2>1, <2>2, <2>3, <2>4, <2>5 DEF Store
<1> QED BY <1>1, <1>2

\* retryRequest puts a failed request back behind its gates.
LEMMA RetryEffect ==
  ASSUME Store, NEW r \in Requests, Retry(r)
  PROVE  /\ Store' /\ Kept
         /\ \A q \in Requests : status'[q] = status[q] \/ status'[q] \in {"QUEUED"} \cup Gates
<1> DEFINE new == [status EXCEPT ![r] = GateState(status, r)]
<1>1. status' \in Gated(new) /\ run' = RunStatus(status') /\ status[r] = "ERROR"
  BY DEF Retry
<1>2. /\ GateState(status, r) \in {"QUEUED"} \cup Gates
      /\ GateState(status, r) = "QUEUED" => \A d \in Needs[r] : status[d] = "GREEN"
  BY DEF GateState, Gates
<1>3. /\ new[r] = GateState(status, r)
      /\ \A q \in Requests \ {r} : new[q] = status[q]
  BY DEF Store
<1>4. /\ status' = [q \in Requests |-> status'[q]]
      /\ \A q \in Requests :
           /\ new[q] \notin Gates => status'[q] = new[q]
           /\ new[q] \in Gates => status'[q] \in {"QUEUED"} \cup Gates
           /\ new[q] \in Gates /\ status'[q] = "QUEUED" =>
                \A d \in Needs[q] : status'[d] = "GREEN"
  BY <1>1, GatedEffect
<1>5. Kept /\ \A q \in Requests : status'[q] = status[q] \/ status'[q] \in {"QUEUED"} \cup Gates
  BY <1>1, <1>2, <1>3, <1>4 DEF Kept, Verdicts, Gates
<1>6. status' \in [Requests -> Statuses]
  <2>1. \A q \in Requests : status'[q] \in Statuses
    BY <1>5 DEF Store, Statuses, Open
  <2> QED BY <1>4, <2>1
<1>7. /\ run' \in {"QUEUED", "RUNNING", "WAITING_HUMAN", "INCOMPLETE", "ERROR"} \cup Verdicts
      /\ DecidedRunIsIdle'
  BY <1>1, RunStatusType, OpenRun DEF DecidedRunIsIdle, Pending, Terminal, Verdicts
<1>8. GatesRespected'
  <2> SUFFICES ASSUME NEW q \in Requests, status'[q] \in Pending \cup Verdicts,
                      NEW d \in Needs[q]
               PROVE  status'[d] = "GREEN"
    BY DEF GatesRespected, Pending
  <2>1. d \in Requests
    BY RunAssumption
  <2>2. CASE new[q] \in Gates
    BY <1>4, <2>2 DEF Pending, Gates, Verdicts
  <2>3. CASE new[q] \notin Gates
    <3>1. status'[q] = new[q]
      BY <1>4, <2>3
    <3>2. status[d] = "GREEN"
      <4>1. CASE q = r
        BY <4>1, <1>2, <1>3, <2>3
      <4>2. CASE q # r
        BY <4>2, <1>3, <3>1 DEF Store, GatesRespected, Pending
      <4> QED BY <4>1, <4>2
    <3> QED BY <3>2, <2>1, <1>5 DEF Kept, Verdicts
  <2> QED BY <2>2, <2>3
<1> QED BY <1>5, <1>6, <1>7, <1>8 DEF Store

-----------------------------------------------------------------------------
(* Steps *)

\* The rest of the type invariant.
ProcType ==
  /\ notified \subseteq Human
  /\ owner \in Workers \cup {None}
  /\ alive \in [Workers -> BOOLEAN]
  /\ pc \in [Workers -> {"off", "starting", "loop", "select", "idle", "last", "settling"}]
  /\ aborted \in [Workers -> BOOLEAN]
  /\ task \in [Workers -> [Requests ->
       {"none", "admitting", "preparing", "executing", "alarming", "cleanup", "failing"}]]
  /\ session \in [Sessions -> Human \cup {None}]
  /\ retries \in 0..MaxRetries

\* What a step does to the requests of a decided Run.
Late == Terminal => \A r \in Requests :
          status'[r] = status[r] \/ status'[r] \in {"QUEUED"} \cup Gates

LEMMA Parts == IInv <=> Store /\ ProcType /\ Calling /\ SettlesDecided /\ UnownedRunIsIdle
BY DEF IInv, Store, TypeOK, ProcType

LEMMA PartsNext ==
  Store' /\ ProcType' /\ Calling' /\ SettlesDecided' /\ UnownedRunIsIdle' => IInv'
BY DEF IInv, Store, TypeOK, ProcType

\* A step that leaves the requests and the Run alone.
LEMMA Quiet ==
  ASSUME Store, UNCHANGED <<run, status>>
  PROVE  Store' /\ Kept /\ Late /\ (Terminal' <=> Terminal)
BY DEF Store, DecidedRunIsIdle, GatesRespected, Terminal, Kept, Late

LEMMA InitInv == Init => IInv
<1> SUFFICES ASSUME Init PROVE IInv
  OBVIOUS
<1> DEFINE st == [r \in Requests |-> "WAIT_DEPENDENCY"]
<1>1. /\ status \in Gated(st) /\ run = RunStatus(status)
      /\ \A r \in Requests : st[r] \in Gates
  BY DEF Init, Gates
<1>2. /\ status = [r \in Requests |-> status[r]]
      /\ \A r \in Requests : /\ status[r] \in {"QUEUED"} \cup Gates
                             /\ status[r] = "QUEUED" => \A d \in Needs[r] : status[d] = "GREEN"
  <2> HIDE DEF st
  <2> QED BY <1>1, GatedEffect
<1>3. /\ status \in [Requests -> Statuses] /\ GatesRespected
      /\ \A r \in Requests : status[r] \notin {"RUNNING", "WAITING_HUMAN"}
  <2>1. \A r \in Requests : status[r] \in Statuses /\ status[r] \notin {"RUNNING", "WAITING_HUMAN"} \cup Verdicts
    BY <1>2 DEF Statuses, Open, Gates, Verdicts
  <2> QED BY <1>2, <2>1 DEF GatesRespected
<1>4. /\ run \in {"QUEUED", "RUNNING", "WAITING_HUMAN", "INCOMPLETE", "ERROR"} \cup Verdicts
      /\ DecidedRunIsIdle
  BY <1>1, RunStatusType, OpenRun DEF DecidedRunIsIdle, Pending, Terminal, Verdicts
<1>5. ProcType /\ Calling /\ SettlesDecided /\ UnownedRunIsIdle
  BY <1>3, RunAssumption DEF Init, ProcType, Calling, InFlight, SettlesDecided, UnownedRunIsIdle
<1> QED BY <1>3, <1>4, <1>5, Parts DEF Store

\* A worker takes over a Run in which nothing runs or waits.
LEMMA ClaimInv ==
  ASSUME IInv, NEW w \in Workers, Claim(w)
  PROVE  IInv' /\ Kept /\ Late
<1>1. Store' /\ Kept /\ Late /\ (Terminal' <=> Terminal)
  BY Parts, Quiet DEF Claim
<1>2. ProcType' /\ SettlesDecided' /\ UnownedRunIsIdle'
  BY <1>1, Parts, RunAssumption DEF Claim, ProcType, SettlesDecided, UnownedRunIsIdle
<1>3. Calling'
  BY Parts, RunAssumption DEF Claim, ProcType, Calling, InFlight
<1> QED BY <1>1, <1>2, <1>3, PartsNext

\* The catch decides the Run if the call still holds it, and it does.
LEMMA CatchInv ==
  ASSUME IInv, NEW w \in Workers, Catch(w), pc[w] # "off"
  PROVE  IInv' /\ Kept /\ Late
<1>1. owner = w /\ FailWithin
  BY Parts DEF Catch, FailOwned, Calling
<1>2. Store' /\ Kept /\ Late /\ Terminal'
  BY <1>1, Parts, FailEffect DEF Late
<1>3. ProcType' /\ Calling' /\ SettlesDecided' /\ UnownedRunIsIdle'
  BY <1>2, Parts DEF Catch, ProcType, Calling, InFlight, SettlesDecided, UnownedRunIsIdle
<1> QED BY <1>2, <1>3, PartsNext

\* The call goes on to another step that is not the settling.
LEMMA MovesInv ==
  ASSUME IInv, NEW w \in Workers, pc[w] # "off",
         NEW to \in {"loop", "select", "idle", "last", "settling"}, Moves(w, to),
         to = "settling" => Terminal
  PROVE  IInv' /\ Kept /\ Late
<1>1. Store' /\ Kept /\ Late /\ (Terminal' <=> Terminal)
  BY Parts, Quiet DEF Moves, db
<1>2. ProcType' /\ Calling' /\ SettlesDecided' /\ UnownedRunIsIdle'
  BY <1>1, Parts DEF Moves, db, ProcType, Calling, InFlight, SettlesDecided, UnownedRunIsIdle
<1> QED BY <1>1, <1>2, PartsNext

\* Launching requests.
LEMMA SelectInv ==
  ASSUME IInv, NEW w \in Workers, Select(w)
  PROVE  IInv' /\ Kept /\ Late
<1>1. Store' /\ Kept /\ Late /\ (Terminal' <=> Terminal)
  BY Parts, Quiet DEF Select, db
<1>2. /\ pc[w] = "select" /\ UNCHANGED <<db, alive, aborted, session, retries>>
      /\ \E launched : task' = [task EXCEPT ![w] = [r \in Requests |->
                                  IF r \in launched THEN "admitting" ELSE task[w][r]]]
      /\ \E to \in {"idle", "loop"} : pc' = [pc EXCEPT ![w] = to]
  <2> DEFINE after(L) == IF L \cup InFlight(w) = {} THEN "idle" ELSE "loop"
             tasks(L) == [task EXCEPT ![w] = [r \in Requests |->
                            IF r \in L THEN "admitting" ELSE task[w][r]]]
  <2>1. \E L : task' = tasks(L) /\ pc' = [pc EXCEPT ![w] = after(L)]
    BY DEF Select
  <2> QED BY <2>1 DEF Select
<1>3. ProcType'
  BY <1>2, Parts DEF ProcType, db
<1>4. Calling' /\ SettlesDecided' /\ UnownedRunIsIdle'
  BY <1>1, <1>2, Parts DEF ProcType, Calling, InFlight, SettlesDecided, UnownedRunIsIdle, db
<1> QED BY <1>1, <1>3, <1>4, PartsNext

\* The steps of the loop that keep or decide the Run.
LEMMA LoopInv ==
  ASSUME IInv, NEW w \in Workers, Loop(w) \/ ReopenFails(w)
  PROVE  IInv' /\ Kept /\ Late
<1>1. CASE Reopened(w) \/ LoopGoesOn(w) \/ LoopAborted(w) \/ ReopenFails(w)
  BY <1>1, MovesInv, CatchInv DEF Reopened, LoopGoesOn, LoopAborted, ReopenFails
<1>2. CASE LoopEnds(w)
  <2>1. Store' /\ Kept /\ Late /\ (Terminal' <=> Terminal)
    BY <1>2, Parts, Quiet DEF LoopEnds, db
  <2>2. ProcType'
    BY <1>2, Parts DEF LoopEnds, ProcType, db
  <2>3. Calling' /\ SettlesDecided' /\ UnownedRunIsIdle'
    BY <1>2, <2>1, Parts DEF LoopEnds, ProcType, Calling, InFlight, SettlesDecided,
       UnownedRunIsIdle, db
  <2> QED BY <2>1, <2>2, <2>3, PartsNext
<1>3. CASE Select(w)
  BY <1>3, SelectInv
<1>4. CASE Idle(w) \/ Last(w)
  BY <1>4, MovesInv, CatchInv DEF Idle, Last
<1>5. CASE Settle(w)
  <2>1. Store' /\ Kept /\ Late /\ (Terminal' <=> Terminal)
    BY <1>5, Parts, Quiet DEF Settle
  <2>2. ProcType'
    BY <1>5, Parts DEF Settle, ProcType
  <2>3. Terminal /\ owner = w
    BY <1>5, Parts DEF Settle, SettlesDecided, Calling
  <2>4. Calling' /\ SettlesDecided' /\ UnownedRunIsIdle'
    BY <1>5, <2>1, <2>3, Parts DEF Settle, ProcType, Calling, InFlight, SettlesDecided,
       UnownedRunIsIdle
  <2> QED BY <2>1, <2>2, <2>4, PartsNext
<1> QED BY <1>1, <1>2, <1>3, <1>4, <1>5 DEF Loop

\* A signal, or the end of a process.
LEMMA ProcessInv ==
  ASSUME IInv, NEW w \in Workers, Poll(w) \/ Stop(w) \/ Exit(w)
  PROVE  IInv' /\ Kept /\ Late
<1>1. Store' /\ Kept /\ Late /\ (Terminal' <=> Terminal)
  BY Parts, Quiet DEF Poll, Stop, Exit, db
<1>2. ProcType'
  <2>1. CASE Poll(w) \/ Stop(w)
    BY <2>1, Parts DEF Poll, Stop, db, ProcType
  <2>2. CASE Exit(w)
    BY <2>2, Parts DEF Exit, db, ProcType
  <2> QED BY <2>1, <2>2
<1>3. SettlesDecided' /\ UnownedRunIsIdle'
  BY <1>1, Parts DEF Poll, Stop, Exit, db, ProcType, SettlesDecided, UnownedRunIsIdle
<1>4. Calling'
  <2>1. CASE Poll(w) \/ Stop(w)
    BY <2>1, Parts DEF Poll, Stop, db, Calling, InFlight
  <2>2. CASE Exit(w)
    BY <2>2, Parts DEF Exit, db, Calling, InFlight, ProcType
  <2> QED BY <2>1, <2>2
<1> QED BY <1>1, <1>2, <1>3, <1>4, PartsNext

\* What every step of a task has in common.
LEMMA TaskStep ==
  ASSUME NEW w \in Workers, NEW r \in Requests, Task(w, r)
  PROVE  /\ task[w][r] # "none"
         /\ UNCHANGED <<owner, alive, pc, session, retries>>
         /\ \E stage \in {"none", "preparing", "executing", "alarming", "cleanup", "failing"} :
              task' = [task EXCEPT ![w][r] = stage]
<1>1. CASE Begin(w, r) \/ Start(w, r) \/ Alarm(w, r)
  BY <1>1 DEF Begin, Start, Alarm, Becomes
<1>2. CASE Notified(w, r) \/ Decide(w, r) \/ TaskError(w, r)
  BY <1>2 DEF Notified, Decide, TaskError, Becomes
<1>3. CASE TaskFatal(w, r) \/ TaskDone(w, r)
  BY <1>3 DEF TaskFatal, TaskDone, Becomes
<1> QED BY <1>1, <1>2, <1>3 DEF Task

\* What a task does to the requests: nothing, or a save of an active one.
LEMMA TaskEffect ==
  ASSUME IInv, NEW w \in Workers, NEW r \in Requests, Task(w, r)
  PROVE  Store' /\ Kept /\ Late /\ (Terminal => Terminal')
<1>1. Store
  BY Parts
<1>2. CASE UNCHANGED <<run, status>>
  BY <1>1, <1>2, Quiet
<1>3. CASE \E state \in Pending \cup Verdicts \cup {"ERROR"} :
             status[r] \in Pending /\ Save(r, state)
  <2>1. PICK state \in Pending \cup Verdicts \cup {"ERROR"} :
          status[r] \in Pending /\ Save(r, state)
    BY <1>3
  <2>2. state \in Statuses \ Gates
    BY DEF Statuses, Open, Pending, Gates, Verdicts
  <2>3. ~Terminal
    BY <1>1, <2>1 DEF Store, DecidedRunIsIdle, Pending
  <2> QED BY <1>1, <2>1, <2>2, <2>3, SaveEffect DEF Late
<1>4. CASE \E outcome \in Verdicts \cup {"ERROR"}, states \in SUBSET Pending :
             Finish(w, r, outcome, states)
  <2>1. Store' /\ Kept /\ (Terminal => UNCHANGED <<run, status>>)
    BY <1>1, <1>4, FinishEffect
  <2> QED BY <2>1 DEF Late, Terminal
<1>5. CASE Begin(w, r) \/ Alarm(w, r)
  BY <1>2, <1>3, <1>5 DEF Begin, Alarm, Pending
<1>6. CASE Decide(w, r) \/ TaskError(w, r)
  BY <1>4, <1>6 DEF Decide, TaskError, Pending
<1>7. CASE Start(w, r) \/ Notified(w, r) \/ TaskFatal(w, r) \/ TaskDone(w, r)
  BY <1>2, <1>7 DEF Start, Notified, TaskFatal, TaskDone
<1> QED BY <1>5, <1>6, <1>7 DEF Task

\* A task belongs to a call that holds the Run, and goes on doing so.
LEMMA TaskInv ==
  ASSUME IInv, NEW w \in Workers, NEW r \in Requests, Task(w, r)
  PROVE  IInv' /\ Kept /\ Late
<1>1. Store' /\ Kept /\ Late /\ (Terminal => Terminal')
  BY TaskEffect
<1>2. PICK stage \in {"none", "preparing", "executing", "alarming", "cleanup", "failing"} :
        /\ task[w][r] # "none"
        /\ UNCHANGED <<owner, alive, pc, session, retries>>
        /\ task' = [task EXCEPT ![w][r] = stage]
  BY TaskStep
<1>3. owner = w /\ pc[w] # "off"
  BY <1>2, Parts DEF Calling, InFlight
<1>4. notified' \subseteq Human
  <2>1. CASE Notified(w, r)
    BY <2>1, Parts DEF Notified, ProcType
  <2>2. CASE ~Notified(w, r)
    BY <2>2, Parts DEF Task, Begin, Start, Alarm, Decide, TaskError, TaskFatal, TaskDone, ProcType
  <2> QED BY <2>1, <2>2
<1>5. aborted' \in [Workers -> BOOLEAN]
  <2>1. CASE TaskDone(w, r)
    BY <2>1, Parts DEF TaskDone, ProcType
  <2>2. CASE ~TaskDone(w, r)
    BY <2>2, Parts DEF Task, Begin, Start, Alarm, Notified, Decide, TaskError, TaskFatal, ProcType
  <2> QED BY <2>1, <2>2
<1>6. ProcType'
  BY <1>2, <1>4, <1>5, Parts DEF ProcType
<1>7. Calling'
  <2>1. \A v \in Workers : InFlight(v)' # {} => v = w \/ InFlight(v) # {}
    BY <1>2, Parts DEF InFlight, ProcType
  <2> QED BY <1>2, <1>3, <2>1, Parts DEF Calling
<1>8. SettlesDecided' /\ UnownedRunIsIdle'
  BY <1>1, <1>2, <1>3, Parts, RunAssumption DEF SettlesDecided, UnownedRunIsIdle
<1> QED BY <1>1, <1>6, <1>7, <1>8, PartsNext

-----------------------------------------------------------------------------
(* Other processes *)

\* A submission is committed only while its worker lives, and to a waiting review.
LEMMA SessionInv ==
  ASSUME IInv, NEW s \in Sessions,
         (\E r \in Human : Submit(s, r)) \/ CommitSubmit(s) \/ SubmitInvalid(s)
  PROVE  IInv' /\ Kept /\ Late
<1>1. /\ UNCHANGED <<notified, owner, procs, retries>>
      /\ \E r \in Human \cup {None} : session' = [session EXCEPT ![s] = r]
  BY DEF Submit, CommitSubmit, SubmitInvalid, db
<1>2. ProcType'
  BY <1>1, Parts DEF ProcType, procs
<1>3. Calling'
  BY <1>1, Parts DEF Calling, InFlight, procs
<1>4. Store' /\ Kept /\ Late /\ (Terminal => Terminal')
      /\ (owner = None => Terminal' \/ UNCHANGED <<run, status>>)
  <2>1. CASE UNCHANGED <<run, status>>
    BY <2>1, Parts, Quiet
  <2>2. CASE FailWithin
    BY <2>2, Parts, FailEffect DEF Late
  <2>3. CASE owner # None /\ \E r \in Requests, v \in Verdicts : Finish(owner, r, v, {"WAITING_HUMAN"})
    <3>1. PICK r \in Requests, v \in Verdicts : Finish(owner, r, v, {"WAITING_HUMAN"})
      BY <2>3
    <3>2. owner \in Workers /\ {"WAITING_HUMAN"} \in SUBSET Pending
      BY <2>3, Parts DEF ProcType, Pending
    <3> QED BY <2>3, <3>1, <3>2, Parts, FinishEffect DEF Late, Terminal
  <2>4. CASE CommitSubmit(s)
    <3>1. session[s] \in Requests
      BY <2>4, Parts, RunAssumption DEF CommitSubmit, ProcType
    <3> QED BY <2>4, <2>1, <2>3, <3>1 DEF CommitSubmit
  <2>5. CASE ~CommitSubmit(s)
    BY <2>5, <2>1, <2>2 DEF Submit, SubmitInvalid, db
  <2> QED BY <2>4, <2>5
<1>5. SettlesDecided' /\ UnownedRunIsIdle'
  BY <1>1, <1>4, Parts DEF SettlesDecided, UnownedRunIsIdle, procs, Terminal
<1> QED BY <1>2, <1>3, <1>4, <1>5, PartsNext

\* Failing a Run from outside decides it, whoever holds it.
LEMMA OutsideInv ==
  ASSUME IInv, (\E p \in Workers \cup {None} : Cancel(p)) \/ FailRun \/ Reconcile
  PROVE  IInv' /\ Kept /\ Late
<1>1. /\ FailWithin
      /\ UNCHANGED <<notified, alive, pc, task, session, retries>>
      /\ aborted' = aborted \/ aborted' \in [Workers -> BOOLEAN]
      /\ owner' = owner \/ (Reconcile /\ owner' = None)
  <2>1. ASSUME NEW p \in Workers \cup {None}, Cancel(p)
        PROVE  /\ aborted' \in [Workers -> BOOLEAN]
               /\ FailWithin
               /\ UNCHANGED <<notified, owner, alive, pc, task, session, retries>>
    BY <2>1, Parts DEF Cancel, ProcType
  <2>2. CASE FailRun \/ Reconcile
    BY <2>2 DEF FailRun, Reconcile, procs
  <2> QED BY <2>1, <2>2
<1>2. Store' /\ Kept /\ Late /\ Terminal'
  <2>1. Store
    BY Parts
  <2>2. Store' /\ Kept /\ Terminal' /\ (Terminal => UNCHANGED <<run, status>>)
    BY <1>1, <2>1, FailEffect
  <2> QED BY <2>2 DEF Late
<1>3. ProcType' /\ SettlesDecided' /\ UnownedRunIsIdle'
  BY <1>1, <1>2, Parts DEF ProcType, SettlesDecided, UnownedRunIsIdle
<1>4. Calling'
  BY <1>1, Parts DEF Calling, InFlight, Reconcile
<1> QED BY <1>2, <1>3, <1>4, PartsNext

\* A Run is retried when no call holds it.
LEMMA RetryInv ==
  ASSUME IInv, NEW r \in Requests, Retry(r)
  PROVE  IInv' /\ Kept /\ Late
<1>1. /\ Store' /\ Kept
      /\ \A q \in Requests : status'[q] = status[q] \/ status'[q] \in {"QUEUED"} \cup Gates
  BY Parts, RetryEffect
<1>2. owner = None /\ UNCHANGED <<notified, owner, procs, session>>
      /\ retries < MaxRetries /\ retries' = retries + 1
  BY DEF Retry
<1>3. ProcType'
  BY <1>2, Parts, RunAssumption DEF ProcType, procs
<1>4. \A w \in Workers : pc[w] = "off"
  BY <1>2, Parts, RunAssumption DEF Calling
<1>5. Calling' /\ SettlesDecided'
  BY <1>2, <1>4, Parts DEF Calling, InFlight, SettlesDecided, procs
<1>6. UnownedRunIsIdle'
  BY <1>1, <1>2, Parts DEF Store, DecidedRunIsIdle, UnownedRunIsIdle, Gates
<1> QED BY <1>1, <1>3, <1>5, <1>6, PartsNext DEF Late

-----------------------------------------------------------------------------
(* Theorems *)

LEMMA NextInv ==
  ASSUME IInv, [Next]_vars
  PROVE  IInv' /\ Kept /\ Late
<1>1. ASSUME NEW w \in Workers,
             Claim(w) \/ ReopenFails(w) \/ Loop(w) \/ Poll(w) \/ Stop(w) \/ Exit(w)
      PROVE  IInv' /\ Kept /\ Late
  BY <1>1, ClaimInv, LoopInv, ProcessInv
<1>2. ASSUME NEW w \in Workers, NEW r \in Requests, Task(w, r)
      PROVE  IInv' /\ Kept /\ Late
  BY <1>2, TaskInv
<1>3. ASSUME NEW s \in Sessions,
             (\E r \in Human : Submit(s, r)) \/ CommitSubmit(s) \/ SubmitInvalid(s)
      PROVE  IInv' /\ Kept /\ Late
  BY <1>3, SessionInv
<1>4. ASSUME (\E p \in Workers \cup {None} : Cancel(p)) \/ FailRun \/ Reconcile
      PROVE  IInv' /\ Kept /\ Late
  BY <1>4, OutsideInv
<1>5. ASSUME NEW r \in Requests, Retry(r)
      PROVE  IInv' /\ Kept /\ Late
  BY <1>5, RetryInv
<1>6. ASSUME UNCHANGED vars
      PROVE  IInv' /\ Kept /\ Late
  <2>1. Store' /\ Kept /\ Late
    BY <1>6, Parts, Quiet DEF vars, db
  <2>2. ProcType' /\ Calling' /\ SettlesDecided' /\ UnownedRunIsIdle'
    BY <1>6, Parts DEF vars, db, procs, ProcType, Calling, InFlight, SettlesDecided,
       UnownedRunIsIdle, Terminal
  <2> QED BY <2>1, <2>2, PartsNext
<1> QED BY <1>1, <1>2, <1>3, <1>4, <1>5, <1>6 DEF Next

\* The invariant holds in every reachable state.
THEOREM Invariance == Spec => []IInv
<1>1. IInv /\ [Next]_vars => IInv'
  BY NextInv
<1> QED BY InitInv, <1>1, PTL DEF Spec

\* The store and the memory of the processes keep their types.
THEOREM TypeCorrect == Spec => []TypeOK
<1>1. IInv => TypeOK
  BY DEF IInv
<1> QED BY <1>1, Invariance, PTL

\* Work for a Run is in flight only in the worker that holds its row, and nothing runs or
\* waits for a Run that nobody holds or that is decided.
THEOREM Ownership == Spec => []WorkIsOwned
<1>1. IInv => WorkIsOwned
  BY DEF IInv, Calling, OwnedWork, NothingOrphaned, WorkIsOwned
<1> QED BY <1>1, Invariance, PTL

\* A request is started and decided only behind open gates.
THEOREM Gating == Spec => []GatesRespected
<1>1. IInv => GatesRespected
  BY DEF IInv
<1> QED BY <1>1, Invariance, PTL

\* A verdict is never replaced.
THEOREM VerdictsStay == Spec => VerdictIsFinal
<1>1. IInv /\ [Next]_vars
        => [\A r \in Requests : status[r] \in Verdicts => status'[r] = status[r]]_vars
  BY NextInv DEF Kept
<1> QED BY <1>1, Invariance, PTL DEF Spec, VerdictIsFinal

\* Nothing late is recorded in a decided Run.
THEOREM LateIsIgnored == Spec => NothingLate
<1>1. IInv /\ [Next]_vars
        => [Terminal => \A r \in Requests :
              status'[r] = status[r] \/ status'[r] \in {"QUEUED"} \cup Gates]_vars
  BY NextInv DEF Late
<1> QED BY <1>1, Invariance, PTL DEF Spec, NothingLate

-----------------------------------------------------------------------------
(* Reviews by people *)

\* Only agents execute in the worker; people decide in sessions.
PeopleDecideOutside == \A w \in Workers : \A r \in Human : task[w][r] # "executing"

\* A call that prepares has the reservation until its lease ends.
Reserved == \A c \in Claims : Preparing(c) /\ c \notin lapsed => tryClaim[On[c]] = c

\* The record tells of the call that has the review reserved.
ReservationTold ==
  \A r \in Human : tryClaim[r] # None =>
    On[tryClaim[r]] = r /\ record[r] = [id |-> tryClaim[r], status |-> "preparing"]

\* A record names its call, and one that says "claimed" the assigned reviewer's.
RecordTrue ==
  \A r \in Human :
    /\ record[r].status # "none" => record[r].id \in Claims
    /\ record[r].status = "claimed" => claimedBy[r] = By[record[r].id]

\* A session is the assigned reviewer's.
SessionsAssigned ==
  \A s \in Sessions : \A r \in Human : session[s] = r => claimedBy[r] = By[s]

ReviewInv ==
  /\ IInv
  /\ ClaimTypeOK
  /\ PeopleDecideOutside
  /\ Reserved
  /\ ReservationTold
  /\ RecordTrue
  /\ SessionsAssigned
-----------------------------------------------------------------------------
(* What a step of the Run does to reviews by people *)

LEMMA PeopleStay ==
  ASSUME IInv, PeopleDecideOutside, [Next]_vars
  PROVE  PeopleDecideOutside'
<1>t. task \in [Workers -> [Requests ->
        {"none", "admitting", "preparing", "executing", "alarming", "cleanup", "failing"}]]
      /\ Human \subseteq Requests
  BY RunAssumption DEF IInv, TypeOK
<1>1. CASE UNCHANGED task BY <1>1 DEF PeopleDecideOutside
<1>2. ASSUME NEW w \in Workers, Select(w) PROVE PeopleDecideOutside'
  <2>1. PICK launched :
          task' = [task EXCEPT ![w] = [r \in Requests |->
                     IF r \in launched THEN "admitting" ELSE task[w][r]]]
    BY <1>2 DEF Select
  <2>2. ASSUME NEW v \in Workers, NEW r \in Human PROVE task'[v][r] # "executing"
    BY <1>t, <2>1 DEF PeopleDecideOutside
  <2> QED BY <2>2 DEF PeopleDecideOutside
<1>3. ASSUME NEW w \in Workers, Exit(w) PROVE PeopleDecideOutside'
  <2>1. task' = [task EXCEPT ![w] = [r \in Requests |-> "none"]] BY <1>3 DEF Exit
  <2>2. ASSUME NEW v \in Workers, NEW r \in Human PROVE task'[v][r] # "executing"
    BY <1>t, <2>1 DEF PeopleDecideOutside
  <2> QED BY <2>2 DEF PeopleDecideOutside
<1>4. ASSUME NEW w \in Workers, NEW q \in Requests, Task(w, q) PROVE PeopleDecideOutside'
  <2>1. \E stage : /\ task' = [task EXCEPT ![w][q] = stage]
                   /\ q \in Human => stage # "executing"
    BY <1>4 DEF Task, Begin, Start, Alarm, Notified, Decide, TaskError, TaskFatal,
       TaskDone, Becomes
  <2>2. PICK stage : /\ task' = [task EXCEPT ![w][q] = stage]
                     /\ q \in Human => stage # "executing"
    BY <2>1
  <2>3. ASSUME NEW v \in Workers, NEW r \in Human PROVE task'[v][r] # "executing"
    <3>1. CASE v = w /\ r = q BY <1>t, <2>2, <3>1
    <3>2. CASE ~(v = w /\ r = q) BY <1>t, <2>2, <3>2 DEF PeopleDecideOutside
    <3> QED BY <3>1, <3>2
  <2> QED BY <2>3 DEF PeopleDecideOutside
<1>5. ASSUME NEW w \in Workers,
             Claim(w) \/ ReopenFails(w) \/ Loop(w) \/ Poll(w) \/ Stop(w), ~Select(w)
      PROVE  UNCHANGED task
  BY <1>5 DEF Claim, ReopenFails, Catch, Loop, Reopened, LoopEnds, LoopAborted,
     LoopGoesOn,
     Idle, Last, Settle, Moves, Poll, Stop
<1>6. ASSUME NEW s \in Sessions,
             (\E r \in Human : Submit(s, r)) \/ CommitSubmit(s) \/ SubmitInvalid(s)
      PROVE  UNCHANGED task
  BY <1>6 DEF Submit, CommitSubmit, SubmitInvalid, procs
<1>7. ASSUME \/ \E p \in Workers \cup {None} : Cancel(p)
             \/ FailRun
             \/ Reconcile
             \/ \E r \in Requests : Retry(r)
      PROVE  UNCHANGED task
  BY <1>7 DEF Cancel, FailRun, Reconcile, Retry, procs
<1> QED BY <1>1, <1>2, <1>3, <1>4, <1>5, <1>6, <1>7 DEF Next, Loop, vars, procs

\* A transaction that saves a state of one request gives no other a verdict.
LEMMA SaveDecidesOne ==
  ASSUME IInv, NEW q \in Requests, NEW state, Save(q, state),
         NEW r \in Requests, status'[r] \in Verdicts, status[r] \notin Verdicts
  PROVE  r = q /\ state \in Verdicts
<1> DEFINE st == [status EXCEPT ![q] = state]
<1>1. status' \in Gated(st) BY DEF Save
<1>2. st[q] = state /\ \A x \in Requests \ {q} : st[x] = status[x]
  BY DEF IInv, TypeOK
<1> HIDE DEF st
<1>3. st[r] = status'[r]
  <2>1. /\ st[r] \notin Gates => status'[r] = st[r]
        /\ st[r] \in Gates => status'[r] \in {"QUEUED"} \cup Gates
    BY <1>1, GatedEffect
  <2> QED BY <2>1 DEF Gates, Verdicts
<1> QED BY <1>2, <1>3

LEMMA FailDecidesNone ==
  ASSUME FailWithin, NEW r \in Requests, status'[r] \in Verdicts
  PROVE  status[r] \in Verdicts
BY DEF FailWithin, Verdicts, Open, Gates

\* A review that waits for a person is decided in a session.
LEMMA DecidedInSession ==
  ASSUME IInv, PeopleDecideOutside, [Next]_vars, NEW r \in Human,
         status[r] = "WAITING_HUMAN", status'[r] \in Verdicts
  PROVE  \E s \in Sessions : session[s] = r
<1>r. r \in Requests /\ status[r] \notin Verdicts /\ status'[r] # status[r]
  BY RunAssumption DEF Verdicts
<1>1. ~UNCHANGED status BY <1>r
<1>2. ASSUME FailWithin PROVE FALSE BY <1>2, <1>r, FailDecidesNone
<1>3. ASSUME NEW w \in Workers,
             Claim(w) \/ ReopenFails(w) \/ Loop(w) \/ Poll(w) \/ Stop(w) \/ Exit(w)
      PROVE  FALSE
  <2>1. UNCHANGED status \/ FailWithin
    BY <1>3 DEF Claim, ReopenFails, Catch, FailOwned, Loop, Reopened, LoopEnds,
       LoopAborted,
       LoopGoesOn, Select, Idle, Last, Settle, Moves, Poll, Stop, Exit, db
  <2> QED BY <1>1, <1>2, <2>1
<1>4. ASSUME NEW w \in Workers, NEW q \in Requests, Task(w, q) PROVE FALSE
  <2>1. CASE Begin(w, q)
    <3>1. Save(q, "RUNNING") BY <1>1, <2>1 DEF Begin
    <3> QED BY <1>r, <3>1, SaveDecidesOne DEF Verdicts
  <2>2. CASE Alarm(w, q)
    <3>1. Save(q, "WAITING_HUMAN") BY <1>1, <2>2 DEF Alarm
    <3> QED BY <1>r, <3>1, SaveDecidesOne DEF Verdicts
  <2>3. CASE Decide(w, q)
    <3>1. PICK v \in Verdicts : Save(q, v) BY <1>1, <2>3 DEF Decide, Finish
    <3>2. r = q BY <1>r, <3>1, SaveDecidesOne
    <3> QED BY <2>3, <3>2 DEF Decide, PeopleDecideOutside
  <2>4. CASE TaskError(w, q)
    <3>1. Save(q, "ERROR") BY <1>1, <2>4 DEF TaskError, Finish
    <3> QED BY <1>r, <3>1, SaveDecidesOne DEF Verdicts
  <2>5. CASE Start(w, q) \/ Notified(w, q) \/ TaskFatal(w, q) \/ TaskDone(w, q)
    BY <1>1, <2>5 DEF Start, Notified, TaskFatal, TaskDone
  <2> QED BY <1>4, <2>1, <2>2, <2>3, <2>4, <2>5 DEF Task
<1>5. ASSUME NEW s \in Sessions,
             (\E q \in Human : Submit(s, q)) \/ CommitSubmit(s) \/ SubmitInvalid(s)
      PROVE  session[s] = r
  <2>1. CommitSubmit(s) BY <1>1, <1>2, <1>5 DEF Submit, SubmitInvalid, db
  <2>2. session[s] \in Requests
    BY <2>1, RunAssumption DEF CommitSubmit, IInv, TypeOK
  <2>3. PICK v \in Verdicts : Save(session[s], v) BY <1>1, <2>1 DEF CommitSubmit, Finish
  <2> QED BY <1>r, <2>2, <2>3, SaveDecidesOne
<1>6. ASSUME (\E p \in Workers \cup {None} : Cancel(p)) \/ FailRun \/ Reconcile PROVE FALSE
  BY <1>2, <1>6 DEF Cancel, FailRun, Reconcile
<1>7. ASSUME NEW q \in Requests, Retry(q) PROVE FALSE
  <2>1. Store BY Parts
  <2>2. status'[r] = status[r] \/ status'[r] \in {"QUEUED"} \cup Gates
    BY <1>7, <1>r, <2>1, RetryEffect
  <2> QED BY <1>r, <2>2 DEF Gates, Verdicts
<1> QED BY <1>1, <1>3, <1>4, <1>5, <1>6, <1>7 DEF Next, vars, db

-----------------------------------------------------------------------------
(* What a step of claimHuman does *)

ClaimPart ==
  /\ ClaimTypeOK
  /\ Reserved
  /\ ReservationTold
  /\ RecordTrue
  /\ SessionsAssigned

\* A call is for a review by a person, and everybody has a name.
LEMMA Names ==
  ASSUME NEW c \in Claims
  PROVE  /\ On[c] \in Human /\ c # None /\ By[c] \in Reviewers /\ By[c] # None
         /\ \A s \in Sessions : By[s] # None
BY ReviewAssumption DEF Reviewers

\* Steps of a call that only go on, or give up.
LEMMA GoingOn ==
  ASSUME ClaimPart, UNCHANGED vars, NEW c \in Claims,
         NEW stage \in {"confirming", "leaving", "ended"}, Goes(c, stage),
         stage = "confirming" => Preparing(c),
         UNCHANGED <<tryClaim, lapsed, claimedBy, record>>
  PROVE  ClaimPart'
<1>1. call' = [call EXCEPT ![c] = stage] /\ ClaimTypeOK BY DEF Goes, ClaimPart
<1>2. \A d \in Claims : Preparing(d)' => Preparing(d)
  BY <1>1 DEF Preparing, ClaimTypeOK
<1>3. ClaimTypeOK' BY <1>1 DEF ClaimTypeOK
<1>4. Reserved' BY <1>2 DEF ClaimPart, Reserved
<1>5. ReservationTold' /\ RecordTrue' /\ SessionsAssigned'
  BY DEF ClaimPart, ReservationTold, RecordTrue, SessionsAssigned, vars
<1> QED BY <1>3, <1>4, <1>5 DEF ClaimPart

LEMMA TryClaimStep ==
  ASSUME ClaimPart, NEW c \in Claims, TryClaim(c)
  PROVE  ClaimPart'
<1> DEFINE r == On[c]
           told == [id |-> c, status |-> "preparing"]
<1>1. /\ tryClaim' = [tryClaim EXCEPT ![r] = c]
      /\ record' = [record EXCEPT ![r] = told]
      /\ call' = [call EXCEPT ![c] = "checking"]
      /\ UNCHANGED <<lapsed, claimedBy, session>>
      /\ ~Active(r)
  BY DEF TryClaim, Goes, vars
<1>2. r \in Human /\ c # None /\ ClaimTypeOK BY Names DEF ClaimPart
<1>3. /\ tryClaim'[r] = c /\ record'[r] = told
      /\ \A q \in Human \ {r} : tryClaim'[q] = tryClaim[q] /\ record'[q] = record[q]
  BY <1>1, <1>2 DEF ClaimTypeOK
<1>4. told.id = c /\ told.status = "preparing" OBVIOUS
<1>5. ClaimTypeOK' BY <1>1, <1>2 DEF ClaimTypeOK
<1> HIDE DEF told
<1>6. Reserved'
  <2>1. ASSUME NEW d \in Claims, Preparing(d)', d \notin lapsed
        PROVE  tryClaim'[On[d]] = d
    <3>1. CASE d = c BY <1>3, <3>1
    <3>2. CASE d # c
      <4>1. Preparing(d) BY <1>1, <1>2, <2>1, <3>2 DEF Preparing, ClaimTypeOK
      <4>2. tryClaim[On[d]] = d BY <2>1, <4>1 DEF ClaimPart, Reserved
      <4>3. On[d] # r BY <1>1, <2>1, <4>2, Names DEF Active
      <4> QED BY <1>3, <4>2, <4>3, Names
    <3> QED BY <3>1, <3>2
  <2> QED BY <1>1, <2>1 DEF Reserved
<1>7. ReservationTold'
  BY <1>2, <1>3 DEF ClaimPart, ReservationTold, told
<1>8. RecordTrue'
  BY <1>1, <1>2, <1>3, <1>4 DEF ClaimPart, RecordTrue
<1>9. SessionsAssigned' BY <1>1 DEF ClaimPart, SessionsAssigned
<1> QED BY <1>5, <1>6, <1>7, <1>8, <1>9 DEF ClaimPart

LEMMA LapseStep ==
  ASSUME ClaimPart, NEW c \in Claims, Lapse(c)
  PROVE  ClaimPart'
<1>1. lapsed' = lapsed \cup {c} /\ UNCHANGED <<vars, tryClaim, claimedBy, record, call>>
  BY DEF Lapse
<1>2. ClaimTypeOK' BY <1>1 DEF ClaimPart, ClaimTypeOK
<1>3. Reserved' BY <1>1 DEF ClaimPart, Reserved, Preparing
<1>4. ReservationTold' /\ RecordTrue' /\ SessionsAssigned'
  BY <1>1 DEF ClaimPart, ReservationTold, RecordTrue, SessionsAssigned, vars
<1> QED BY <1>2, <1>3, <1>4 DEF ClaimPart

\* What this call told of itself becomes the end of its reservation.
LEMMA EndOfReservation ==
  ASSUME ClaimPart, NEW c \in Claims, tryClaim[On[c]] = c,
         NEW end \in {"released", "expired", "claimed"},
         tryClaim' = [tryClaim EXCEPT ![On[c]] = None],
         record' = [record EXCEPT ![On[c]] =
                      IF @.id = c THEN [@ EXCEPT !.status = end] ELSE @],
         call' = [call EXCEPT ![c] = "ended"],
         UNCHANGED <<vars, lapsed>>,
         claimedBy' \in [Human -> Reviewers \cup {None}],
         \A r \in Human : claimedBy'[r] = claimedBy[r] \/ claimedBy[r] = None,
         end = "claimed" => claimedBy'[On[c]] = By[c]
  PROVE  ClaimPart'
<1> DEFINE r == On[c]
<1>1. r \in Human /\ c # None /\ ClaimTypeOK BY Names DEF ClaimPart
<1>2. record[r] = [id |-> c, status |-> "preparing"]
  BY <1>1 DEF ClaimPart, ReservationTold
<1>3. record' = [record EXCEPT ![r] = [id |-> c, status |-> end]]
  <2>1. record[r].id = c BY <1>2
  <2>2. [record[r] EXCEPT !.status = end] = [id |-> c, status |-> end] BY <1>2
  <2> QED BY <1>1, <2>1, <2>2 DEF ClaimTypeOK
<1>4. /\ tryClaim'[r] = None /\ record'[r].id = c /\ record'[r].status = end
      /\ \A q \in Human \ {r} : tryClaim'[q] = tryClaim[q] /\ record'[q] = record[q]
  BY <1>1, <1>3 DEF ClaimTypeOK
<1>5. ClaimTypeOK' BY <1>1, <1>3 DEF ClaimTypeOK
<1>6. Reserved'
  <2>1. ASSUME NEW d \in Claims, Preparing(d)', d \notin lapsed
        PROVE  tryClaim'[On[d]] = d
    <3>1. d # c /\ Preparing(d) BY <1>1, <2>1 DEF Preparing, ClaimTypeOK
    <3>2. tryClaim[On[d]] = d BY <2>1, <3>1 DEF ClaimPart, Reserved
    <3>3. On[d] # r BY <3>1, <3>2
    <3> QED BY <1>4, <3>2, <3>3, Names
  <2> QED BY <2>1 DEF Reserved
<1>7. ReservationTold' BY <1>1, <1>4 DEF ClaimPart, ReservationTold
<1>8. RecordTrue'
  <2>1. ASSUME NEW q \in Human
        PROVE  /\ record'[q].status # "none" => record'[q].id \in Claims
               /\ record'[q].status = "claimed" => claimedBy'[q] = By[record'[q].id]
    <3>1. CASE q = r BY <1>4, <3>1
    <3>2. CASE q # r
      <4>1. record'[q] = record[q] BY <1>4, <3>2
      <4>2. ASSUME record[q].status = "claimed" PROVE claimedBy'[q] = By[record[q].id]
        <5>1. record[q].id \in Claims /\ claimedBy[q] = By[record[q].id]
          BY <4>2 DEF ClaimPart, RecordTrue
        <5> QED BY <5>1, Names
      <4> QED BY <4>1, <4>2 DEF ClaimPart, RecordTrue
    <3> QED BY <3>1, <3>2
  <2> QED BY <2>1 DEF RecordTrue
<1>9. SessionsAssigned'
  <2>1. ASSUME NEW s \in Sessions, NEW q \in Human, session[s] = q PROVE claimedBy'[q] = By[s]
    <3>1. claimedBy[q] = By[s] BY <2>1 DEF ClaimPart, SessionsAssigned
    <3> QED BY <3>1, Names
  <2> QED BY <2>1 DEF SessionsAssigned, vars
<1> QED BY <1>5, <1>6, <1>7, <1>8, <1>9 DEF ClaimPart

LEMMA ConfirmStep ==
  ASSUME ClaimPart, NEW c \in Claims, Confirm(c)
  PROVE  ClaimPart'
<1>1. CASE Owned(c)
  <2>1. /\ claimedBy' = [claimedBy EXCEPT ![On[c]] = By[c]]
        /\ record' = [record EXCEPT ![On[c]] =
                        IF @.id = c THEN [@ EXCEPT !.status = "claimed"] ELSE @]
        /\ tryClaim' = [tryClaim EXCEPT ![On[c]] = None]
        /\ call' = [call EXCEPT ![c] = "ended"]
        /\ UNCHANGED <<vars, lapsed>>
    BY <1>1 DEF Confirm, Goes
  <2>2. On[c] \in Human /\ By[c] \in Reviewers /\ ClaimTypeOK BY Names DEF ClaimPart
  <2>3. /\ claimedBy' \in [Human -> Reviewers \cup {None}]
        /\ claimedBy'[On[c]] = By[c]
        /\ \A r \in Human : claimedBy'[r] = claimedBy[r] \/ claimedBy[r] = None
    BY <1>1, <2>1, <2>2 DEF ClaimTypeOK, Owned
  <2>4. tryClaim[On[c]] = c BY <1>1 DEF Owned
  <2> QED BY <2>1, <2>3, <2>4, EndOfReservation
<1>2. CASE ~Owned(c)
  BY <1>2, GoingOn DEF Confirm
<1> QED BY <1>1, <1>2

LEMMA ReleaseStep ==
  ASSUME ClaimPart, NEW c \in Claims, Release(c)
  PROVE  ClaimPart'
<1>1. CASE Releases(c)
  <2> DEFINE told == IF c \in lapsed THEN "expired" ELSE "released"
  <2>1. /\ record' = [record EXCEPT ![On[c]] =
                        IF @.id = c THEN [@ EXCEPT !.status = told] ELSE @]
        /\ tryClaim' = [tryClaim EXCEPT ![On[c]] = None]
        /\ call' = [call EXCEPT ![c] = "ended"]
        /\ UNCHANGED <<vars, lapsed>> /\ claimedBy' = claimedBy
    BY <1>1 DEF Release, Goes
  <2>2. told \in {"released", "expired"} OBVIOUS
  <2>3. tryClaim[On[c]] = c BY <1>1 DEF Releases
  <2>4. claimedBy' \in [Human -> Reviewers \cup {None}]
    BY <2>1 DEF ClaimPart, ClaimTypeOK
  <2> HIDE DEF told
  <2> QED BY <2>1, <2>2, <2>3, <2>4, EndOfReservation
<1>2. CASE ~Releases(c)
  BY <1>2, GoingOn DEF Release
<1> QED BY <1>1, <1>2

LEMMA ClaimingStep ==
  ASSUME ClaimPart, NEW c \in Claims, Claiming(c)
  PROVE  ClaimPart' /\ UNCHANGED vars
<1>1. CASE TryClaim(c) BY <1>1, TryClaimStep DEF TryClaim
<1>2. CASE Prepare(c)
  BY <1>2, GoingOn DEF Prepare, Preparing
<1>3. CASE ChecksFail(c) BY <1>3, GoingOn DEF ChecksFail
<1>4. CASE Confirm(c) BY <1>4, ConfirmStep DEF Confirm
<1>5. CASE Release(c) BY <1>5, ReleaseStep DEF Release
<1>6. CASE HeartbeatFails(c) BY <1>6, GoingOn DEF HeartbeatFails
<1>7. CASE Lapse(c) BY <1>7, LapseStep DEF Lapse
<1>8. CASE ReviewerExits(c) BY <1>8, GoingOn DEF ReviewerExits
<1> QED BY <1>1, <1>2, <1>3, <1>4, <1>5, <1>6, <1>7, <1>8 DEF Claiming

\* A step of the Run opens a session only to the assigned reviewer.
LEMMA RunStepKeeps ==
  ASSUME ClaimPart, UNCHANGED claimVars,
         \/ RunStep
         \/ UNCHANGED vars
  PROVE  ClaimPart'
<1>1. UNCHANGED <<tryClaim, lapsed, claimedBy, record, call>> BY DEF claimVars
<1>2. SessionsAssigned'
  <2>1. CASE RunStep
    BY <1>1, <2>1, RunAssumption DEF ClaimPart, SessionsAssigned, RunStep, Opens
  <2>2. CASE UNCHANGED vars BY <1>1, <2>2 DEF ClaimPart, SessionsAssigned, vars
  <2> QED BY <2>1, <2>2
<1>3. ClaimTypeOK' BY <1>1 DEF ClaimPart, ClaimTypeOK
<1>4. Reserved' BY <1>1 DEF ClaimPart, Reserved, Preparing
<1>5. ReservationTold' /\ RecordTrue'
  BY <1>1 DEF ClaimPart, ReservationTold, RecordTrue
<1> QED BY <1>2, <1>3, <1>4, <1>5 DEF ClaimPart

LEMMA ReviewParts == ReviewInv <=> IInv /\ PeopleDecideOutside /\ ClaimPart
BY DEF ReviewInv, ClaimPart

LEMMA ReviewInductive ==
  ASSUME ReviewInv, [ReviewNext]_reviewVars
  PROVE  ReviewInv' /\ [Next]_vars
<1>1. [Next]_vars
  BY ReviewParts, ClaimingStep DEF ReviewNext, RunStep, reviewVars
<1>2. IInv' /\ PeopleDecideOutside' BY <1>1, ReviewParts, NextInv, PeopleStay
<1>3. ClaimPart'
  <2>1. CASE RunStep BY <2>1, ReviewParts, RunStepKeeps DEF RunStep
  <2>2. CASE \E c \in Claims : Claiming(c) BY <2>2, ReviewParts, ClaimingStep
  <2>3. CASE UNCHANGED reviewVars BY <2>3, ReviewParts, RunStepKeeps DEF reviewVars
  <2> QED BY <2>1, <2>2, <2>3 DEF ReviewNext
<1> QED BY <1>1, <1>2, <1>3 DEF ReviewInv, ClaimPart

LEMMA ReviewStarts == ReviewInit => ReviewInv
<1> SUFFICES ASSUME ReviewInit PROVE ReviewInv OBVIOUS
<1>1. Init /\ ClaimInit /\ IInv BY InitInv DEF ReviewInit
<1>2. PeopleDecideOutside BY <1>1, RunAssumption DEF Init, PeopleDecideOutside
<1>3. ClaimTypeOK BY <1>1 DEF ClaimInit, ClaimTypeOK, Nothing
<1>4. Reserved /\ ReservationTold
  BY <1>1 DEF ClaimInit, Reserved, Preparing, ReservationTold
<1>5. RecordTrue BY <1>1 DEF ClaimInit, RecordTrue, Nothing
<1>6. SessionsAssigned BY <1>1, RunAssumption DEF Init, SessionsAssigned
<1> QED BY <1>1, <1>2, <1>3, <1>4, <1>5, <1>6 DEF ReviewInv

-----------------------------------------------------------------------------
(* Theorems *)

\* The invariant of reviews, with that of the Run they belong to.
THEOREM ReviewInvariance == ReviewSpec => []ReviewInv
<1>1. ReviewInv /\ [ReviewNext]_reviewVars => ReviewInv' BY ReviewInductive
<1> QED BY ReviewStarts, <1>1, PTL DEF ReviewSpec

\* Reviews by people are part of the life of a Run: every behaviour with them is
\* one of RunLifecycle, whose theorems hold of it.
THEOREM ReviewsAreRuns == ReviewSpec => Spec
<1>1. ReviewInit => Init BY DEF ReviewInit
<1>2. ReviewInv /\ [ReviewNext]_reviewVars => [Next]_vars BY ReviewInductive
<1> QED BY <1>1, <1>2, ReviewInvariance, PTL DEF ReviewSpec, Spec

\* Pruning is beside the reviews: it changes nothing of theirs.
THEOREM StoresAreReviews == StoreSpec => ReviewSpec
<1>1. StoreInit => ReviewInit BY DEF StoreInit
<1>2. [StoreNext]_allVars => [ReviewNext]_reviewVars
  BY DEF StoreNext, Work, PruneStart, Move, MoveFails, allVars
<1> QED BY <1>1, <1>2, PTL DEF StoreSpec, ReviewSpec

\* One reviewer prepares a review at a time, and everybody is shown who.
THEOREM PreparationIsShown == StoreSpec => []PreparationShown
<1>1. ReviewInv => PreparationShown
  <2> SUFFICES ASSUME ReviewInv PROVE OnePreparation /\ ShownIsTrue
    BY DEF PreparationShown
  <2>1. ClaimPart BY ReviewParts
  <2>2. OnePreparation BY <2>1 DEF OnePreparation, ClaimPart, Reserved
  <2>3. ASSUME NEW c \in Claims, Owned(c)
        PROVE  record[On[c]] = [id |-> c, status |-> "preparing"] /\ Shown(On[c]) = "preparing"
    <3>1. tryClaim[On[c]] = c /\ c \notin lapsed /\ status[On[c]] = "WAITING_HUMAN"
      BY <2>3 DEF Owned, Waiting
    <3>2. record[On[c]] = [id |-> c, status |-> "preparing"]
      BY <2>1, <3>1, Names DEF ClaimPart, ReservationTold
    <3> QED BY <3>1, <3>2 DEF Shown
  <2>4. ASSUME NEW r \in Human, Shown(r) = "preparing"
        PROVE  Active(r) /\ status[r] = "WAITING_HUMAN"
    <3>1. /\ record[r].status = "preparing" /\ record[r].id \notin lapsed
          /\ status[r] = "WAITING_HUMAN" /\ tryClaim[r] = record[r].id
      BY <2>4 DEF Shown
    <3>2. record[r].id \in Claims BY <2>1, <3>1 DEF ClaimPart, RecordTrue
    <3> QED BY <3>1, <3>2, Names DEF Active
  <2>5. ASSUME NEW r \in Human, Shown(r) = "claimed"
        PROVE  claimedBy[r] = By[record[r].id]
    <3>1. record[r].status = "claimed" BY <2>5 DEF Shown
    <3> QED BY <2>1, <3>1 DEF ClaimPart, RecordTrue
  <2> QED BY <2>2, <2>3, <2>4, <2>5 DEF ShownIsTrue
<1> QED BY <1>1, ReviewInvariance, StoresAreReviews, PTL

\* A person's verdict is the assigned reviewer's, and no assignment is taken over.
THEOREM AssigneesDecide == StoreSpec => AssigneeDecides
<1>1. ASSUME ReviewInv, [ReviewNext]_reviewVars, NEW r \in Human
      PROVE  /\ claimedBy[r] # None => claimedBy'[r] = claimedBy[r]
             /\ claimedBy'[r] # claimedBy[r] =>
                  \E c \in Claims : /\ tryClaim[r] = c /\ c \notin lapsed
                                    /\ Preparing(c) /\ claimedBy'[r] = By[c]
             /\ status[r] = "WAITING_HUMAN" /\ status'[r] \in Verdicts =>
                  \E s \in Sessions : session[s] = r /\ claimedBy[r] = By[s]
  <2>1. ASSUME claimedBy'[r] # claimedBy[r]
        PROVE  \E c \in Claims : /\ Owned(c) /\ On[c] = r /\ call[c] = "confirming"
                                 /\ claimedBy'[r] = By[c]
    <3>1. PICK c \in Claims : Confirm(c) /\ Owned(c)
      BY <1>1, <2>1 DEF ReviewNext, RunStep, claimVars, reviewVars, Claiming, TryClaim,
         Prepare,
         ChecksFail, Confirm, Release, HeartbeatFails, Lapse, ReviewerExits
    <3>2. claimedBy' = [claimedBy EXCEPT ![On[c]] = By[c]] /\ call[c] = "confirming"
      BY <3>1 DEF Confirm
    <3>3. claimedBy \in [Human -> Reviewers \cup {None}]
      BY <1>1 DEF ReviewInv, ClaimTypeOK
    <3>4. On[c] = r BY <2>1, <3>2, <3>3
    <3> QED BY <3>1, <3>2, <3>3, <3>4
  <2>2. ASSUME status[r] = "WAITING_HUMAN", status'[r] \in Verdicts
        PROVE  \E s \in Sessions : session[s] = r /\ claimedBy[r] = By[s]
    <3>1. [Next]_vars /\ IInv /\ PeopleDecideOutside /\ SessionsAssigned
      BY <1>1, ReviewInductive DEF ReviewInv
    <3>2. PICK s \in Sessions : session[s] = r BY <2>2, <3>1, DecidedInSession
    <3> QED BY <3>1, <3>2 DEF SessionsAssigned
  <2> QED BY <2>1, <2>2 DEF Owned, Preparing
<1>2. ReviewInv /\ [ReviewNext]_reviewVars =>
        [\A r \in Human :
           /\ claimedBy[r] # None => claimedBy'[r] = claimedBy[r]
           /\ claimedBy'[r] # claimedBy[r] =>
                \E c \in Claims : /\ tryClaim[r] = c /\ c \notin lapsed
                                  /\ Preparing(c) /\ claimedBy'[r] = By[c]
           /\ status[r] = "WAITING_HUMAN" /\ status'[r] \in Verdicts =>
                \E s \in Sessions : session[s] = r /\ claimedBy[r] = By[s]]_reviewVars
  BY <1>1
<1> QED BY <1>2, ReviewInvariance, StoresAreReviews, PTL DEF ReviewSpec, AssigneeDecides

\* Prune takes no files from under a task, whatever happened since it looked.
THEOREM PruneSpares == StoreSpec => PruneSparesWork
<1>1. ASSUME ReviewInv, [StoreNext]_allVars,
             NEW r \in scratch \ scratch', NEW w \in Workers
      PROVE  task[w][r] = "none"
  <2>1. PICK q \in Stored : Move(q) \/ MoveFails(q)
    BY <1>1 DEF StoreNext, Work, PruneStart, allVars, pruneVars
  <2>2. r = q /\ Prunable(q) BY <1>1, <2>1 DEF Move, MoveFails
  <2>3. owner = None /\ r \in Requests BY <2>2, PruneAssumption DEF Prunable
  <2>4. InFlight(w) = {}
    BY <1>1, <2>3, RunAssumption DEF ReviewInv, IInv, Calling
  <2> QED BY <2>3, <2>4 DEF InFlight
<1>2. ReviewInv /\ [StoreNext]_allVars =>
        [\A r \in scratch \ scratch' : \A w \in Workers : task[w][r] = "none"]_allVars
  BY <1>1
<1> QED BY <1>2, ReviewInvariance, StoresAreReviews, PTL DEF StoreSpec, PruneSparesWork
=============================================================================
