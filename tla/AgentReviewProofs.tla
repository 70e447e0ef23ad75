--------------------------- MODULE AgentReviewProofs ---------------------------
(***************************************************************************)
(* Safety of reviews by agents, for any number of them on a lane, any      *)
(* budgets, deadlines and delays: what a recorded verdict rests on, what   *)
(* may be asked of a provider again, and when.  That every execution ends  *)
(* is liveness and stays with TLC.                                         *)
(***************************************************************************)
EXTENDS AgentReview, TLAPS

Lanes == [until : Nat, blocked : BOOLEAN]
Turns == [attempt : Nat, refused : BOOLEAN, after : Nat, wake : Nat, delivered : BOOLEAN,
          heard : Lanes]
Executions ==
  [at : {"queued", "after", "done"} \cup Agent, deadline : Nat, turn : Turns, batch : 0 .. 2,
   issued : Nat, executed : Nat, tokens : Nat, repairing : BOOLEAN,
   failure : {"no", "budget"}, stale : BOOLEAN,
   outcome : {"none", "verdict", "stopped", "error"}]

AgentTypeOK ==
  /\ now \in Nat /\ intact \in BOOLEAN
  /\ lane \in Lanes /\ told \in Lanes
  /\ review \in [Reviews -> Executions]

\* What was read of a changed input cannot become a verdict any more.
StaleIsOver(e) == e.stale => ~intact

\* A turn that waits to be asked for has delivered nothing, and has attempts left.
TurnIsFresh(e) ==
  /\ e.at \in {"gate", "asking", "delay"} => ~e.turn.delivered
  /\ e.at \in {"gate", "asking", "turn", "telling"} => e.turn.attempt <= MaxAttempts
  /\ e.at = "delay" => e.turn.attempt < MaxAttempts

\* The row asks for all that the record does.
Covers(row, record) ==
  /\ record.until <= row.until
  /\ record.blocked => row.blocked

\* What a review has heard is in the row when it comes to look at it, has been
\* respected when it asks, and its own answer is what it is about to write.
LaneRead(e, row) ==
  /\ e.at \in {"gate", "delay"} => Covers(row, e.turn.heard)
  /\ e.at = "asking" => e.turn.heard.until <= now /\ ~e.turn.heard.blocked
  /\ e.at = "turn" => e.turn.heard = NoLane
  /\ e.at = "telling" /\ ~e.turn.refused =>
       e.turn.heard.until <= now + e.turn.after /\ ~e.turn.heard.blocked

\* Nothing is executed beyond a budget, and a review that has exceeded one does
\* not go on, although calls of unknown tools are counted before they are seen.
Spent(e, r) == e.issued > MaxToolCalls[r] \/ e.tokens > MaxTokens[r]
BudgetHolds(e, r) ==
  /\ e.executed <= e.issued /\ e.executed <= MaxToolCalls[r]
  /\ e.at = "after" => ~Spent(e, r)
  /\ e.at \in Agent /\ e.failure = "no" /\ now < e.deadline =>
       /\ e.tokens <= MaxTokens[r]
       /\ e.at # "tools" => e.issued <= MaxToolCalls[r]

Sound(e, r, row) ==
  /\ e \in Executions
  /\ StaleIsOver(e)
  /\ TurnIsFresh(e)
  /\ LaneRead(e, row)
  /\ BudgetHolds(e, r)

AgentInv ==
  /\ AgentTypeOK
  /\ told = lane  \* nothing that was written is lost
  /\ \A r \in Reviews : Sound(review[r], r, lane)

-----------------------------------------------------------------------------
(* Steps of one execution *)

LEMMA Larger ==
  ASSUME NEW a \in Int, NEW b \in Int
  PROVE  Max({a, b}) \in {a, b} /\ Max({a, b}) >= a /\ Max({a, b}) >= b
BY DEF Max

LEMMA WithBoth ==
  ASSUME NEW record \in Lanes, NEW until \in Nat, NEW blocked \in BOOLEAN
  PROVE  /\ With(record, until, blocked) \in Lanes
         /\ Covers(With(record, until, blocked), record)
         /\ With(record, until, blocked).until \in {record.until, until}
         /\ until <= With(record, until, blocked).until
         /\ With(record, until, blocked).blocked <=> record.blocked \/ blocked
<1> DEFINE before == record.until
           latest == Max({before, until})
<1>1. before \in Nat /\ record.blocked \in BOOLEAN BY DEF Lanes
<1>2. latest \in {before, until} /\ latest >= before /\ latest >= until
  <2> HIDE DEF before
  <2>1. before \in Int /\ until \in Int BY <1>1
  <2> QED BY <2>1, Larger
<1>3. With(record, until, blocked) = [until |-> latest, blocked |-> record.blocked \/ blocked]
  BY DEF With
<1> HIDE DEF latest
<1> QED BY <1>1, <1>2, <1>3 DEF Lanes, Covers

LEMMA WithBlock ==
  ASSUME NEW record \in Lanes
  PROVE  /\ With(record, 0, TRUE) \in Lanes
         /\ Covers(With(record, 0, TRUE), record)
         /\ With(record, 0, TRUE).until = record.until
         /\ With(record, 0, TRUE).blocked = TRUE
<1>1. record.until \in Nat /\ 0 \in Nat /\ TRUE \in BOOLEAN BY DEF Lanes
<1>2. /\ With(record, 0, TRUE) \in Lanes
      /\ Covers(With(record, 0, TRUE), record)
      /\ With(record, 0, TRUE).until \in {record.until, 0}
      /\ With(record, 0, TRUE).blocked <=> record.blocked \/ TRUE
  BY <1>1, WithBoth, Zenon
<1>3. With(record, 0, TRUE).blocked = TRUE
  <2>1. With(record, 0, TRUE).blocked \in BOOLEAN BY <1>2 DEF Lanes
  <2> QED BY <1>2, <2>1, Zenon
<1>4. With(record, 0, TRUE).until = record.until
  <2> DEFINE latest == With(record, 0, TRUE).until
  <2>1. latest \in {record.until, 0} /\ record.until <= latest BY <1>2, Zenon DEF Covers
  <2> HIDE DEF latest
  <2>2. latest = record.until BY <1>1, <2>1
  <2> QED BY <2>2 DEF latest
<1> QED BY <1>2, <1>3, <1>4

LEMMA WithCooldown ==
  ASSUME NEW record \in Lanes, NEW until \in Nat
  PROVE  /\ With(record, until, FALSE) \in Lanes
         /\ Covers(With(record, until, FALSE), record)
         /\ With(record, until, FALSE).until \in {record.until, until}
         /\ until <= With(record, until, FALSE).until
         /\ With(record, until, FALSE).blocked = record.blocked
<1>1. FALSE \in BOOLEAN OBVIOUS
<1>2. /\ With(record, until, FALSE) \in Lanes
      /\ Covers(With(record, until, FALSE), record)
      /\ With(record, until, FALSE).until \in {record.until, until}
      /\ until <= With(record, until, FALSE).until
      /\ With(record, until, FALSE).blocked <=> record.blocked \/ FALSE
  BY <1>1, WithBoth, Zenon
<1> QED BY <1>2 DEF Lanes

LEMMA NothingOf ==
  /\ NoLane \in Lanes /\ NoLane.until = 0 /\ ~NoLane.blocked
  /\ NoTurn \in Turns /\ ~NoTurn.delivered /\ NoTurn.heard = NoLane
  /\ \A row \in Lanes : Covers(row, row) /\ Covers(row, NoLane)
BY DEF NoLane, Lanes, NoTurn, Turns, Covers

LEMMA IdleSound ==
  ASSUME NEW r \in Reviews, NEW row \in Lanes
  PROVE  Sound(Idle, r, row)
<1>1. Idle \in Executions BY NothingOf DEF Idle, Executions
<1> QED BY <1>1, ReviewAssumption
     DEF Sound, Idle, StaleIsOver, TurnIsFresh, LaneRead, BudgetHolds, Spent, Agent

LEMMA EndedSound ==
  ASSUME NEW r \in Reviews, NEW row, NEW outcome \in {"verdict", "stopped", "error"}
  PROVE  /\ Sound(Ended(outcome), r, row)
         /\ Ended(outcome).outcome = outcome /\ Ended(outcome).at = "done"
         /\ Ended(outcome).executed = 0
<1> DEFINE e == Ended(outcome)
<1>1. Idle \in Executions /\ ~Idle.stale /\ Idle.executed = 0 /\ Idle.issued = 0
  BY NothingOf DEF Idle, Executions
<1>2. /\ e \in Executions /\ e.at = "done" /\ e.outcome = outcome
      /\ ~e.stale /\ e.executed = 0 /\ e.issued = 0
  BY <1>1 DEF Ended, Executions
<1> HIDE DEF e
<1>3. Sound(e, r, row)
  BY <1>2, ReviewAssumption DEF Sound, StaleIsOver, TurnIsFresh, LaneRead, BudgetHolds, Agent
<1> QED BY <1>2, <1>3 DEF e

\* An execution is replaced by a sound one, and the row loses nothing.
LEMMA Replaced ==
  ASSUME AgentInv, NEW r \in Reviews, NEW next, Sound(next, r, lane'), Set(r, next),
         UNCHANGED <<now, intact>>, lane' \in Lanes, told' = lane', Covers(lane', lane)
  PROVE  AgentInv'
<1>1. review' = [review EXCEPT ![r] = next] /\ next \in Executions
  BY DEF Set, Sound
<1>2. AgentTypeOK' BY <1>1 DEF AgentInv, AgentTypeOK
<1>3. ASSUME NEW q \in Reviews PROVE Sound(review[q], q, lane)'
  <2>1. CASE q = r
    <3>1. Sound(review'[q], q, lane') BY <1>1, <2>1 DEF AgentInv, AgentTypeOK
    <3> QED BY <3>1 DEF Sound, StaleIsOver, TurnIsFresh, LaneRead, BudgetHolds, Spent
  <2>2. CASE q # r
    <3>1. review'[q] = review[q] /\ Sound(review[q], q, lane) /\ lane \in Lanes
      BY <1>1, <2>2 DEF AgentInv, AgentTypeOK
    <3>2. LaneRead(review[q], lane')
      <4>1. review[q].turn.heard \in Lanes BY <3>1 DEF Sound, Executions, Turns
      <4> QED BY <3>1, <4>1 DEF Sound, LaneRead, Covers, Lanes
    <3> QED BY <3>1, <3>2 DEF Sound, StaleIsOver, TurnIsFresh, LaneRead, BudgetHolds, Spent
  <2> QED BY <2>1, <2>2
<1> QED BY <1>2, <1>3 DEF AgentInv

\* What the steps of a review start from.
LEMMA Here ==
  ASSUME AgentInv, NEW r \in Reviews
  PROVE  /\ review[r] \in Executions /\ Sound(review[r], r, lane)
         /\ now \in Nat /\ lane \in Lanes /\ told = lane /\ Covers(lane, lane)
         /\ review[r].turn \in Turns /\ review[r].turn.heard \in Lanes
         /\ MaxToolCalls[r] \in Nat /\ MaxTokens[r] \in Nat
         /\ MaxAttempts \in Nat /\ MaxAttempts >= 1
BY ReviewAssumption, NothingOf DEF AgentInv, AgentTypeOK, Executions, Turns

LEMMA StartStep ==
  ASSUME AgentInv, NEW r \in Reviews, Start(r)
  PROVE  AgentInv'
<1>1. CASE intact
  <2> DEFINE next == [Idle EXCEPT !.at = "loop", !.deadline = now + Timeout[r]]
  <2>1. Set(r, next) BY <1>1 DEF Start
  <2>2. /\ next \in Executions /\ next.at = "loop" /\ ~next.stale
        /\ next.issued = 0 /\ next.executed = 0 /\ next.tokens = 0
    <3>1. now + Timeout[r] \in Nat BY Here, ReviewAssumption
    <3>2. Idle \in Executions /\ ~Idle.stale /\ Idle.issued = 0 /\ Idle.executed = 0 /\ Idle.tokens = 0
      BY NothingOf DEF Idle, Executions
    <3> QED BY <3>1, <3>2 DEF Executions, Agent
  <2> HIDE DEF next
  <2>3. Sound(next, r, lane)
    BY <2>2, Here DEF Sound, StaleIsOver, TurnIsFresh, LaneRead, BudgetHolds
  <2> QED BY <2>1, <2>3, Here, Replaced DEF Start, lanes
<1>2. CASE ~intact
  BY <1>2, Here, EndedSound, Replaced DEF Start, lanes
<1> QED BY <1>1, <1>2

LEMMA BeginTurnStep ==
  ASSUME AgentInv, NEW r \in Reviews, BeginTurn(r)
  PROVE  AgentInv'
<1> DEFINE e == review[r]
           turn == [NoTurn EXCEPT !.attempt = 1, !.heard = told]
           next == [e EXCEPT !.at = "gate", !.turn = turn]
<1>1. e \in Executions /\ Sound(e, r, lane) BY Here
<1>2. Set(r, next) /\ UNCHANGED <<now, intact, lanes>> /\ e.at = "loop"
  BY DEF BeginTurn, At
<1>t. turn \in Turns /\ ~turn.delivered /\ turn.attempt = 1 /\ turn.heard = lane
  <2>1. told \in Lanes /\ told = lane BY Here
  <2> QED BY <2>1, NothingOf DEF NoTurn, Turns
<1> HIDE DEF turn
<1>3. /\ next \in Executions
      /\ next.stale = e.stale /\ next.issued = e.issued /\ next.executed = e.executed
      /\ next.tokens = e.tokens /\ next.failure = e.failure /\ next.deadline = e.deadline
      /\ next.at = "gate" /\ next.turn = turn
  BY <1>1, <1>2, Here, <1>t DEF Executions, Agent
<1> HIDE DEF e, next
<1>4. Sound(next, r, lane)
  BY <1>1, <1>2, <1>3, Here, <1>t
     DEF Sound, StaleIsOver, TurnIsFresh, LaneRead, BudgetHolds, Spent, Agent, Executions
<1> QED BY <1>2, <1>4, Here, Replaced DEF lanes

LEMMA PassStep ==
  ASSUME AgentInv, NEW r \in Reviews, At(r) = "gate", ~lane.blocked, lane.until <= now,
         Set(r, [review[r] EXCEPT !.at = "asking"]),
         UNCHANGED <<now, intact, lanes>>
  PROVE  AgentInv'
<1> DEFINE e == review[r]
           next == [e EXCEPT !.at = "asking"]
<1>1. e \in Executions /\ Sound(e, r, lane) /\ e.turn.heard \in Lanes BY Here
<1>2. Set(r, next) /\ UNCHANGED <<now, intact, lanes>> /\ e.at = "gate"
  BY DEF At
<1>3. /\ next \in Executions
      /\ next.stale = e.stale /\ next.issued = e.issued /\ next.executed = e.executed
      /\ next.tokens = e.tokens /\ next.failure = e.failure /\ next.deadline = e.deadline
      /\ next.at = "asking" /\ next.turn = e.turn
  BY <1>1, <1>2, Here DEF Executions, Agent
<1> HIDE DEF e, next
<1>4. Sound(next, r, lane)
  BY <1>1, <1>2, <1>3, Here
     DEF Sound, StaleIsOver, TurnIsFresh, LaneRead, Covers, BudgetHolds, Spent, Agent, Executions,
         Lanes
<1> QED BY <1>2, <1>4, Here, Replaced DEF lanes

LEMMA AskStep ==
  ASSUME AgentInv, NEW r \in Reviews, Ask(r)
  PROVE  AgentInv'
<1> DEFINE e == review[r]
           turn == [e.turn EXCEPT !.heard = NoLane]
           next == [e EXCEPT !.at = "turn", !.turn = turn]
<1>1. e \in Executions /\ Sound(e, r, lane) BY Here
<1>2. Set(r, next) /\ UNCHANGED <<now, intact, lanes>> /\ e.at = "asking"
  BY DEF Ask, At
<1>t. turn \in Turns /\ turn.attempt = e.turn.attempt /\ turn.heard = NoLane
  BY <1>1, Here, NothingOf DEF Turns
<1> HIDE DEF turn
<1>3. /\ next \in Executions
      /\ next.stale = e.stale /\ next.issued = e.issued /\ next.executed = e.executed
      /\ next.tokens = e.tokens /\ next.failure = e.failure /\ next.deadline = e.deadline
      /\ next.at = "turn" /\ next.turn = turn
  BY <1>1, <1>2, Here, <1>t DEF Executions, Agent
<1> HIDE DEF e, next
<1>4. Sound(next, r, lane)
  BY <1>1, <1>2, <1>3, Here, <1>t
     DEF Sound, StaleIsOver, TurnIsFresh, LaneRead, BudgetHolds, Spent, Agent, Executions
<1> QED BY <1>2, <1>4, Here, Replaced DEF lanes

LEMMA DeliverStep ==
  ASSUME AgentInv, NEW r \in Reviews, Deliver(r)
  PROVE  AgentInv'
<1> DEFINE e == review[r]
           turn == [e.turn EXCEPT !.delivered = TRUE]
           next == [e EXCEPT !.turn = turn]
<1>1. e \in Executions /\ Sound(e, r, lane) BY Here
<1>2. Set(r, next) /\ UNCHANGED <<now, intact, lanes>> /\ e.at = "turn"
  BY DEF Deliver, At
<1>t. turn \in Turns /\ turn.attempt = e.turn.attempt /\ turn.heard = e.turn.heard
  BY <1>1, Here DEF Turns
<1> HIDE DEF turn
<1>3. /\ next \in Executions
      /\ next.stale = e.stale /\ next.issued = e.issued /\ next.executed = e.executed
      /\ next.tokens = e.tokens /\ next.failure = e.failure /\ next.deadline = e.deadline
      /\ next.at = e.at /\ next.turn = turn
  BY <1>1, <1>2, Here, <1>t DEF Executions, Agent
<1> HIDE DEF e, next
<1>4. Sound(next, r, lane)
  BY <1>1, <1>2, <1>3, Here, <1>t
     DEF Sound, StaleIsOver, TurnIsFresh, LaneRead, BudgetHolds, Spent, Agent, Executions
<1> QED BY <1>2, <1>4, Here, Replaced DEF lanes

LEMMA RetryStep ==
  ASSUME AgentInv, NEW r \in Reviews, Retry(r)
  PROVE  AgentInv'
<1> DEFINE e == review[r]
           row == With(told, e.turn.heard.until, e.turn.heard.blocked)
           turn == [e.turn EXCEPT !.attempt = @ + 1, !.wake = 0, !.heard = row]
           next == [e EXCEPT !.at = "gate", !.turn = turn]
<1>1. e \in Executions /\ Sound(e, r, lane) BY Here
<1>2. Set(r, next) /\ UNCHANGED <<now, intact, lanes>> /\ e.at = "delay"
  BY DEF Retry, At
<1>h. row \in Lanes /\ Covers(lane, row)
  <2>1. /\ e.turn.heard \in Lanes /\ Covers(lane, e.turn.heard)
        /\ e.turn.heard.until \in Nat /\ e.turn.heard.blocked \in BOOLEAN
    BY <1>1, <1>2, Here DEF Sound, LaneRead, Lanes
  <2> QED BY <2>1, Here, WithBoth DEF Covers, Lanes
<1> HIDE DEF row
<1>t. /\ turn \in Turns /\ turn.attempt = e.turn.attempt + 1
      /\ turn.delivered = e.turn.delivered /\ turn.heard = row
  <2> DEFINE counted == [e.turn EXCEPT !.attempt = @ + 1]
             woken == [counted EXCEPT !.wake = 0]
  <2>1. /\ counted \in Turns /\ counted.attempt = e.turn.attempt + 1
        /\ counted.delivered = e.turn.delivered
    BY Here DEF Turns
  <2>2. turn = [woken EXCEPT !.heard = row] OBVIOUS
  <2> HIDE DEF counted, turn
  <2>3. /\ woken \in Turns /\ woken.attempt = e.turn.attempt + 1
        /\ woken.delivered = e.turn.delivered
    BY <2>1 DEF Turns
  <2> HIDE DEF woken
  <2> QED BY <1>h, <2>2, <2>3 DEF Turns
<1> HIDE DEF turn
<1>3. /\ next \in Executions
      /\ next.stale = e.stale /\ next.issued = e.issued /\ next.executed = e.executed
      /\ next.tokens = e.tokens /\ next.failure = e.failure /\ next.deadline = e.deadline
      /\ next.at = "gate" /\ next.turn = turn
  BY <1>1, <1>2, Here, <1>t DEF Executions, Agent
<1> HIDE DEF e, next
<1>4. Sound(next, r, lane)
  BY <1>1, <1>2, <1>3, Here, <1>h, <1>t
     DEF Sound, StaleIsOver, TurnIsFresh, LaneRead, BudgetHolds, Spent, Agent, Executions, Turns
<1> QED BY <1>2, <1>4, Here, Replaced DEF lanes

LEMMA GateStep ==
  ASSUME AgentInv, NEW r \in Reviews, Gate(r)
  PROVE  AgentInv'
<1>1. UNCHANGED <<now, intact, lanes>> BY DEF Gate
<1>2. CASE Set(r, Ended("error"))
  BY <1>1, <1>2, EndedSound, Here, Replaced DEF lanes
<1>3. CASE /\ ~lane.blocked /\ lane.until <= now
            /\ Set(r, [review[r] EXCEPT !.at = "asking"])
  BY <1>1, <1>3, PassStep DEF Gate
<1> QED BY <1>2, <1>3 DEF Gate

\* Finish, Stop, Fail, LaneBusy and Mismatch end an execution.
LEMMA EndStep ==
  ASSUME AgentInv, NEW r \in Reviews, NEW outcome \in {"verdict", "stopped", "error"},
         Set(r, Ended(outcome)), UNCHANGED <<now, intact, lanes>>
  PROVE  AgentInv'
BY EndedSound, Here, Replaced DEF lanes

\* Only the place and the turn of an execution change.
OtherTurn(e, next) ==
  /\ next \in Executions /\ next.at \in {"telling", "delay"}
  /\ next.stale = e.stale /\ next.issued = e.issued /\ next.executed = e.executed
  /\ next.tokens = e.tokens /\ next.failure = e.failure /\ next.deadline = e.deadline

LEMMA TurnSound ==
  ASSUME AgentInv, NEW r \in Reviews, At(r) \in {"turn", "telling"},
         NEW row, NEW next, OtherTurn(review[r], next),
         TurnIsFresh(next), LaneRead(next, row)
  PROVE  Sound(next, r, row)
<1> DEFINE e == review[r]
<1>1. e \in Executions /\ Sound(e, r, lane) BY Here
<1>2. e.at \in {"turn", "telling"} /\ OtherTurn(e, next) BY DEF At
<1> HIDE DEF e
<1> QED
  BY <1>1, <1>2, Here
     DEF OtherTurn, Sound, StaleIsOver, BudgetHolds, Spent, Agent, Executions

LEMMA TurnFailsStep ==
  ASSUME AgentInv, NEW r \in Reviews, TurnFails(r)
  PROVE  AgentInv'
<1> DEFINE e == review[r]
           t == e.turn
<1>0. /\ e \in Executions /\ Sound(e, r, lane) /\ t \in Turns
      /\ At(r) = "turn" /\ e.at = "turn" /\ UNCHANGED <<now, intact, lanes>>
  <2>1. At(r) = "turn" /\ UNCHANGED <<now, intact, lanes>> BY Zenon DEF TurnFails
  <2> QED BY <2>1, Here DEF At
<1>1. t.heard = NoLane /\ t.attempt <= MaxAttempts
  BY <1>0 DEF Sound, LaneRead, TurnIsFresh
<1>2. CASE Set(r, Ended("error"))
  BY <1>0, <1>1, <1>2, EndedSound, Here, Replaced DEF lanes
<1>3. CASE Set(r, [e EXCEPT !.at = "telling", !.turn.refused = TRUE,
                            !.turn.heard = With(@, 0, TRUE)])
  <2> DEFINE row == With(t.heard, 0, TRUE)
             turn == [t EXCEPT !.refused = TRUE, !.heard = row]
             next == [e EXCEPT !.at = "telling", !.turn = turn]
  <2>1. Set(r, next) BY <1>3
  <2>2. row \in Lanes BY <1>1, NothingOf, WithBlock
  <2> HIDE DEF row
  <2>3. turn \in Turns /\ turn.refused /\ turn.attempt = t.attempt
    BY <1>0, <2>2 DEF Turns
  <2> HIDE DEF turn
  <2>4. next.at = "telling" /\ next.turn = turn /\ OtherTurn(e, next)
    BY <1>0, <2>3 DEF OtherTurn, Executions, Agent
  <2> HIDE DEF next
  <2>5. TurnIsFresh(next) /\ LaneRead(next, lane)
    BY <1>0, <1>1, <2>3, <2>4 DEF TurnIsFresh, LaneRead
  <2>6. Sound(next, r, lane) BY <1>0, <2>4, <2>5, TurnSound
  <2> QED BY <1>0, <1>1, <2>1, <2>6, Here, Replaced DEF lanes
<1>4. ASSUME NEW partial \in BOOLEAN, NEW after \in 0 .. 2,
             Set(r, [e EXCEPT !.at = "telling", !.turn.after = Delay(r, after),
                              !.turn.delivered = @ \/ partial,
                              !.turn.heard = With(@, now + Delay(r, after), FALSE)])
      PROVE  AgentInv'
  <2> DEFINE d == Delay(r, after)
             row == With(t.heard, now + d, FALSE)
             came == t.delivered \/ partial
             turn == [t EXCEPT !.after = d, !.delivered = came, !.heard = row]
             next == [e EXCEPT !.at = "telling", !.turn = turn]
  <2>1. Set(r, next) BY <1>4
  <2>2. d \in Nat
    <3>1. t.attempt - 1 \in Int BY <1>0, <1>1 DEF Turns
    <3> DEFINE doubled == 2 ^ (t.attempt - 1)
    <3>2. doubled \in Int BY <3>1
    <3>3. d = Max({after, doubled}) BY DEF Delay
    <3> HIDE DEF doubled, d
    <3>4. after \in Int /\ after >= 0 OBVIOUS
    <3>5. Max({after, doubled}) \in {after, doubled} /\ Max({after, doubled}) >= after
      BY <3>2, <3>4, Larger
    <3> QED BY <3>2, <3>3, <3>4, <3>5
  <2> HIDE DEF d
  <2>3. row \in Lanes /\ row.until <= now + d /\ ~row.blocked
    <3> DEFINE wake == now + d
    <3>1. wake \in Nat BY <2>2, Here
    <3>2. row = With(NoLane, wake, FALSE) BY <1>1
    <3> HIDE DEF wake, row
    <3>3. /\ With(NoLane, wake, FALSE) \in Lanes
          /\ With(NoLane, wake, FALSE).until \in {NoLane.until, wake}
          /\ With(NoLane, wake, FALSE).blocked = NoLane.blocked
      BY <3>1, NothingOf, WithCooldown
    <3>4. row \in Lanes /\ row.until <= wake /\ ~row.blocked
      <4>1. row \in Lanes /\ row.until \in {0, wake} BY <3>2, <3>3, NothingOf
      <4>2. ~row.blocked BY <3>2, <3>3, NothingOf, Zenon
      <4> QED BY <3>1, <4>1, <4>2
    <3> QED BY <3>4 DEF wake
  <2> HIDE DEF row
  <2>4. turn \in Turns /\ turn.attempt = t.attempt /\ turn.after = d /\ turn.heard = row
    <3>1. came \in BOOLEAN BY <1>0, <1>1 DEF Turns
    <3> HIDE DEF came
    <3> QED BY <1>0, <1>1, <2>2, <2>3, <3>1 DEF Turns
  <2> HIDE DEF turn
  <2>5. next.at = "telling" /\ next.turn = turn /\ OtherTurn(e, next)
    BY <1>0, <2>4 DEF OtherTurn, Executions, Agent
  <2> HIDE DEF next
  <2>6. TurnIsFresh(next) /\ LaneRead(next, lane)
    BY <1>0, <1>1, <2>3, <2>4, <2>5 DEF TurnIsFresh, LaneRead
  <2>7. Sound(next, r, lane) BY <1>0, <2>5, <2>6, TurnSound
  <2> QED BY <1>0, <1>1, <2>1, <2>7, Here, Replaced DEF lanes
<1> QED BY <1>2, <1>3, <1>4 DEF TurnFails

LEMMA BlockStep ==
  ASSUME AgentInv, NEW r \in Reviews, Block(r)
  PROVE  AgentInv'
<1>1. /\ lane' = [lane EXCEPT !.blocked = TRUE] /\ told' = With(lane, 0, TRUE)
      /\ Set(r, Ended("error")) /\ UNCHANGED <<now, intact>> /\ lane \in Lanes
  BY Here DEF Block
<1>2. /\ With(lane, 0, TRUE) \in Lanes /\ With(lane, 0, TRUE).until = lane.until
      /\ With(lane, 0, TRUE).blocked = TRUE /\ Covers(With(lane, 0, TRUE), lane)
  BY <1>1, WithBlock
<1>3. lane' = With(lane, 0, TRUE) BY <1>1, <1>2 DEF Lanes
<1> QED BY <1>1, <1>2, <1>3, EndedSound, Replaced

LEMMA DeferStep ==
  ASSUME AgentInv, NEW r \in Reviews, Defer(r)
  PROVE  AgentInv'
<1> DEFINE e == review[r]
           t == e.turn
           wake == now + t.after
           row == With(lane, wake, FALSE)
<1>1. /\ e \in Executions /\ Sound(e, r, lane) /\ t \in Turns
      /\ At(r) = "telling" /\ ~t.refused /\ UNCHANGED <<now, intact>> /\ lane \in Lanes
      /\ t.heard \in Lanes /\ t.heard.until <= wake /\ ~t.heard.blocked
  BY Here DEF Defer, At, Sound, LaneRead
<1>2. lane' = [lane EXCEPT !.until = Max({@, wake})] /\ told' = row
  BY Here DEF Defer
<1>w. wake \in Nat BY <1>1, Here DEF Turns
<1>3. row \in Lanes /\ Covers(row, lane) /\ Covers(row, t.heard) /\ lane' = row
  <2> HIDE DEF wake
  <2>1. /\ row \in Lanes /\ Covers(row, lane) /\ wake <= row.until
        /\ row.blocked = lane.blocked
    BY <1>1, <1>w, WithCooldown, Zenon
  <2>2. Covers(row, t.heard)
    <3> DEFINE answer == t.heard
    <3>1. answer \in Lanes /\ answer.until <= wake /\ ~answer.blocked BY <1>1
    <3> HIDE DEF row, answer
    <3>2. answer.until <= row.until BY <1>w, <2>1, <3>1 DEF Lanes
    <3>3. Covers(row, answer) BY <3>1, <3>2, Zenon DEF Covers
    <3> QED BY <3>3 DEF answer
  <2>3. lane' = row
    <3>1. row.until = Max({lane.until, wake}) BY DEF With
    <3>2. lane' = [lane EXCEPT !.until = row.until] BY <1>2, <3>1
    <3> HIDE DEF row
    <3> QED BY <1>1, <2>1, <3>2 DEF Lanes
  <2> QED BY <2>1, <2>2, <2>3
<1>4. CASE Set(r, Ended("error"))
  BY <1>1, <1>2, <1>3, <1>4, EndedSound, Replaced
<1>5. CASE /\ Retryable(r)
           /\ Set(r, [e EXCEPT !.at = "delay", !.turn.after = 0, !.turn.wake = wake])
  <2> DEFINE turn == [t EXCEPT !.after = 0, !.wake = wake]
             next == [e EXCEPT !.at = "delay", !.turn = turn]
  <2>1. Set(r, next) BY <1>5
  <2>2. ~t.delivered /\ t.attempt < MaxAttempts BY <1>5 DEF Retryable
  <2> HIDE DEF wake, row
  <2>3. /\ turn \in Turns /\ turn.attempt = t.attempt /\ turn.heard = t.heard
        /\ turn.delivered = t.delivered
    BY <1>1, <1>w DEF Turns
  <2> HIDE DEF turn
  <2>4. next.at = "delay" /\ next.turn = turn /\ OtherTurn(e, next)
    BY <1>1, <2>3 DEF OtherTurn, Executions, Agent
  <2> HIDE DEF next
  <2>5. TurnIsFresh(next) /\ LaneRead(next, row)
    BY <1>3, <2>2, <2>3, <2>4 DEF TurnIsFresh, LaneRead
  <2>6. Sound(next, r, row) BY <1>1, <2>4, <2>5, TurnSound
  <2> QED BY <1>1, <1>2, <1>3, <2>1, <2>6, Replaced
<1> QED BY <1>4, <1>5 DEF Defer

\* exceedBudget latches a failure unless the review has expired.
LEMMA ExceedsStop ==
  ASSUME AgentInv, NEW r \in Reviews, NEW next \in Executions,
         next.failure = review[r].failure, next.deadline = review[r].deadline
  PROVE  LET x == Exceeds(r, next)
         IN  /\ x \in Executions /\ ~(x.failure = "no" /\ now < x.deadline)
             /\ x.at = next.at /\ x.turn = next.turn /\ x.stale = next.stale
             /\ x.issued = next.issued /\ x.executed = next.executed
<1>1. CASE Live(r)
  <2>1. Exceeds(r, next) = [next EXCEPT !.failure = "budget"] BY <1>1 DEF Exceeds
  <2> QED BY <2>1 DEF Executions
<1>2. CASE ~Live(r)
  <2>1. Exceeds(r, next) = [next EXCEPT !.failure = @] BY <1>2 DEF Exceeds
  <2>2. Exceeds(r, next) = next BY <2>1 DEF Executions
  <2> QED BY <1>2, <2>2 DEF Live
<1> QED BY <1>1, <1>2

LEMMA TurnEndsStep ==
  ASSUME AgentInv, NEW r \in Reviews, TurnEnds(r)
  PROVE  AgentInv'
<1> DEFINE e == review[r]
           received(b) == [e EXCEPT !.tokens = @ + 1, !.turn = NoTurn, !.batch = b,
                                    !.at = IF b = 0 \/ e.repairing THEN "final" ELSE "tools"]
<1>1. e \in Executions /\ Sound(e, r, lane) BY Here
<1>2. PICK batch \in 0 .. 2 :
        Set(r, IF received(batch).tokens > MaxTokens[r] THEN Exceeds(r, received(batch))
               ELSE received(batch))
  BY DEF TurnEnds
<1>3. e.at = "turn" /\ UNCHANGED <<now, intact, lanes>> BY DEF TurnEnds, At
<1> DEFINE next == received(batch)
<1>4. /\ next \in Executions
      /\ next.stale = e.stale /\ next.issued = e.issued /\ next.executed = e.executed
      /\ next.failure = e.failure /\ next.deadline = e.deadline
      /\ next.at \in {"final", "tools"}
  <2> DEFINE at == IF batch = 0 \/ e.repairing THEN "final" ELSE "tools"
  <2>1. at \in {"final", "tools"} /\ NoTurn \in Turns BY NothingOf
  <2> DEFINE paid == [e EXCEPT !.tokens = @ + 1]
             counted == [paid EXCEPT !.turn = NoTurn]
  <2>2. next = [counted EXCEPT !.batch = batch, !.at = at] OBVIOUS
  <2>p. /\ paid \in Executions
        /\ paid.stale = e.stale /\ paid.issued = e.issued /\ paid.executed = e.executed
        /\ paid.failure = e.failure /\ paid.deadline = e.deadline
    BY <1>1 DEF Executions
  <2> HIDE DEF paid
  <2>3. /\ counted \in Executions
        /\ counted.stale = e.stale /\ counted.issued = e.issued
        /\ counted.executed = e.executed
        /\ counted.failure = e.failure /\ counted.deadline = e.deadline
    BY <2>1, <2>p DEF Executions
  <2> HIDE DEF at, next, counted
  <2> QED BY <2>1, <2>2, <2>3 DEF Executions, Agent
<1>5. Set(r, IF next.tokens > MaxTokens[r] THEN Exceeds(r, next) ELSE next) BY <1>2
<1> HIDE DEF next
<1>6. CASE next.tokens > MaxTokens[r]
  <2> DEFINE x == Exceeds(r, next)
  <2>1. /\ x \in Executions /\ ~(x.failure = "no" /\ now < x.deadline)
        /\ x.at = next.at /\ x.stale = next.stale
        /\ x.issued = next.issued /\ x.executed = next.executed
    BY <1>4, ExceedsStop
  <2>2. Set(r, x) BY <1>5, <1>6
  <2> HIDE DEF x, e
  <2>3. Sound(x, r, lane)
    BY <1>1, <1>4, <2>1 DEF Sound, StaleIsOver, TurnIsFresh, LaneRead, BudgetHolds
  <2> QED BY <1>3, <2>2, <2>3, Here, Replaced DEF lanes
<1>7. CASE ~(next.tokens > MaxTokens[r])
  <2>1. Set(r, next) BY <1>5, <1>7
  <2> HIDE DEF e
  <2>2. next.tokens \in Nat BY <1>4 DEF Executions
  <2>3. Sound(next, r, lane)
    BY <1>1, <1>3, <1>4, <1>7, <2>2, Here
       DEF Sound, StaleIsOver, TurnIsFresh, LaneRead, BudgetHolds, Agent
  <2> QED BY <1>3, <2>1, <2>3, Here, Replaced DEF lanes
<1> QED BY <1>6, <1>7

LEMMA ToolCallStep ==
  ASSUME AgentInv, NEW r \in Reviews, NEW known \in BOOLEAN, ToolCall(r, known)
  PROVE  AgentInv'
<1> DEFINE e == review[r]
           called == [e EXCEPT !.batch = @ - 1, !.issued = @ + 1]
<1>1. e \in Executions /\ Sound(e, r, lane) BY Here
<1>2. /\ e.at = "tools" /\ e.batch > 0 /\ Live(r)
      /\ UNCHANGED <<now, intact, lanes>>
  BY DEF ToolCall, CallPending, At
<1>3. /\ called \in Executions
      /\ called.stale = e.stale /\ called.issued = e.issued + 1 /\ called.executed = e.executed
      /\ called.tokens = e.tokens /\ called.failure = e.failure
      /\ called.deadline = e.deadline /\ called.at = e.at
  <2> DEFINE left == e.batch - 1
  <2>1. left \in 0 .. 2 BY <1>1, <1>2 DEF Executions
  <2> DEFINE taken == [e EXCEPT !.batch = left]
  <2>2. called = [taken EXCEPT !.issued = @ + 1] OBVIOUS
  <2> HIDE DEF left
  <2>3. /\ taken \in Executions /\ taken.stale = e.stale /\ taken.issued = e.issued
        /\ taken.executed = e.executed /\ taken.tokens = e.tokens /\ taken.at = e.at
        /\ taken.failure = e.failure /\ taken.deadline = e.deadline
    BY <1>1, <2>1 DEF Executions
  <2> HIDE DEF called, taken
  <2> QED BY <2>2, <2>3 DEF Executions
<1>4. Set(r, IF ~known THEN called
             ELSE IF called.issued > MaxToolCalls[r] THEN Exceeds(r, called)
             ELSE [called EXCEPT !.executed = @ + 1, !.stale = @ \/ ~intact])
  BY DEF ToolCall
<1> HIDE DEF called
<1>5. CASE ~known
  <2>1. Set(r, called) BY <1>4, <1>5
  <2> HIDE DEF e
  <2>2. Sound(called, r, lane)
    BY <1>1, <1>2, <1>3, Here
       DEF Sound, StaleIsOver, TurnIsFresh, LaneRead, BudgetHolds, Executions
  <2> QED BY <1>2, <2>1, <2>2, Here, Replaced DEF lanes
<1>6. CASE known /\ called.issued > MaxToolCalls[r]
  <2> DEFINE x == Exceeds(r, called)
  <2>1. /\ x \in Executions /\ ~(x.failure = "no" /\ now < x.deadline)
        /\ x.at = called.at /\ x.stale = called.stale
        /\ x.issued = called.issued /\ x.executed = called.executed
    BY <1>3, ExceedsStop
  <2>2. Set(r, x) BY <1>4, <1>6
  <2> HIDE DEF x, e
  <2>3. Sound(x, r, lane)
    BY <1>1, <1>2, <1>3, <2>1, Here
       DEF Sound, StaleIsOver, TurnIsFresh, LaneRead, BudgetHolds, Executions
  <2> QED BY <1>2, <2>2, <2>3, Here, Replaced DEF lanes
<1>7. CASE known /\ ~(called.issued > MaxToolCalls[r])
  <2> DEFINE stale == called.stale \/ ~intact
             next == [called EXCEPT !.executed = @ + 1, !.stale = stale]
  <2>1. Set(r, next) BY <1>4, <1>7
  <2>2. stale \in BOOLEAN /\ (stale => ~intact)
    BY <1>1, <1>3 DEF Sound, StaleIsOver, Executions
  <2> HIDE DEF stale
  <2>3. /\ next \in Executions /\ next.stale = stale /\ next.executed = called.executed + 1
        /\ next.issued = called.issued /\ next.tokens = called.tokens
        /\ next.failure = called.failure /\ next.deadline = called.deadline
        /\ next.at = called.at
    <3> DEFINE run == [called EXCEPT !.executed = @ + 1]
    <3>1. /\ run \in Executions /\ run.executed = called.executed + 1
          /\ run.issued = called.issued /\ run.tokens = called.tokens
          /\ run.failure = called.failure /\ run.deadline = called.deadline
          /\ run.at = called.at
      BY <1>3 DEF Executions
    <3>2. next = [run EXCEPT !.stale = stale] OBVIOUS
    <3> HIDE DEF run, next
    <3> QED BY <2>2, <3>1, <3>2 DEF Executions
  <2> HIDE DEF e, next
  <2>4. Sound(next, r, lane)
    BY <1>1, <1>2, <1>3, <1>7, <2>2, <2>3, Here
       DEF Sound, StaleIsOver, TurnIsFresh, LaneRead, BudgetHolds, Executions
  <2> QED BY <1>2, <2>1, <2>4, Here, Replaced DEF lanes
<1> QED BY <1>5, <1>6, <1>7

LEMMA BatchEndsStep ==
  ASSUME AgentInv, NEW r \in Reviews, BatchEnds(r)
  PROVE  AgentInv'
<1> DEFINE e == review[r]
<1>1. e \in Executions /\ Sound(e, r, lane) BY Here
<1>2. e.at = "tools" /\ UNCHANGED <<now, intact, lanes>> BY DEF BatchEnds, At
<1>3. CASE e.issued > MaxToolCalls[r]
  <2> DEFINE x == Exceeds(r, e)
  <2>1. /\ x \in Executions /\ ~(x.failure = "no" /\ now < x.deadline)
        /\ x.at = e.at /\ x.stale = e.stale
        /\ x.issued = e.issued /\ x.executed = e.executed
    BY <1>1, ExceedsStop
  <2>2. Set(r, x) BY <1>3 DEF BatchEnds
  <2> HIDE DEF x, e
  <2>3. Sound(x, r, lane)
    BY <1>1, <1>2, <2>1, Here DEF Sound, StaleIsOver, TurnIsFresh, LaneRead, BudgetHolds
  <2> QED BY <1>2, <2>2, <2>3, Here, Replaced DEF lanes
<1>4. CASE ~(e.issued > MaxToolCalls[r])
  <2> DEFINE next == [e EXCEPT !.at = "loop"]
  <2>1. Set(r, next) BY <1>4 DEF BatchEnds
  <2>2. /\ next \in Executions /\ next.at = "loop"
        /\ next.stale = e.stale /\ next.issued = e.issued /\ next.executed = e.executed
        /\ next.tokens = e.tokens /\ next.failure = e.failure /\ next.deadline = e.deadline
    BY <1>1 DEF Executions, Agent
  <2> HIDE DEF e, next
  <2>3. Sound(next, r, lane)
    BY <1>1, <1>2, <1>4, <2>2, Here
       DEF Sound, StaleIsOver, TurnIsFresh, LaneRead, BudgetHolds, Executions, Agent
  <2> QED BY <1>2, <2>1, <2>3, Here, Replaced DEF lanes
<1> QED BY <1>3, <1>4

LEMMA ReadFinalStep ==
  ASSUME AgentInv, NEW r \in Reviews, ReadFinal(r)
  PROVE  AgentInv'
<1> DEFINE e == review[r]
           answered == [e EXCEPT !.at = "after"]
           repaired == [e EXCEPT !.at = "loop", !.repairing = TRUE]
<1>1. e \in Executions /\ Sound(e, r, lane) BY Here
<1>2. /\ e.at = "final" /\ e.failure = "no" /\ now < e.deadline
      /\ UNCHANGED <<now, intact, lanes>>
  BY DEF ReadFinal, At, Live
<1>3. CASE Set(r, answered)
  <2>1. /\ answered \in Executions /\ answered.at = "after" /\ answered.stale = e.stale
        /\ answered.issued = e.issued /\ answered.executed = e.executed
        /\ answered.tokens = e.tokens
    BY <1>1 DEF Executions
  <2> HIDE DEF e, answered
  <2>2. Sound(answered, r, lane)
    BY <1>1, <1>2, <2>1, Here
       DEF Sound, StaleIsOver, TurnIsFresh, LaneRead, BudgetHolds, Spent, Executions, Agent
  <2> QED BY <1>2, <1>3, <2>2, Here, Replaced DEF lanes
<1>4. CASE Set(r, repaired)
  <2>1. /\ repaired \in Executions /\ repaired.at = "loop" /\ repaired.stale = e.stale
        /\ repaired.issued = e.issued /\ repaired.executed = e.executed
        /\ repaired.tokens = e.tokens /\ repaired.failure = e.failure
        /\ repaired.deadline = e.deadline
    BY <1>1 DEF Executions, Agent
  <2> HIDE DEF e, repaired
  <2>2. Sound(repaired, r, lane)
    BY <1>1, <1>2, <2>1, Here
       DEF Sound, StaleIsOver, TurnIsFresh, LaneRead, BudgetHolds, Executions, Agent
  <2> QED BY <1>2, <1>4, <2>2, Here, Replaced DEF lanes
<1>5. CASE Set(r, Ended("error"))
  BY <1>2, <1>5, EndStep
<1> QED BY <1>3, <1>4, <1>5 DEF ReadFinal

LEMMA AgentStep == ASSUME AgentInv, NEW r \in Reviews, Step(r) PROVE AgentInv'
<1>1. CASE Start(r) BY <1>1, StartStep
<1>2. CASE Finish(r)
  <2>1. \/ Set(r, Ended("verdict")) \/ Set(r, Ended("stopped")) BY <1>2 DEF Finish
  <2> QED BY <1>2, <2>1, EndStep DEF Finish
<1>3. CASE Stop(r) BY <1>3, EndStep DEF Stop
<1>4. CASE Fail(r) BY <1>4, EndStep DEF Fail
<1>5. CASE BeginTurn(r) BY <1>5, BeginTurnStep
<1>6. CASE Gate(r) BY <1>6, GateStep
<1>7. CASE Deliver(r) BY <1>7, DeliverStep
<1>8. CASE TurnFails(r) BY <1>8, TurnFailsStep
<1>9. CASE Retry(r) BY <1>9, RetryStep
<1>10. CASE TurnEnds(r) BY <1>10, TurnEndsStep
<1>11. CASE Mismatch(r) BY <1>11, EndStep DEF Mismatch
<1>12. CASE BatchEnds(r) BY <1>12, BatchEndsStep
<1>13. CASE ReadFinal(r) BY <1>13, ReadFinalStep
<1>14. CASE \E known \in BOOLEAN : ToolCall(r, known) BY <1>14, ToolCallStep
<1>15. CASE Ask(r) BY <1>15, AskStep
<1>16. CASE Block(r) BY <1>16, BlockStep
<1>17. CASE Defer(r) BY <1>17, DeferStep
<1>18. CASE LaneBusy(r) BY <1>18, EndStep DEF LaneBusy
<1> QED
  BY <1>1, <1>2, <1>3, <1>4, <1>5, <1>6, <1>7, <1>8, <1>9, <1>10, <1>11, <1>12, <1>13,
     <1>14, <1>15, <1>16, <1>17, <1>18
     DEF Step

\* The clock and the workspace: what is sound stays so.
LEMMA OutsideStep ==
  ASSUME AgentInv, Tick \/ Change \/ UNCHANGED vars
  PROVE  AgentInv'
<1>0. now \in Nat /\ intact \in BOOLEAN BY DEF AgentInv, AgentTypeOK
<1>1. /\ UNCHANGED <<review, lane, told>> /\ now' \in Nat /\ now <= now' /\ intact' \in BOOLEAN
      /\ (intact' => intact)
  <2>1. CASE Tick BY <1>0, <2>1 DEF Tick, lanes
  <2>2. CASE Change
    <3>1. intact' = FALSE /\ UNCHANGED <<now, lane, told, review>>
      BY <2>2 DEF Change, lanes
    <3>2. now <= now BY <1>0
    <3> QED BY <1>0, <3>1, <3>2
  <2>4. CASE UNCHANGED vars BY <1>0, <2>4 DEF vars
  <2> QED BY <2>1, <2>2, <2>4
<1>3. AgentTypeOK' BY <1>1 DEF AgentInv, AgentTypeOK
<1>4. ASSUME NEW r \in Reviews PROVE Sound(review[r], r, lane)'
  <2> DEFINE e == review[r]
  <2>1. /\ Sound(e, r, lane) /\ e.deadline \in Nat /\ e.turn.heard.until \in Nat
        /\ e.turn.after \in Nat
    BY Here DEF Executions, Turns, Lanes
  <2>2. now \in Nat BY Here, <1>4
  <2>3. e' = e /\ lane' = lane BY <1>1
  <2> HIDE DEF e
  <2>4. LaneRead(e, lane)' BY <1>1, <2>1, <2>2, <2>3 DEF Sound, LaneRead
  <2>5. Sound(e, r, lane)'
    BY <1>1, <2>1, <2>2, <2>3, <2>4 DEF Sound, StaleIsOver, TurnIsFresh, BudgetHolds, Spent
  <2> QED BY <2>5 DEF e
<1> QED BY <1>1, <1>3, <1>4 DEF AgentInv

\* A resumed account asks nothing of anybody.
LEMMA ResumeStep ==
  ASSUME AgentInv, Resume
  PROVE  AgentInv'
<1>1. /\ lane' = NoLane /\ told' = NoLane /\ UNCHANGED <<now, intact>>
      /\ review' = [r \in Reviews |-> [review[r] EXCEPT !.turn.heard = NoLane]]
  BY DEF Resume
<1>2. ASSUME NEW r \in Reviews
      PROVE  Sound(review'[r], r, NoLane)
  <2> DEFINE e == review[r]
             turn == [e.turn EXCEPT !.heard = NoLane]
             next == [e EXCEPT !.turn = turn]
  <2>1. review'[r] = next BY <1>1
  <2>2. e \in Executions /\ Sound(e, r, lane) /\ e.turn \in Turns /\ now \in Nat BY Here
  <2>3. /\ turn \in Turns /\ turn.heard = NoLane /\ turn.attempt = e.turn.attempt
        /\ turn.delivered = e.turn.delivered /\ turn.refused = e.turn.refused
        /\ turn.after \in Nat
    BY <2>2, NothingOf DEF Turns
  <2> HIDE DEF turn
  <2>4. /\ next \in Executions /\ next.at = e.at /\ next.turn = turn
        /\ next.stale = e.stale /\ next.issued = e.issued /\ next.executed = e.executed
        /\ next.tokens = e.tokens /\ next.failure = e.failure /\ next.deadline = e.deadline
    BY <2>2, <2>3 DEF Executions
  <2> HIDE DEF e, next
  <2>5. LaneRead(next, NoLane)
    BY <2>2, <2>3, <2>4, NothingOf DEF LaneRead
  <2>6. Sound(next, r, NoLane)
    BY <2>2, <2>3, <2>4, <2>5
       DEF Sound, StaleIsOver, TurnIsFresh, BudgetHolds, Spent
  <2> QED BY <2>1, <2>6
<1>3. AgentTypeOK'
  <2>1. \A r \in Reviews : review'[r] \in Executions BY <1>2 DEF Sound
  <2> QED BY <1>1, <2>1, NothingOf DEF AgentInv, AgentTypeOK
<1>4. ASSUME NEW r \in Reviews PROVE Sound(review[r], r, lane)'
  <2>1. Sound(review'[r], r, lane') BY <1>1, <1>2
  <2> QED BY <1>1, <2>1 DEF Sound, StaleIsOver, TurnIsFresh, LaneRead, BudgetHolds, Spent
<1> QED BY <1>1, <1>3, <1>4 DEF AgentInv

LEMMA AgentInductive == ASSUME AgentInv, [Next]_vars PROVE AgentInv'
BY AgentStep, OutsideStep, ResumeStep DEF Next

-----------------------------------------------------------------------------
(* What only one action does *)

LEMMA Becomes ==
  ASSUME AgentInv, NEW r \in Reviews, NEW next, Set(r, next)
  PROVE  review'[r] = next
BY DEF AgentInv, AgentTypeOK, Set

\* The shape of every step that is neither the boundary's answer nor the request.
Plain(e, next) ==
  /\ next.outcome \in {e.outcome, "none", "stopped", "error"}
  /\ e.at = "turn" \/ next.at # "turn"

LEMMA PlainEnd ==
  ASSUME AgentInv, NEW r \in Reviews, NEW outcome \in {"stopped", "error"},
         Set(r, Ended(outcome))
  PROVE  Plain(review[r], review'[r])
<1>1. review'[r] = Ended(outcome) BY Becomes
<1> DEFINE next == Ended(outcome)
<1>2. next.outcome = outcome /\ next.at = "done" BY EndedSound
<1>3. review'[r] = next BY <1>1
<1> HIDE DEF next
<1> QED BY <1>2, <1>3 DEF Plain

\* Exceeding a budget changes neither the place nor the outcome.
LEMMA PlainExceeds ==
  ASSUME NEW r \in Reviews, NEW next \in Executions
  PROVE  Exceeds(r, next).outcome = next.outcome /\ Exceeds(r, next).at = next.at
BY DEF Exceeds, Executions

LEMMA PlainStep ==
  ASSUME AgentInv, NEW r \in Reviews, Step(r), ~Finish(r), ~Ask(r)
  PROVE  Plain(review[r], review'[r])
<1> DEFINE e == review[r]
<1>e. e \in Executions BY Here
<1>1. CASE Start(r)
  <2> DEFINE next == [Idle EXCEPT !.at = "loop", !.deadline = now + Timeout[r]]
  <2>1. CASE intact
    <3>1. review'[r] = next BY <1>1, <2>1, Becomes DEF Start
    <3>2. next.at = "loop" /\ next.outcome = "none" BY DEF Idle
    <3> QED BY <3>1, <3>2 DEF Plain
  <2>2. CASE ~intact BY <1>1, <2>2, PlainEnd DEF Start
  <2> QED BY <2>1, <2>2
<1>2. CASE Stop(r) BY <1>2, PlainEnd DEF Stop
<1>3. CASE Fail(r) BY <1>3, PlainEnd DEF Fail
<1>4. CASE Mismatch(r) BY <1>4, PlainEnd DEF Mismatch
<1>5. CASE BeginTurn(r)
  <2>1. review'[r] = [e EXCEPT !.at = "gate",
                               !.turn = [NoTurn EXCEPT !.attempt = 1, !.heard = told]]
    BY <1>5, Becomes DEF BeginTurn
  <2> QED BY <1>e, <2>1 DEF Plain, Executions
<1>6. CASE Deliver(r)
  <2>1. review'[r] = [e EXCEPT !.turn.delivered = TRUE] /\ e.at = "turn"
    BY <1>6, Becomes DEF Deliver, At
  <2> QED BY <1>e, <2>1 DEF Plain, Executions
<1>7. CASE TurnFails(r)
  <2>1. e.at = "turn" BY <1>7, Zenon DEF TurnFails, At
  <2>2. CASE Set(r, Ended("error")) BY <2>2, PlainEnd
  <2>3. CASE Set(r, [e EXCEPT !.at = "telling", !.turn.refused = TRUE,
                              !.turn.heard = With(@, 0, TRUE)])
    <3>1. review'[r] = [e EXCEPT !.at = "telling", !.turn.refused = TRUE,
                                 !.turn.heard = With(@, 0, TRUE)]
      BY <2>3, Becomes
    <3>2. review'[r].outcome = e.outcome BY <1>e, <3>1 DEF Executions
    <3> QED BY <2>1, <3>2 DEF Plain
  <2>4. ASSUME NEW partial, NEW after,
               Set(r, [e EXCEPT !.at = "telling", !.turn.after = Delay(r, after),
                                !.turn.delivered = @ \/ partial,
                                !.turn.heard = With(@, now + Delay(r, after), FALSE)])
        PROVE  Plain(e, review'[r])
    <3>1. review'[r] = [e EXCEPT !.at = "telling", !.turn.after = Delay(r, after),
                                 !.turn.delivered = @ \/ partial,
                                 !.turn.heard = With(@, now + Delay(r, after), FALSE)]
      BY <2>4, Becomes
    <3>2. review'[r].outcome = e.outcome BY <1>e, <3>1 DEF Executions
    <3> QED BY <2>1, <3>2 DEF Plain
  <2> QED BY <1>7, <2>2, <2>3, <2>4 DEF TurnFails
<1>8. CASE Retry(r)
  <2>1. review'[r] = [e EXCEPT !.at = "gate", !.turn.attempt = @ + 1, !.turn.wake = 0,
                               !.turn.heard = With(told, @.until, @.blocked)]
    BY <1>8, Becomes DEF Retry
  <2> QED BY <1>e, <2>1 DEF Plain, Executions
<1>13. CASE Gate(r)
  <2>1. CASE Set(r, Ended("error")) BY <2>1, PlainEnd
  <2>2. CASE Set(r, [e EXCEPT !.at = "asking"])
    <3>1. review'[r] = [e EXCEPT !.at = "asking"] BY <2>2, Becomes
    <3> QED BY <1>e, <3>1 DEF Plain, Executions
  <2> QED BY <1>13, <2>1, <2>2 DEF Gate
<1>14. CASE Block(r) BY <1>14, PlainEnd DEF Block
<1>15. CASE Defer(r)
  <2> DEFINE wake == now + e.turn.after
  <2>1. CASE Set(r, Ended("error")) BY <2>1, PlainEnd
  <2>2. CASE Set(r, [e EXCEPT !.at = "delay", !.turn.after = 0, !.turn.wake = wake])
    <3>1. review'[r] = [e EXCEPT !.at = "delay", !.turn.after = 0, !.turn.wake = wake]
      BY <2>2, Becomes
    <3> QED BY <1>e, <3>1 DEF Plain, Executions
  <2> QED BY <1>15, <2>1, <2>2 DEF Defer
<1>16. CASE LaneBusy(r) BY <1>16, PlainEnd DEF LaneBusy
<1>9. CASE TurnEnds(r)
  <2> DEFINE received(b) == [e EXCEPT !.tokens = @ + 1, !.turn = NoTurn, !.batch = b,
                                      !.at = IF b = 0 \/ e.repairing THEN "final" ELSE "tools"]
  <2>1. e.at = "turn" BY <1>9 DEF TurnEnds, At
  <2>2. PICK batch \in 0 .. 2 : \/ review'[r] = received(batch)
                                \/ review'[r] = Exceeds(r, received(batch))
    BY <1>9, Becomes DEF TurnEnds
  <2>3. received(batch).outcome = e.outcome BY <1>e DEF Executions
  <2>4. Exceeds(r, received(batch)).outcome = e.outcome BY <1>e DEF Exceeds, Executions
  <2> HIDE DEF received
  <2> QED BY <2>1, <2>2, <2>3, <2>4 DEF Plain
<1>10. CASE BatchEnds(r)
  <2>1. Exceeds(r, e).outcome = e.outcome /\ Exceeds(r, e).at = e.at
    BY <1>e, PlainExceeds
  <2>2. \/ review'[r] = Exceeds(r, e)
        \/ review'[r] = [e EXCEPT !.at = "loop"]
    BY <1>10, Becomes DEF BatchEnds
  <2> QED BY <1>e, <2>1, <2>2 DEF Plain, Executions
<1>11. CASE ReadFinal(r)
  <2>1. CASE Set(r, Ended("error")) BY <2>1, PlainEnd
  <2>2. CASE Set(r, [e EXCEPT !.at = "after"])
    <3>1. review'[r] = [e EXCEPT !.at = "after"] BY <2>2, Becomes
    <3> QED BY <1>e, <3>1 DEF Plain, Executions
  <2>3. CASE Set(r, [e EXCEPT !.at = "loop", !.repairing = TRUE])
    <3>1. review'[r] = [e EXCEPT !.at = "loop", !.repairing = TRUE] BY <2>3, Becomes
    <3> QED BY <1>e, <3>1 DEF Plain, Executions
  <2> QED BY <1>11, <2>1, <2>2, <2>3 DEF ReadFinal
<1>12. CASE \E known \in BOOLEAN : ToolCall(r, known)
  <2> DEFINE called == [e EXCEPT !.batch = @ - 1, !.issued = @ + 1]
             done == [called EXCEPT !.executed = @ + 1, !.stale = @ \/ ~intact]
  <2>1. e.at = "tools" BY <1>12 DEF ToolCall, CallPending, At
  <2>2. review'[r] \in {called, Exceeds(r, called), done}
    BY <1>12, Becomes DEF ToolCall
  <2>3. called.outcome = e.outcome /\ called.at = e.at BY <1>e DEF Executions
  <2>4. done.outcome = e.outcome /\ done.at = e.at BY <1>e DEF Executions
  <2>5. Exceeds(r, called).outcome = e.outcome /\ Exceeds(r, called).at = e.at
    BY <1>e DEF Exceeds, Executions
  <2> HIDE DEF called, done
  <2> QED BY <2>1, <2>2, <2>3, <2>4, <2>5 DEF Plain
<1> QED
  BY <1>1, <1>2, <1>3, <1>4, <1>5, <1>6, <1>7, <1>8, <1>9, <1>10, <1>11, <1>12, <1>13,
     <1>14, <1>15, <1>16
     DEF Step

\* The operator changes neither the place nor the outcome of a review; a step of
\* its own is the boundary's answer, the request, or plain.
LEMMA WhoActs ==
  ASSUME AgentInv, [Next]_vars, NEW r \in Reviews
  PROVE  \/ Finish(r)
         \/ Ask(r)
         \/ Plain(review[r], review'[r])
<1>0. Plain(review[r], review[r]) BY DEF Plain
<1>1. CASE UNCHANGED review BY <1>0, <1>1
<1>2. ASSUME NEW q \in Reviews, Step(q), q # r PROVE review'[r] = review[r]
  <2>1. PICK next : Set(q, next)
    BY <1>2 DEF Step, Start, Finish, Stop, Fail, BeginTurn, Gate, Ask, Deliver, TurnFails,
                Block, Defer, LaneBusy, Retry, TurnEnds, Mismatch, BatchEnds, ReadFinal,
                ToolCall
  <2> QED BY <1>2, <2>1 DEF Set, AgentInv, AgentTypeOK
<1>3. CASE Step(r) BY <1>3, PlainStep
<1>4. CASE Resume
  <2> DEFINE e == review[r]
  <2>1. review'[r] = [e EXCEPT !.turn.heard = NoLane] /\ e \in Executions
    BY <1>4, Here DEF Resume
  <2>2. review'[r].at = e.at /\ review'[r].outcome = e.outcome
    BY <2>1 DEF Executions
  <2> QED BY <2>2 DEF Plain
<1> QED BY <1>0, <1>1, <1>2, <1>3, <1>4 DEF Next, Tick, Change, vars

\* A verdict is recorded only by the boundary after a review, over the baseline.
LEMMA OnlyTheBoundary ==
  ASSUME AgentInv, [Next]_vars, NEW r \in Reviews,
         review'[r].outcome = "verdict", review[r].outcome = "none"
  PROVE  At(r) = "after" /\ intact
<1>1. CASE Finish(r)
  <2>1. CASE intact BY <1>1, <2>1 DEF Finish
  <2>2. CASE ~intact
    <3>1. intact = FALSE BY <2>2, Here DEF AgentInv, AgentTypeOK
    <3>2. Set(r, Ended("stopped")) BY <1>1, <3>1 DEF Finish
    <3>3. Plain(review[r], review'[r]) BY <3>2, PlainEnd
    <3> QED BY <3>3 DEF Plain
  <2> QED BY <2>1, <2>2
<1>2. CASE Ask(r)
  <2>1. review'[r] = [review[r] EXCEPT !.at = "turn", !.turn.heard = NoLane]
    BY <1>2, Becomes DEF Ask
  <2>2. review'[r].outcome = review[r].outcome BY <2>1, Here DEF Executions
  <2> QED BY <2>2
<1> QED BY <1>1, <1>2, WhoActs DEF Plain

\* A turn is asked for only after the look at the lane.
LEMMA OnlyAsking ==
  ASSUME AgentInv, [Next]_vars, NEW r \in Reviews, Asked(r)
  PROVE  At(r) = "asking"
<1>1. CASE Finish(r)
  <2>1. \/ Set(r, Ended("verdict"))
        \/ Set(r, Ended("stopped"))
    BY <1>1 DEF Finish
  <2>2. \/ review'[r] = Ended("verdict")
        \/ review'[r] = Ended("stopped")
    BY <2>1, Becomes
  <2>3. review'[r].at = "done" BY <2>2, EndedSound
  <2> QED BY <2>3 DEF Asked
<1>2. CASE Ask(r) BY <1>2 DEF Ask
<1> QED BY <1>1, <1>2, WhoActs DEF Plain, Asked, At

-----------------------------------------------------------------------------
(* Theorems *)

\* The records of all reviews are sound: stale reads are over, turns that will
\* be asked for are fresh and have respected what they heard, budgets hold, and
\* the lane forgets nothing that was written to it.
THEOREM AgentInvariance == Spec => []AgentInv
<1>1. Init => AgentInv
  <2> SUFFICES ASSUME Init PROVE AgentInv OBVIOUS
  <2>1. \A r \in Reviews : review[r] = Idle /\ Sound(Idle, r, lane)
    BY IdleSound, NothingOf DEF Init
  <2>2. NoLane \in Lanes BY NothingOf
  <2>3. AgentTypeOK BY <2>1, <2>2 DEF Init, AgentTypeOK, Sound
  <2> QED BY <2>1, <2>3 DEF Init, AgentInv
<1>2. AgentInv /\ [Next]_vars => AgentInv' BY AgentInductive
<1> QED BY <1>1, <1>2, PTL DEF Spec

\* A recorded verdict is about the baseline, and of a review within its budgets.
THEOREM VerdictIsEarned == Spec => VerdictEarned
<1>1. ASSUME AgentInv, [Next]_vars, NEW r \in Reviews
      PROVE  /\ review'[r].executed <= MaxToolCalls[r]
             /\ review'[r].outcome = "verdict" /\ review[r].outcome = "none" =>
                  /\ ~review[r].stale
                  /\ review[r].issued <= MaxToolCalls[r] /\ review[r].tokens <= MaxTokens[r]
  <2>1. review'[r].executed <= MaxToolCalls[r]
    <3>1. AgentInv' BY <1>1, AgentInductive
    <3> QED BY <3>1 DEF AgentInv, Sound, BudgetHolds
  <2>2. ASSUME review'[r].outcome = "verdict", review[r].outcome = "none"
        PROVE  /\ ~review[r].stale
               /\ review[r].issued <= MaxToolCalls[r] /\ review[r].tokens <= MaxTokens[r]
    <3>1. At(r) = "after" /\ intact BY <1>1, <2>2, OnlyTheBoundary
    <3>2. review[r] \in Executions /\ Sound(review[r], r, lane)
          /\ MaxToolCalls[r] \in Nat /\ MaxTokens[r] \in Nat
      BY <1>1, Here
    <3> QED BY <3>1, <3>2 DEF At, Sound, StaleIsOver, BudgetHolds, Spent, Executions
  <2> QED BY <2>1, <2>2
<1>2. AgentInv /\ [Next]_vars =>
        [\A r \in Reviews :
           /\ review'[r].executed <= MaxToolCalls[r]
           /\ review'[r].outcome = "verdict" /\ review[r].outcome = "none" =>
                /\ ~review[r].stale
                /\ review[r].issued <= MaxToolCalls[r] /\ review[r].tokens <= MaxTokens[r]]_vars
  BY <1>1
<1> QED BY <1>2, AgentInvariance, PTL DEF Spec, VerdictEarned

\* A turn is asked for again only while nothing of it has arrived.
THEOREM NothingReplayedHolds == Spec => NothingReplayed
<1>1. ASSUME AgentInv, [Next]_vars, NEW r \in Reviews, Asked(r)
      PROVE  ~review[r].turn.delivered /\ review[r].turn.attempt <= MaxAttempts
  <2>1. At(r) = "asking" BY <1>1, OnlyAsking
  <2>2. Sound(review[r], r, lane) BY <1>1, Here
  <2> QED BY <2>1, <2>2 DEF At, Sound, TurnIsFresh
<1>2. AgentInv /\ [Next]_vars =>
        [\A r \in Reviews :
           Asked(r) => ~review[r].turn.delivered /\ review[r].turn.attempt <= MaxAttempts]_vars
  BY <1>1
<1> QED BY <1>2, AgentInvariance, PTL DEF Spec, NothingReplayed

\* A request respects what the account was told before its attempt began, and
\* what its own turn was answered, for any number of reviews, attempts and delays.
THEOREM LaneIsRespected == Spec => LaneRespected
<1>1. ASSUME AgentInv, [Next]_vars, NEW r \in Reviews, Asked(r)
      PROVE  review[r].turn.heard.until <= now /\ ~review[r].turn.heard.blocked
  <2>1. At(r) = "asking" BY <1>1, OnlyAsking
  <2>2. Sound(review[r], r, lane) BY <1>1, Here
  <2> QED BY <2>1, <2>2 DEF At, Sound, LaneRead
<1>2. AgentInv /\ [Next]_vars =>
        [\A r \in Reviews :
           Asked(r) => review[r].turn.heard.until <= now /\ ~review[r].turn.heard.blocked]_vars
  BY <1>1
<1> QED BY <1>2, AgentInvariance, PTL DEF Spec, LaneRespected
=============================================================================
