----------------------------- MODULE AgentReview -----------------------------
(***************************************************************************)
(* The execution of a review by an agent: executeUncached of the broker    *)
(* around invokePi (src/executors/pi.ts), whose provider turns go through  *)
(* recoveringProviderStream and share the lane of their account with the   *)
(* reviews of other processes (provider-coordinator.ts).                   *)
(*                                                                         *)
(* A turn has one provider message: tool calls, or a final answer.  It may *)
(* be asked for again only if nothing of it arrived.  Looking at the lane, *)
(* asking, being answered and writing to the lane what was answered are    *)
(* steps of their own: others write in between, and a write may fail.      *)
(*                                                                         *)
(* A deadline, a budget and the workspace's signal stop the loop wherever  *)
(* it is.  The workspace keeps what InputBoundary promises.                *)
(***************************************************************************)
EXTENDS Integers, FiniteSets, FiniteSetsExt

CONSTANTS
  Reviews,       \* executions that use one lane, each in a process of its own
  MaxToolCalls,  \* budgets of their profiles: tool calls a review may issue
  MaxTokens,     \* and tokens, a message costing one
  MaxAttempts,   \* maxAttempts of a turn
  Timeout,       \* timeoutMs of their profiles
  Horizon        \* bound on the clock

ASSUME ReviewAssumption ==
  /\ MaxToolCalls \in [Reviews -> Nat] /\ MaxTokens \in [Reviews -> Nat]
  /\ Timeout \in [Reviews -> Nat]
  /\ Horizon \in Nat /\ MaxAttempts \in Nat \ {0}

VARIABLES
  now,     \* the clock
  intact,  \* whether the workspace is still the baseline
  lane,    \* the provider_control row: its cooldown and its block
  told,    \* history: all that was written to the row since it was last resumed
  review   \* the executions

lanes == <<lane, told>>
vars == <<now, intact, lane, told, review>>

-----------------------------------------------------------------------------
NoLane == [until |-> 0, blocked |-> FALSE]
NoTurn == [attempt |-> 0, refused |-> FALSE, after |-> 0, wake |-> 0, delivered |-> FALSE,
           heard |-> NoLane]

\* at        where the execution is
\* turn      the provider turn in progress: its attempt, what its answer asks of
\*           the lane (a block, or a cooldown), the end of its retry delay,
\*           whether anything of it has arrived (history, too), and what its next
\*           request has to respect (history only)
\* failure   why the agent loop was aborted, latched
\* stale     history: the agent has read an input that was not the baseline
Idle == [at |-> "queued", deadline |-> 0, turn |-> NoTurn, batch |-> 0,
         issued |-> 0, executed |-> 0, tokens |-> 0,
         repairing |-> FALSE, failure |-> "no", stale |-> FALSE, outcome |-> "none"]

Init ==
  /\ now = 0 /\ intact = TRUE /\ lane = NoLane /\ told = NoLane
  /\ review = [r \in Reviews |-> Idle]

At(r) == review[r].at
Set(r, next) == review' = [review EXCEPT ![r] = next]
Ended(outcome) == [Idle EXCEPT !.at = "done", !.outcome = outcome]

Agent == {"loop", "gate", "asking", "turn", "telling", "delay", "tools", "final"}

\* Writing an answer to the lane looks at no signal: what stops a review is seen
\* after it.
Stoppable == Agent \ {"telling"}

\* checkAbort lets the loop go on.
\* Fault: only the signal stops it.
Live_Untimed(r) == review[r].failure = "no"
Live(r) == review[r].failure = "no" /\ now < review[r].deadline

-----------------------------------------------------------------------------
\* executeUncached: the start marker, the boundary before the execution.
Start(r) ==
  /\ At(r) = "queued" /\ now + Timeout[r] <= Horizon
  /\ Set(r, IF intact THEN [Idle EXCEPT !.at = "loop", !.deadline = now + Timeout[r]]
            ELSE Ended("stopped"))
  /\ UNCHANGED <<now, intact, lanes>>

\* The boundary after it: a baseline that is gone stops the Run, and a boundary
\* that began in time may still be refused.
Finish(r) ==
  /\ At(r) = "after"
  /\ \E accepted \in {intact, FALSE} :
       Set(r, Ended(IF accepted THEN "verdict" ELSE "stopped"))
  /\ UNCHANGED <<now, intact, lanes>>

\* Cancel, or the signal of the workspace.
Stop(r) ==
  /\ At(r) \in Stoppable \cup {"queued", "after"}
  /\ Set(r, Ended("stopped"))
  /\ UNCHANGED <<now, intact, lanes>>

\* The timer of the deadline, and checkAbort at every step of the loop.
Fail(r) ==
  /\ At(r) \in Stoppable /\ ~Live(r)
  /\ Set(r, Ended("error"))
  /\ UNCHANGED <<now, intact, lanes>>

-----------------------------------------------------------------------------
\* A cooldown or a block in addition to others.
With(record, until, blocked) ==
  [until |-> Max({record.until, until}), blocked |-> record.blocked \/ blocked]

\* The agent asks for the next turn.
BeginTurn(r) ==
  /\ At(r) = "loop" /\ Live(r)
  /\ Set(r, [review[r] EXCEPT !.at = "gate",
                             !.turn = [NoTurn EXCEPT !.attempt = 1, !.heard = told]])
  /\ UNCHANGED <<now, intact, lanes>>

\* wait reads the row: nobody passes a block, nor waits for a cooldown beyond the
\* deadline.  A cooldown that ends in time is slept over, and the row read again.
Gate(r) ==
  /\ At(r) = "gate" /\ Live(r)
  /\ \/ lane.blocked /\ Set(r, Ended("error"))
     \/ ~lane.blocked /\ lane.until <= now /\ Set(r, [review[r] EXCEPT !.at = "asking"])
     \/ ~lane.blocked /\ lane.until > now /\ lane.until >= review[r].deadline
        /\ Set(r, Ended("error"))
  /\ UNCHANGED <<now, intact, lanes>>

\* The request goes out, whatever the row says by now.
Ask(r) ==
  /\ At(r) = "asking"
  /\ Set(r, [review[r] EXCEPT !.at = "turn", !.turn.heard = NoLane])
  /\ UNCHANGED <<now, intact, lanes>>

\* Content arrives, the message is not complete.
Deliver(r) ==
  /\ At(r) = "turn" /\ ~review[r].turn.delivered
  /\ Set(r, [review[r] EXCEPT !.turn.delivered = TRUE])
  /\ UNCHANGED <<now, intact, lanes>>

\* retryMs: the answer's Retry-After or a doubling delay.
Delay(r, after) == Max({after, 2 ^ (review[r].turn.attempt - 1)})

\* The turn fails; partial: its error message has content or reports usage.  The
\* refusal of an account (authentication, quota) and a transient failure are to
\* be written to the lane.
TurnFails(r) ==
  /\ At(r) = "turn"
  /\ \/ Set(r, Ended("error"))
     \/ Set(r, [review[r] EXCEPT !.at = "telling", !.turn.refused = TRUE,
                                 !.turn.heard = With(@, 0, TRUE)])
     \/ \E partial \in BOOLEAN, after \in 0 .. 2 :
          Set(r, [review[r] EXCEPT !.at = "telling", !.turn.after = Delay(r, after),
                                   !.turn.delivered = @ \/ partial,
                                   !.turn.heard = With(@, now + Delay(r, after), FALSE)])
  /\ UNCHANGED <<now, intact, lanes>>

\* block: an upsert of its column, and the end of the turn.
Block(r) ==
  /\ At(r) = "telling" /\ review[r].turn.refused
  /\ lane' = [lane EXCEPT !.blocked = TRUE]
  /\ told' = With(told, 0, TRUE)
  /\ Set(r, Ended("error"))
  /\ UNCHANGED <<now, intact>>

\* Fault: what has been delivered is not looked at.
Retryable_Delivered(r) == review[r].turn.attempt < MaxAttempts
Retryable(r) == ~review[r].turn.delivered /\ review[r].turn.attempt < MaxAttempts

\* defer: an upsert of its column, from the time of the write; the turn is
\* retried after the delay, or is over.
Defer(r) ==
  /\ At(r) = "telling" /\ ~review[r].turn.refused
  /\ LET wake == now + review[r].turn.after
     IN  /\ lane' = [lane EXCEPT !.until = Max({@, wake})]
         /\ told' = With(told, wake, FALSE)
         /\ Set(r, IF Retryable(r) /\ wake < review[r].deadline
                   THEN [review[r] EXCEPT !.at = "delay", !.turn.after = 0, !.turn.wake = wake]
                   ELSE Ended("error"))
  /\ UNCHANGED <<now, intact>>

\* The row stays locked for longer than retry tries: what was to be written is
\* not, and the turn fails.
LaneBusy(r) ==
  /\ At(r) \in {"gate", "telling"}
  /\ Set(r, Ended("error"))
  /\ UNCHANGED <<now, intact, lanes>>

\* Fault: the row is looked at before the first attempt only.
Retry_Unlooked(r) ==
  /\ At(r) = "delay" /\ Live(r) /\ now >= review[r].turn.wake
  /\ Set(r, [review[r] EXCEPT !.at = "asking", !.turn.attempt = @ + 1, !.turn.wake = 0,
                             !.turn.heard = With(told, @.until, @.blocked)])
  /\ UNCHANGED <<now, intact, lanes>>

\* The next attempt begins, and looks at the row again.
Retry(r) ==
  /\ At(r) = "delay" /\ Live(r) /\ now >= review[r].turn.wake
  /\ Set(r, [review[r] EXCEPT !.at = "gate", !.turn.attempt = @ + 1, !.turn.wake = 0,
                             !.turn.heard = With(told, @.until, @.blocked)])
  /\ UNCHANGED <<now, intact, lanes>>

\* exceedBudget does not replace the error of a review that has expired.
Exceeds(r, next) == [next EXCEPT !.failure = IF Live(r) THEN "budget" ELSE @]

\* The message is complete: a final answer, or a batch of tool calls, for which
\* the repair turn has no tools.
TurnEnds(r) ==
  /\ At(r) = "turn"
  /\ \E batch \in 0 .. 2 :
       LET received == [review[r] EXCEPT !.tokens = @ + 1, !.turn = NoTurn, !.batch = batch,
                                         !.at = IF batch = 0 \/ review[r].repairing
                                                THEN "final" ELSE "tools"]
       IN  Set(r, IF received.tokens > MaxTokens[r] THEN Exceeds(r, received) ELSE received)
  /\ UNCHANGED <<now, intact, lanes>>

\* The response names another provider or model.
Mismatch(r) ==
  /\ At(r) = "turn"
  /\ Set(r, Ended("error"))
  /\ UNCHANGED <<now, intact, lanes>>

CallPending(r) == At(r) = "tools" /\ review[r].batch > 0

\* One call of the batch: announced, and executed if its name and arguments are
\* those of a tool and the budget has room.  Tools read the workspace.
ToolCall(r, known) ==
  /\ CallPending(r) /\ Live(r)
  /\ LET called == [review[r] EXCEPT !.batch = @ - 1, !.issued = @ + 1]
     IN  Set(r, IF ~known THEN called
                ELSE IF called.issued > MaxToolCalls[r] THEN Exceeds(r, called)
                ELSE [called EXCEPT !.executed = @ + 1, !.stale = @ \/ ~intact])
  /\ UNCHANGED <<now, intact, lanes>>

\* finishTurn: calls over the budget that reached no tool end the review here.
\* Fault: the budget is looked at only where a tool is executed.
BatchEnds_Blind(r) ==
  /\ At(r) = "tools" /\ review[r].batch = 0 /\ Live(r)
  /\ Set(r, [review[r] EXCEPT !.at = "loop"])
  /\ UNCHANGED <<now, intact, lanes>>

BatchEnds(r) ==
  /\ At(r) = "tools" /\ review[r].batch = 0 /\ Live(r)
  /\ Set(r, IF review[r].issued > MaxToolCalls[r] THEN Exceeds(r, review[r])
            ELSE [review[r] EXCEPT !.at = "loop"])
  /\ UNCHANGED <<now, intact, lanes>>

\* readFinal: the answer fits the schema and the owner's check, or is repaired
\* once without tools.
ReadFinal(r) ==
  /\ At(r) = "final" /\ Live(r)
  /\ \/ review[r].batch = 0 /\ Set(r, [review[r] EXCEPT !.at = "after"])
     \/ review[r].batch = 0 /\ ~review[r].repairing
        /\ Set(r, [review[r] EXCEPT !.at = "loop", !.repairing = TRUE])
     \/ Set(r, Ended("error"))
  /\ UNCHANGED <<now, intact, lanes>>

-----------------------------------------------------------------------------
Tick == now < Horizon /\ now' = now + 1 /\ UNCHANGED <<intact, lanes, review>>
Change == intact /\ intact' = FALSE /\ UNCHANGED <<now, lanes, review>>
\* resumeProvider deletes the rows of a provider.
Resume ==
  /\ lane # NoLane
  /\ lane' = NoLane /\ told' = NoLane
  /\ review' = [r \in Reviews |-> [review[r] EXCEPT !.turn.heard = NoLane]]
  /\ UNCHANGED <<now, intact>>

Step(r) ==
  \/ Start(r) \/ Finish(r) \/ Stop(r) \/ Fail(r) \/ BeginTurn(r) \/ Gate(r) \/ Ask(r)
  \/ Deliver(r) \/ TurnFails(r) \/ Block(r) \/ Defer(r) \/ LaneBusy(r) \/ Retry(r)
  \/ TurnEnds(r) \/ Mismatch(r) \/ BatchEnds(r) \/ ReadFinal(r)
  \/ \E known \in BOOLEAN : ToolCall(r, known)

Next == Tick \/ Change \/ Resume \/ \E r \in Reviews : Step(r)

\* Time passes, the timer of the deadline fires, boundaries are answered, and a
\* write to the lane is given up after five seconds if it is not done.
Spec ==
  /\ Init /\ [][Next]_vars
  /\ WF_vars(Tick)
  /\ \A r \in Reviews : WF_vars(Fail(r) \/ Finish(r) \/ Block(r) \/ Defer(r))

-----------------------------------------------------------------------------
\* A recorded verdict is about the baseline only, whatever the agent read while
\* the input changed, and of a review that stayed within its budgets: calls of
\* unknown tools count, and none is executed beyond them.
VerdictEarned ==
  [][\A r \in Reviews :
       /\ review'[r].executed <= MaxToolCalls[r]
       /\ review'[r].outcome = "verdict" /\ review[r].outcome = "none" =>
            /\ ~review[r].stale
            /\ review[r].issued <= MaxToolCalls[r] /\ review[r].tokens <= MaxTokens[r]]_vars

Asked(r) == At(r) # "turn" /\ review'[r].at = "turn"

\* "Never replay a completed turn, tools, partial output or reported usage": a
\* turn is asked for again only while nothing of it has arrived, and a bounded
\* number of times.
NothingReplayed ==
  [][\A r \in Reviews :
       Asked(r) => ~review[r].turn.delivered /\ review[r].turn.attempt <= MaxAttempts]_vars

\* A request respects every cooldown and refusal that reviews of the account had
\* written to the lane before this attempt began, and those its own turn was
\* answered, unless the account was resumed since.  One that is written between
\* the look at the row and the request is missed, by this attempt and by no other.
LaneRespected ==
  [][\A r \in Reviews :
       Asked(r) => review[r].turn.heard.until <= now /\ ~review[r].turn.heard.blocked]_vars

\* Every execution ends: its deadline covers hanging turns, retries, cooldowns of
\* others, tools and the repair.
ReviewEnds == \A r \in Reviews : At(r) \in Agent \cup {"after"} ~> At(r) = "done"
=============================================================================
