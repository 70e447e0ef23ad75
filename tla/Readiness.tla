------------------------------ MODULE Readiness ------------------------------
(***************************************************************************)
(* Runs of one store and what they show (src/broker/readiness.ts): which   *)
(* reviews of a Run may start is kept in counters that every transaction   *)
(* moves by what it changed; a Run begins with what the shared cache has,  *)
(* and takes over verdicts of other Runs that it did not ask for.  What a  *)
(* reader is shown is computed anew from the stored evidence, by the       *)
(* query of ProjectQuery.                                                  *)
(*                                                                         *)
(* A store has a book for each Run: b is a book, d a store.  Transactions  *)
(* are operators from stores to stores, of operators from books to books.  *)
(* Abstracted: the Runs have the same input; human reviews behave like     *)
(* executions; a computation of the cache is over once a subscriber has    *)
(* its outcome.  Runs of earlier formats, which could follow the requests  *)
(* of others (coalescing.ts), cannot be executed any more.                 *)
(***************************************************************************)
EXTENDS ProjectQuery

CONSTANTS
  Runs,        \* submissions
  Rel,         \* the relations of the project
  Reusable,    \* artifacts with an identity script
  Asks,        \* [selection, recursive] of each Run
  Forced,      \* Runs submitted with force
  Ungated,     \* Runs submitted with ignoreGates
  Mortal,      \* bound: the Runs whose worker may end
  MaxRetries   \* bound: calls of retryRequest

\* No critic reviews a basis: "Basis Artifact ... cannot own Critics" (config.ts).
ASSUME ReadinessAssumption ==
  /\ Rel \in Relations /\ Reusable \subseteq Artifacts
  /\ Asks \in [Runs -> [recursive : BOOLEAN,
                        selection : [artifacts : SUBSET Artifacts, critics : SUBSET Critics]]]
  /\ None \notin Runs \X Critics
  /\ \A c \in Critics : Target[c] \notin Basis
  /\ Forced \subseteq Runs /\ Ungated \subseteq Runs /\ Mortal \subseteq Runs
  /\ MaxRetries \in Nat

VARIABLES
  store,    \* broker.sqlite, by Run
  entries,  \* the shared cache: the verdict on an artifact, by its identity
  retries,
  plan      \* what each Run is about, as its submission freezes it

vars == <<store, entries, retries, plan>>

-----------------------------------------------------------------------------
Requests == Runs \X Critics  \* the request a Run creates for a critic
Home(q) == q[1]
Of(q) == q[2]

Verdicts == {"GREEN", "RED"}
Open == Waiting \cup {"QUEUED", "RUNNING"}
Final == Verdicts \cup {"ERROR", "INCOMPLETE"}
Red(state) == state \in {"RED", "BLOCKED"}
Bit(b) == IF b THEN 1 ELSE 0

Bucket(state) == CASE state = "QUEUED" -> "queued" [] state = "RUNNING" -> "running"
                   [] state = "ERROR" -> "errors" [] state = "RED" -> "red"
                   [] state = "GREEN" -> "green" [] OTHER -> "missing"
Buckets == {"queued", "running", "errors", "red", "missing", "green"}

\* What a Run was submitted with: project, run_members and gate_edges.
AsSubmitted(k) ==
  LET gates == Once(IF k \in Ungated THEN <<>> ELSE Gates(Rel))
      required == RequiredArtifacts(Rel, Asks[k].selection)
  IN  [required |-> required,
       members  |-> {c \in Critics : Target[c] \in required},
       included |-> IncludedCritics(Rel, Asks[k].selection, Asks[k].recursive),
       forced   |-> IF k \in Forced THEN SelectedCritics(Asks[k].selection) ELSE {},
       gates    |-> gates,
       gating   |-> [c \in Critics |->
                       UNION {gates[n].needs : n \in {n \in DOMAIN gates : c \in gates[n].critics}}]]

Members(k) == plan[k].members
Gating(k, c) == plan[k].gating[c]
Dependents(k, c) == {e \in Members(k) : c \in Gating(k, e)}
Unreviewed(k) == {a \in plan[k].required \ Basis : CriticsOn(a) = {}}

\* run     runs.status              request  requests.status
\* served  cacheDisposition         member   run_members
\* unmet   gate_counts              red      gate_counts
\* counts  run_counts               worker   run_owners and whether the process lives
States == Verdicts \cup Open \cup {"ERROR", "absent", "MISSING"}
Books ==
  [run : Final \cup {"absent", "QUEUED", "RUNNING"}, worker : {"none", "live", "dead"},
   request : [Critics -> States], served : SUBSET Critics,
   member : [Critics -> [state : States, request : {None} \cup Requests,
                         evidence : {None} \cup Requests]],
   unmet : [Critics -> Int], red : [Critics -> Int], counts : [Buckets -> Int]]
Stores == [Runs -> Books]

Nobody == [state |-> "MISSING", request |-> None, evidence |-> None]
NoBook ==
  [run |-> "absent", worker |-> "none",
   request |-> [c \in Critics |-> "absent"], served |-> {},
   member |-> [c \in Critics |-> Nobody],
   unmet |-> [c \in Critics |-> 0], red |-> [c \in Critics |-> 0],
   counts |-> [n \in Buckets |-> 0]]

Init ==
  /\ store = [k \in Runs |-> NoBook]
  /\ entries \in [Reusable -> {None} \cup Verdicts]
  /\ retries = 0
  /\ plan = [k \in Runs |-> AsSubmitted(k)]

\* Functions, applied one after the other.
Folded(steps, x) ==
  LET after[n \in 0..Len(steps)] == IF n = 0 THEN x ELSE steps[n][after[n - 1]]
  IN  after[Len(steps)]

Live(b) == b.run \notin Final \cup {"absent"}
Verdict(d, q) == d[Home(q)].request[Of(q)]
GateState(b, c) == IF b.red[c] > 0 THEN "BLOCKED" ELSE "WAIT_DEPENDENCY"

-----------------------------------------------------------------------------
\* changeCount, for what a member was and for what it is next.
Counted(b, was, next) ==
  [b EXCEPT !.counts = [n \in Buckets |-> @[n] - Bit(Bucket(was) = n) + Bit(Bucket(next) = n)]]

StateSet(b, c, state) ==
  [Counted(b, b.member[c].state, state) EXCEPT !.member[c].state = state]

\* updateRun.
RunStatus(counts) ==
  IF counts["running"] > 0 THEN "RUNNING" ELSE IF counts["queued"] > 0 THEN "QUEUED"
  ELSE IF counts["errors"] > 0 THEN "ERROR" ELSE IF counts["red"] > 0 THEN "RED"
  ELSE IF counts["missing"] > 0 THEN "INCOMPLETE" ELSE "GREEN"
RunUpdated(b) == IF Live(b) THEN [b EXCEPT !.run = RunStatus(b.counts)] ELSE b

\* Fault: a cached verdict shows whatever the gates of the Run are.
Effective_Bare(b, k, c, q, status) ==
  IF Home(q) # k /\ b.unmet[c] > 0 THEN GateState(b, c) ELSE status

\* effectiveState: what a Run did not execute itself shows only if its own gates let it.
Effective(b, k, c, q, status) ==
  IF (Home(q) # k \/ c \in b.served) /\ b.unmet[c] > 0 THEN GateState(b, c) ELSE status

\* setMember: the member shows its request.
SetMember(b, k, c) ==
  LET q == <<k, c>>
  IN  [StateSet(b, c, Effective(b, k, c, q, b.request[c])) EXCEPT
         !.member[c] = [state |-> @.state, request |-> q,
                        evidence |-> IF b.request[c] \in Verdicts THEN q ELSE None]]

\* createRequest.
Created(b, c) ==
  [b EXCEPT !.request[c] = IF b.unmet[c] > 0 THEN GateState(b, c) ELSE "QUEUED"]

\* Fault: the member is moved and its request is not.
GateMember_Alone(b, k, c, state) == StateSet(b, c, state)

\* gateMember: a request that has no result follows the gates of its member.
GateMember(b, k, c, state) ==
  LET own == b.member[c].request = <<k, c>> /\ b.request[c] \notin Verdicts
  IN  [StateSet(b, c, state) EXCEPT !.request[c] = IF own THEN state ELSE @]

\* What one dependent makes of its new counters.
Regated(d, k, b, c) ==
  LET member == b.member[c]
      state == GateState(b, c)
  IN  IF member.state \notin Waiting \/ (b.unmet[c] > 0 /\ member.state = state) THEN b
      ELSE IF b.unmet[c] > 0 THEN GateMember(b, k, c, state)
      ELSE IF member.evidence # None THEN GateMember(b, k, c, Verdict(d, member.evidence))
      ELSE IF member.request # None THEN GateMember(b, k, c, "QUEUED")
      ELSE IF c \in plan[k].included THEN SetMember(Once(Created(b, c)), k, c) ELSE b

\* The dependent e of a member that went from was to next is told, and tells its own
\* dependents, except when it goes to the queue: those see no difference in unmet.
Told(tell, d, k, b, e, was, next) ==
  LET moved == Once([b EXCEPT !.unmet[e] = @ + Bit(next # "GREEN") - Bit(was # "GREEN"),
                              !.red[e] = @ + Bit(Red(next)) - Bit(Red(was))])
      after == Once(Regated(d, k, moved, e))
  IN  IF after.member[e].state \in {b.member[e].state, "QUEUED"} THEN after
      ELSE tell[<<after, e, b.member[e].state, after.member[e].state>>]

\* propagate: the counters of the dependents move by what has changed.  Those are behind a
\* later gate, so that no cascade is longer than there are gates.
AllTold(tell, d, k, b, c, was, next) ==
  LET order == SetToSeq(Dependents(k, c))
  IN  Folded([n \in DOMAIN order |-> [x \in Books |-> Told(tell, d, k, x, order[n], was, next)]], b)
Propagated(d, k, b, c, was, next) ==
  LET tell[n \in Nat] ==
        [x \in Books \X Critics \X States \X States |->
           IF n = 0 THEN x[1] ELSE AllTold(tell[n - 1], d, k, x[1], x[2], x[3], x[4])]
  IN  tell[Len(plan[k].gates)][<<b, c, was, next>>]

\* Propagated if from b to after the state of the member changed.
Moved(d, k, b, after, c) ==
  IF b.member[c].state = after.member[c].state THEN after
  ELSE Propagated(d, k, after, c, b.member[c].state, after.member[c].state)

\* Fault: the dependents are not told of a verdict the Run did not ask for.
Import_Silent(d, k, b, c, q) ==
  [StateSet(b, c, Effective(b, k, c, q, Verdict(d, q))) EXCEPT !.member[c].evidence = q]

\* A verdict that a member without a request takes over.
Import(d, k, b, c, q) ==
  LET state == Effective(b, k, c, q, Verdict(d, q))
  IN  Moved(d, k, b, Once([StateSet(b, c, state) EXCEPT !.member[c].evidence = q]), c)

\* transition: the member of a request, then those of other Runs that miss its verdict.
Transition(d, q) ==
  LET k == Home(q)
      c == Of(q)
      missing == IF Verdict(d, q) \notin Verdicts \/ Target[c] \notin Reusable THEN {}
                 ELSE {j \in Runs \ {k} : Live(d[j]) /\ c \in Members(j) /\ d[j].member[c].request = None}
      Changed(j) == IF j = k THEN Moved(d, k, d[k], Once(SetMember(d[k], k, c)), c)
                    ELSE IF j \in missing THEN Import(d, j, d[j], c, q) ELSE d[j]
  IN  [j \in Runs |-> LET b == Once(Changed(j))
                      IN  IF j = k \/ (j \in missing /\ b.worker # "none") THEN RunUpdated(b) ELSE b]

\* saveHeader.
Saved(d, q, status) == Transition(Once([d EXCEPT ![Home(q)].request[Of(q)] = status]), q)

\* failWithin.
Failed(d, k) ==
  LET order == SetToSeq(Critics)
      End(x, c) == IF x[k].request[c] \in Open THEN Saved(x, <<k, c>>, "ERROR") ELSE x
  IN  IF ~Live(d[k]) THEN d
      ELSE Folded([n \in DOMAIN order |-> [x \in Stores |-> End(x, order[n])]],
                  [d EXCEPT ![k].run = "ERROR"])

-----------------------------------------------------------------------------
\* initialize: the cached verdicts, the gates in the order of the dependencies, receipts
\* for what is cached and requests for the rest of what is included.
Cached(k, c) ==
  IF Target[c] \notin Reusable \/ c \in plan[k].forced THEN None ELSE entries[Target[c]]

GateInitially(states, gate) ==
  LET needs == gate.needs \cap DOMAIN states
  IN  [c \in DOMAIN states |->
         IF c \notin gate.critics \/ {states[d] : d \in needs} \subseteq {"GREEN"} THEN states[c]
         ELSE IF \E d \in needs : Red(states[d]) THEN "BLOCKED" ELSE "WAIT_DEPENDENCY"]

\* The states that members begin with.
Given(k) ==
  LET gates == plan[k].gates
  IN  Folded([n \in DOMAIN gates |->
                [states \in [Members(k) -> States] |-> GateInitially(states, gates[n])]],
             [c \in Members(k) |-> IF Cached(k, c) = None THEN "MISSING" ELSE Cached(k, c)])

\* run_members, gate_counts and run_counts as they are inserted.
Inserted(b, k, states) ==
  LET needs(c) == Gating(k, c) \cap Members(k)
  IN  [b EXCEPT
         !.run = "QUEUED",
         !.member = [c \in Critics |->
            IF c \in Members(k) THEN [Nobody EXCEPT !.state = states[c]] ELSE Nobody],
         !.unmet = [c \in Critics |->
            IF c \in Members(k) THEN Cardinality({e \in needs(c) : states[e] # "GREEN"}) ELSE 0],
         !.red = [c \in Critics |->
            IF c \in Members(k) THEN Cardinality({e \in needs(c) : Red(states[e])}) ELSE 0],
         !.counts = [n \in Buckets |->
            Cardinality({c \in Members(k) : Bucket(states[c]) = n})
            + IF n = "missing" THEN Cardinality(Unreviewed(k)) ELSE 0]]

\* A receipt of what is cached, or a request for what is included.
Entered(b, k, c) ==
  IF Cached(k, c) # None
  THEN SetMember([b EXCEPT !.request[c] = Cached(k, c), !.served = @ \cup {c}], k, c)
  ELSE IF c \in plan[k].included THEN SetMember(Once(Created(b, c)), k, c) ELSE b

Initialized(d, k) ==
  LET order == SetToSeq(Members(k))
  IN  [d EXCEPT ![k] = RunUpdated(Once(
        Folded([n \in DOMAIN order |-> [b \in Books |-> Entered(b, k, order[n])]],
               Inserted(d[k], k, Once(Given(k))))))]

Commit(d) == \E e \in {d} \ {store} : store' = e /\ UNCHANGED plan

Submit(k) ==
  /\ store[k].run = "absent"
  /\ Commit(Initialized(store, k))
  /\ UNCHANGED <<entries, retries>>

Claim(k) ==
  /\ Live(store[k]) /\ store[k].worker = "none"
  /\ Commit([store EXCEPT ![k].worker = "live"])
  /\ UNCHANGED <<entries, retries>>

Serves(k) == store[k].worker = "live" /\ Live(store[k])

Begin(k, c) ==
  /\ Serves(k) /\ store[k].request[c] = "QUEUED"
  /\ Commit(Saved(store, <<k, c>>, "RUNNING"))
  /\ UNCHANGED <<entries, retries>>

\* The verdict of a forced review, or of one without an identity, is the Run's alone.
Shares(k, c) == Target[c] \in Reusable /\ c \notin plan[k].forced

\* onState: a computation of the cache serves the request.
Subscribe(k, c) ==
  /\ Serves(k) /\ store[k].request[c] = "RUNNING" /\ Shares(k, c)
  /\ Commit(Saved([store EXCEPT ![k].served = @ \cup {c}], <<k, c>>, "RUNNING"))
  /\ UNCHANGED <<entries, retries>>

\* The cache has an entry by now, or publishes one.
Receive(k, c) ==
  /\ Serves(k) /\ store[k].request[c] = "RUNNING" /\ Shares(k, c)
  /\ \E verdict \in IF entries[Target[c]] = None THEN Verdicts ELSE {entries[Target[c]]} :
       /\ entries' = [entries EXCEPT ![Target[c]] = verdict]
       /\ Commit(Saved([store EXCEPT ![k].served = @ \cup {c}], <<k, c>>, verdict))
  /\ UNCHANGED retries

Finish(k, c) ==
  /\ Serves(k) /\ store[k].request[c] = "RUNNING" /\ ~Shares(k, c)
  /\ \E verdict \in Verdicts : Commit(Saved(store, <<k, c>>, verdict))
  /\ UNCHANGED <<entries, retries>>

Fail(k, c) ==
  /\ Serves(k) /\ store[k].request[c] = "RUNNING"
  /\ Commit(Saved(store, <<k, c>>, "ERROR"))
  /\ UNCHANGED <<entries, retries>>

Settle(k) ==
  /\ store[k].worker = "live" /\ ~Live(store[k])
  /\ Commit([store EXCEPT ![k].worker = "none"])
  /\ UNCHANGED <<entries, retries>>

Exit(k) ==
  /\ k \in Mortal /\ store[k].worker = "live"
  /\ Commit([store EXCEPT ![k].worker = "dead"])
  /\ UNCHANGED <<entries, retries>>

\* Who looks at a Run whose worker ended fails it.
Reconcile(k) ==
  /\ store[k].worker = "dead"
  /\ Commit([Failed(store, k) EXCEPT ![k].worker = "none"])
  /\ UNCHANGED <<entries, retries>>

Cancel(k) == Live(store[k]) /\ Commit(Failed(store, k)) /\ UNCHANGED <<entries, retries>>

Retry(k, c) ==
  /\ retries < MaxRetries /\ retries' = retries + 1
  /\ store[k].request[c] = "ERROR" /\ store[k].worker = "none"
  /\ Commit(Saved([store EXCEPT ![k].run = "QUEUED", ![k].served = @ \ {c}], <<k, c>>,
                  IF store[k].unmet[c] > 0 THEN GateState(store[k], c) ELSE "QUEUED"))
  /\ UNCHANGED entries

Next ==
  \E k \in Runs :
    \/ Submit(k) \/ Claim(k) \/ Settle(k) \/ Exit(k) \/ Reconcile(k) \/ Cancel(k)
    \/ \E c \in Critics : \/ Begin(k, c) \/ Subscribe(k, c) \/ Receive(k, c)
                          \/ Finish(k, c) \/ Fail(k, c) \/ Retry(k, c)

\* The loop of a live worker goes on and its executions end.
Spec ==
  /\ Init /\ [][Next]_vars
  /\ \A k \in Runs :
       WF_vars(\E c \in Critics : Begin(k, c) \/ Receive(k, c) \/ Finish(k, c) \/ Fail(k, c))

-----------------------------------------------------------------------------
\* readRun: the plan over what is stored, its evidence in the order of the requests.
Stored(k) ==
  LET b == store[k]
      rows == SetToSeq({b.member[c].evidence : c \in Members(k)} \ {None})
      Row(q) == [critic |-> Of(q), identity |-> Target[Of(q)], verdict |-> Verdict(store, q),
                 own |-> Home(q) = k, lookup |-> FALSE]
  IN  Query([gates |-> plan[k].gates, rel |-> Rel, required |-> plan[k].required,
             identity |-> [c \in Critics |-> IF Target[c] \in Reusable THEN Target[c] ELSE None],
             history |-> [n \in DOMAIN rows |-> Row(rows[n])],
             attempt |-> [c \in Critics |-> IF b.request[c] = "absent" THEN None ELSE b.request[c]],
             forced |-> plan[k].forced])

Submitted == {k \in Runs : store[k].run # "absent"}
Imports(k) == {c \in Members(k) : store[k].member[c].evidence \notin {None, <<k, c>>}}

\* The counters that move by differences are what the members say, but for red, which may
\* be too high: a member that goes from BLOCKED to its queue, because a verdict it depends
\* on was imported again, tells nobody.
CountersExact ==
  \A k \in Submitted :
    LET b == store[k]
    IN  /\ \A c \in Members(k) :
             /\ b.unmet[c] = Cardinality({e \in Gating(k, c) : b.member[e].state # "GREEN"})
             /\ b.red[c] >= Cardinality({e \in Gating(k, c) : Red(b.member[e].state)})
        /\ \A n \in Buckets :
             b.counts[n] = Cardinality({c \in Members(k) : Bucket(b.member[c].state) = n})
                           + IF n = "missing" THEN Cardinality(Unreviewed(k)) ELSE 0

\* The assertion at the end of the loop, "Run has no executable request or pending
\* Human review": a served Run that its counters leave undecided has something to do.
AlwaysWork ==
  \A k \in Runs : Serves(k) => \E c \in Critics : store[k].request[c] \in {"QUEUED", "RUNNING"}

\* The two ways to the same answer agree: the states that the transactions keep, and the
\* query over the stored evidence that a reader makes of it.
ViewAgrees ==
  \A k \in Submitted : Imports(k) = {} =>
    LET view == Once(Stored(k))
    IN  /\ \A c \in Members(k) : view.status[c] = "PASS" <=> store[k].member[c].state = "GREEN"
        /\ view.satisfied <=> RunStatus(store[k].counts) = "GREEN"

\* A Run that is GREEN is shown as satisfied: "Final validation needs matching PASS
\* evidence for all required Critics and dependencies" (README.md).
GreenIsSatisfied == \A k \in Runs : store[k].run = "GREEN" => Stored(k).satisfied

\* A Run that is served gets to its end, whatever its critics wait for.
RunsSettle == \A k \in Runs : Serves(k) ~> ~Serves(k)
=============================================================================
