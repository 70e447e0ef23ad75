---------------------------- MODULE ProjectQuery ----------------------------
(***************************************************************************)
(* What a project's reviews amount to (src/project/query.ts, gates.ts,     *)
(* src/broker/graph.ts, src/artifacts/scope.ts): the closure of a          *)
(* selection, the gates between critics, the evidence that counts for      *)
(* each, and the plan that is derived from them.  Pure operators; the      *)
(* modules Planning and Readiness say when they are evaluated and on what. *)
(*                                                                         *)
(* Abstracted: names are numbers, so that sorting is the order of numbers; *)
(* titles, reasons and hashes are left out; time is a place in a history.  *)
(***************************************************************************)
EXTENDS Integers, FiniteSets, SequencesExt

CONSTANTS
  Artifacts,      \* in the order of their names
  Critics,
  Target,         \* the artifact a critic reviews
  Basis,          \* artifacts that need no review
  None,
  Relations,      \* what the artifacts may refer to: sets of <<target, source>>
  Components(_)   \* stronglyConnectedComponents of a relation

ASSUME QueryAssumption ==
  /\ Artifacts \subseteq Nat /\ IsFiniteSet(Artifacts) /\ Basis \subseteq Artifacts
  /\ IsFiniteSet(Critics) /\ Target \in [Critics -> Artifacts]
  /\ Relations \subseteq SUBSET (Artifacts \X Artifacts)

\* v itself, which TLC evaluates once and not wherever it is used.
Once(v) == CHOOSE x \in {v} : TRUE

-----------------------------------------------------------------------------
Closed(rel, S) == \A e \in rel : e[1] \in S => e[2] \in S

\* dependencyClosure: the least set with the roots that refers to nothing outside.
Closure(rel, roots) ==
  {a \in Artifacts : \A S \in SUBSET Artifacts : roots \subseteq S /\ Closed(rel, S) => a \in S}

\* Those in a cycle with a, and a.
Cycle(rel, a) == {b \in Closure(rel, {a}) : a \in Closure(rel, {b})}

\* What Tarjan's search makes of a relation: every artifact is in a component, those of a
\* component are the ones in a cycle with each other, and none refers to a later one.
Condensed(rel, components) ==
  /\ components \in Seq(SUBSET Artifacts)
  /\ Artifacts \subseteq UNION Range(components)
  /\ \A m, n \in DOMAIN components : \A a \in components[m] :
       /\ components[m] = Cycle(rel, a)
       /\ a \in components[n] => m = n
       /\ (\E b \in components[n] : <<a, b>> \in rel) => n <= m

ASSUME ComponentsAssumption == \A rel \in Relations : Condensed(rel, Components(rel))

\* Fault: a component waits for itself.
GatesBetween_Raw(components, rel) ==
  LET Of(a) == CHOOSE n \in DOMAIN components : a \in components[n]
      In(n) == {c \in Critics : Of(Target[c]) = n}
      Needs(n) == {Of(e[2]) : e \in {e \in rel : Of(e[1]) = n}}
  IN  [n \in DOMAIN components |->
         [critics |-> In(n),
          needs |-> {c \in UNION {In(m) : m \in Needs(n)} : Target[c] \notin Basis}]]

\* criticGates: the direct edges between components, dependencies first.  Who reviews a
\* basis nevertheless gates nobody.
GatesBetween(components, rel) ==
  LET Of(a) == CHOOSE n \in DOMAIN components : a \in components[n]
      In(n) == {c \in Critics : Of(Target[c]) = n}
      Needs(n) == {Of(e[2]) : e \in {e \in rel : Of(e[1]) = n}} \ {n}
  IN  [n \in DOMAIN components |->
         [critics |-> In(n),
          needs |-> {c \in UNION {In(m) : m \in Needs(n)} : Target[c] \notin Basis}]]
Gates(rel) == GatesBetween(Components(rel), rel)

-----------------------------------------------------------------------------
\* A selection is a record of artifacts or of critics, or of neither: everything.
Everything == [artifacts |-> {}, critics |-> {}]

\* selectedCritics, requiredArtifacts and includedCritics.
SelectedCritics(selection) ==
  IF selection = Everything THEN Critics
  ELSE selection.critics \cup {c \in Critics : Target[c] \in selection.artifacts}

RequiredArtifacts(rel, selection) ==
  Closure(rel, IF selection = Everything THEN Artifacts
               ELSE selection.artifacts \cup {Target[c] : c \in selection.critics})

IncludedCritics(rel, selection, recursive) ==
  IF ~recursive /\ selection # Everything THEN SelectedCritics(selection)
  ELSE {c \in Critics : Target[c] \in RequiredArtifacts(rel, selection)}

-----------------------------------------------------------------------------
\* The input of queryProject:
\*   gates      criticGates of the configuration, or <<>> under ignoreGates
\*   rel        its relations                 required   requiredArtifacts
\*   identity   the owner identity of each critic's target, or None
\*   history    evidence, the earliest first: [critic, identity, verdict, own, lookup],
\*              own if it is of this Run, lookup if it comes from the cache
\*   attempt    the status of the Run's request for a critic, or None
\*   forced     critics to be reviewed whatever the cache has
Attempting == {"QUEUED", "RUNNING", "WAITING_HUMAN", "WAIT_DEPENDENCY", "BLOCKED"}

\* None is no status, no verdict and no identity (an artifact, with its version).
ASSUME NoneAssumption ==
  /\ None \notin Attempting \cup {"ERROR", "GREEN", "RED"}
  /\ None \notin Artifacts /\ None \notin Artifacts \X Nat

\* The verdict of the last of the given places of a history.
Latest(history, places) == IF places = {} THEN None ELSE history[Max(places)].verdict

\* The Run's own evidence comes first, then what the cache has for the identity.
Evidence(q, c) ==
  LET Places(own) == {n \in DOMAIN q.history :
        IF own THEN q.history[n].own /\ q.history[n].critic = c
        ELSE q.history[n].lookup /\ q.history[n].identity = q.identity[c]}
      found == Latest(q.history, Places(TRUE))
  IN  IF found # None \/ q.identity[c] = None \/ c \in q.forced THEN found
      ELSE Latest(q.history, Places(FALSE))

\* The status of a critic by itself.
OwnStatus(q, c) ==
  LET found == Evidence(q, c)
  IN  IF q.attempt[c] \in Attempting \cup {"ERROR"} THEN q.attempt[c]
      ELSE IF found = "GREEN" THEN "PASS"
      ELSE IF found = "RED" THEN "RED"
      ELSE IF \/ c \in q.forced \/ q.identity[c] = None
              \/ \E n \in DOMAIN q.history : q.history[n].critic = c
           THEN "STALE" ELSE "UNREVIEWED"

\* Fault: only a RED verdict blocks, not who is blocked by one.
Gated_Direct(status, gate) ==
  LET unmet == {status[d] : d \in gate.needs} \ {"PASS"}
  IN  IF unmet = {} THEN status
      ELSE LET held == IF "RED" \in unmet THEN "BLOCKED" ELSE "WAIT_DEPENDENCY"
           IN  Once([c \in Critics |-> IF c \in gate.critics THEN held ELSE status[c]])

\* What the critics behind one gate show.
Gated(status, gate) ==
  LET unmet == {status[d] : d \in gate.needs} \ {"PASS"}
  IN  IF unmet = {} THEN status
      ELSE LET held == IF unmet \cap {"RED", "BLOCKED"} # {} THEN "BLOCKED" ELSE "WAIT_DEPENDENCY"
           IN  Once([c \in Critics |-> IF c \in gate.critics THEN held ELSE status[c]])

\* One pass over the gates: a gated critic gates those behind it.
Passed(own, gates) ==
  LET after[n \in 0..Len(gates)] == IF n = 0 THEN own ELSE Gated(after[n - 1], gates[n])
  IN  after[Len(gates)]

CriticsOn(a) == {c \in Critics : Target[c] = a}
Waiting == {"WAIT_DEPENDENCY", "BLOCKED"}

\* Fault: an artifact that nobody reviews is as good as one that passed.
Satisfied_Vacuous(status, required) ==
  \A a \in required : \A c \in CriticsOn(a) : status[c] = "PASS"

\* ownSatisfied, for all that is required.
Satisfied(status, required) ==
  \A a \in required : \/ a \in Basis
                      \/ CriticsOn(a) # {} /\ \A c \in CriticsOn(a) : status[c] = "PASS"

\* queryProject.  The result of a gated critic is not shown, nor is it executed.
Query(q) ==
  LET own == Once([c \in Critics |-> OwnStatus(q, c)])
      status == Once(Passed(own, q.gates))
      held == {c \in Critics : \E n \in DOMAIN q.gates :
                 c \in q.gates[n].critics /\ status[c] \in Waiting
                 /\ \E d \in q.gates[n].needs : status[d] # "PASS"}
  IN  [status     |-> status,
       result     |-> [c \in Critics |-> IF c \in held THEN None ELSE Evidence(q, c)],
       canExecute |-> {c \in Critics \ held : Evidence(q, c) = None /\ q.attempt[c] = None},
       satisfied  |-> Satisfied(status, q.required)]

\* planProject: what is to be done about each included critic.  shared has the
\* identities of which a computation is under way.
Action(q, view, shared, c) ==
  IF view.status[c] \in Waiting THEN view.status[c]
  ELSE IF view.result[c] # None THEN "REUSE"
  ELSE IF view.status[c] \in Attempting THEN "ACTIVE"
  ELSE IF c \in view.canExecute
       THEN IF c \notin q.forced /\ q.identity[c] \in shared THEN "COALESCE" ELSE "EXECUTE"
  ELSE IF q.attempt[c] # None THEN "FAILED" ELSE "WAIT"

Plan(q, shared, included) ==
  LET view == Once(Query(q)) IN [c \in included |-> Action(q, view, shared, c)]
=============================================================================
