------------------------------ MODULE Planning ------------------------------
(***************************************************************************)
(* The loop of a requester: inspect a project, execute what the plan says, *)
(* inspect again (src/project/index.ts, store.ts, cache-evidence.ts).  It  *)
(* asks what ProjectQuery computes on every graph of a few artifacts, with *)
(* the evidence of the shared cache as it comes and goes, while the        *)
(* reviewed material is edited.                                            *)
(*                                                                         *)
(* Abstracted: a snapshot is taken at once (WorkspaceObserver and          *)
(* InputBoundary are about what it is a snapshot of); an edit is never     *)
(* undone; a computation is the one SharedExecution models.                *)
(***************************************************************************)
EXTENDS ProjectQuery

CONSTANTS
  Selections,
  MaxEdits,    \* bound: edits of the material
  MaxLosses    \* bound: computations that fail, and entries that are evicted

ASSUME PlanningAssumption ==
  /\ Selections \subseteq [artifacts : SUBSET Artifacts, critics : SUBSET Critics]
  /\ MaxEdits \in Nat /\ MaxLosses \in Nat

VARIABLES
  asked,    \* the relations, the selection and what follows from them: fixed
  version,  \* of the material of each artifact, as its identity script tells
  entries,  \* the verdicts of the cache, by identity
  active,   \* the identities of which a computation is under way
  losses

vars == <<asked, version, entries, active, losses>>

-----------------------------------------------------------------------------
Identity(c) == <<Target[c], version[Target[c]]>>
Asked(rel, selection) ==
  [rel |-> rel, gates |-> Gates(rel), required |-> RequiredArtifacts(rel, selection),
   included |-> IncludedCritics(rel, selection, TRUE)]

\* cacheEvidence: what the cache has for the inputs of a snapshot.
CacheEvidence ==
  LET known == SetToSeq({c \in Critics : Identity(c) \in DOMAIN entries})
      Row(c) == [critic |-> c, identity |-> Identity(c), verdict |-> entries[Identity(c)],
                 own |-> FALSE, lookup |-> TRUE]
  IN  [n \in DOMAIN known |-> Row(known[n])]

\* currentProjectPlan: there is no Run yet, so no attempts.
Current == Once(
  [gates |-> asked.gates, required |-> asked.required,
   identity |-> [c \in Critics |-> Identity(c)], history |-> CacheEvidence,
   attempt |-> [c \in Critics |-> None], forced |-> {}])
CurrentPlan == Plan(Current, active, asked.included)

-----------------------------------------------------------------------------
Init ==
  /\ \E rel \in Relations, selection \in Selections : asked = Asked(rel, selection)
  /\ version = [a \in Artifacts |-> 0]
  /\ entries = <<>> /\ active = {} /\ losses = 0

\* A review is submitted as the plan says, and a computation of its identity begins; the
\* Run in between is Readiness.
Execute(c) ==
  /\ LET plan == Once(CurrentPlan) IN c \in DOMAIN plan /\ plan[c] = "EXECUTE"
  /\ active' = active \cup {Identity(c)}
  /\ UNCHANGED <<asked, version, entries, losses>>

\* Its verdict is published.
Publish(id) ==
  /\ id \in active /\ active' = active \ {id}
  /\ \E verdict \in {"GREEN", "RED"} :
       entries' = [i \in DOMAIN entries \cup {id} |-> IF i \in DOMAIN entries THEN entries[i] ELSE verdict]
  /\ UNCHANGED <<asked, version, losses>>

\* It ends without one.
Fail(id) ==
  /\ losses < MaxLosses /\ losses' = losses + 1
  /\ id \in active /\ active' = active \ {id}
  /\ UNCHANGED <<asked, version, entries>>

\* The store is full.
Evict(id) ==
  /\ losses < MaxLosses /\ losses' = losses + 1
  /\ id \in DOMAIN entries /\ entries' = [i \in DOMAIN entries \ {id} |-> entries[i]]
  /\ UNCHANGED <<asked, version, active>>

Edits == FoldSet(LAMBDA a, n : n + version[a], 0, Artifacts)
Edit(a) ==
  /\ Edits < MaxEdits /\ CriticsOn(a) # {}
  /\ version' = [version EXCEPT ![a] = @ + 1]
  /\ UNCHANGED <<asked, entries, active, losses>>

Next ==
  \/ \E c \in Critics : Execute(c)
  \/ \E id \in active : Publish(id) \/ Fail(id)
  \/ \E id \in DOMAIN entries : Evict(id)
  \/ \E a \in Artifacts : Edit(a)

Spec == Init /\ [][Next]_vars

-----------------------------------------------------------------------------
\* Who must have passed before c is reviewed, given the cycle each artifact is in.
Awaited(cycle, c) ==
  {d \in Critics : Target[d] \notin Basis \cup cycle[Target[c]] /\
     \E e \in asked.rel : e[1] \in cycle[Target[c]] /\ e[2] \in cycle[Target[d]]}

Agreed(status, cycle) ==
  \A c \in Critics :
    LET unmet == {status[d] : d \in Awaited(cycle, c)} \ {"PASS"}
    IN  status[c] = IF unmet = {} THEN OwnStatus(Current, c)
                    ELSE IF unmet \cap {"RED", "BLOCKED"} # {} THEN "BLOCKED" ELSE "WAIT_DEPENDENCY"

\* What one pass over the components in Tarjan's order decides is what the gates mean:
\* a critic is held iff one that reviews what its artifact needs, peers of a cycle apart,
\* has not passed, and BLOCKED iff one of those is RED or BLOCKED.
GatesAgree ==
  Agreed(Once(Query(Current)).status, Once([a \in Artifacts |-> Cycle(asked.rel, a)]))

\* A selection is satisfied only by a GREEN verdict on the present material of everything
\* it leads to, whatever was edited, evicted or reviewed before.
SatisfiedIsWhole ==
  Query(Current).satisfied =>
    \A a \in Artifacts \ Basis : (\E r \in asked.required : a \in Closure(asked.rel, {r})) =>
      /\ CriticsOn(a) # {}
      /\ <<a, version[a]>> \in DOMAIN entries /\ entries[<<a, version[a]>>] = "GREEN"

\* Whatever refers to whatever, in cycles too: when the plan has nothing more to execute,
\* the selection is satisfied, or there is a RED verdict or an artifact nobody reviews.
NoDeadEnd ==
  \/ {"EXECUTE", "COALESCE"} \cap Range(CurrentPlan) # {}
  \/ Query(Current).satisfied
  \/ \E c \in Critics : OwnStatus(Current, c) = "RED"
  \/ \E a \in Current.required \ Basis : CriticsOn(a) = {}
=============================================================================
