-------------------------- MODULE WorkspaceObserver --------------------------
(***************************************************************************)
(* A workspace handle (src/workspaces/index.ts): nobody may write to the   *)
(* reviewed tree, and the handle notices when somebody does.  It records a *)
(* baseline when it opens; file events, a metadata poll and the explicit   *)
(* boundaries of its owner (assertUnchanged) then compare the tree with    *)
(* it, one scan at a time and every caller sharing it where that is sound. *)
(*                                                                         *)
(* A file is a pair of versions, of its metadata and of its contents.  A   *)
(* silent edit moves only the second: metadata scans cannot see it.        *)
(***************************************************************************)
EXTENDS Integers, FiniteSets, FiniteSetsExt

CONSTANTS
  Files,    \* entries of the tree
  Regular,  \* those with contents of their own: not the directories
  Calls,    \* explicit boundaries
  MaxEdits  \* bound on edits of the tree

ASSUME ObserverAssumption == IsFiniteSet(Files) /\ Files # {} /\ Regular \subseteq Files /\ MaxEdits \in Nat

VARIABLES
  tree,       \* what is on disk
  heard,      \* whether the file system still owes the watcher an event
  integrity,  \* what a boundary compares: "content" or "metadata"
  reopened,   \* whether a descriptor says what the tree must be
  handle,     \* "opening", "settling", "open", "closing" or "closed"
  before,     \* what initialize's first scan found
  baseline,   \* what every later scan is compared with
  scan,       \* the traversal that owns the slot
  pending,    \* eventPending: an event since the traversal began
  generation, \* requestedGeneration
  aborted,    \* the reason of the handle's signal
  timer,      \* the metadata poll: "off", "armed" or "checking"
  call,       \* the explicit boundaries (clean: history, the tree was the
              \* baseline when the boundary was asked for)
  moment      \* history: the tree the baseline has to describe

world == <<tree, heard>>
policy == <<integrity, reopened>>
opening == <<before, baseline, moment>>
vars == <<world, policy, opening, handle, scan, pending, generation,
          aborted, timer, call>>

-----------------------------------------------------------------------------
Unread == [meta |-> -1, data |-> -1]
Versions == [meta : 0 .. MaxEdits, data : 0 .. MaxEdits]
Trees == [Files -> Versions]
NoTree == [f \in Files |-> Unread]
Prepared == [f \in Files |-> [meta |-> 0, data |-> 0]]

NoScan == [role |-> "none", contents |-> FALSE, todo |-> {}, got |-> NoTree,
           same |-> TRUE, torn |-> FALSE, generation |-> 0]
Call(state) == [state |-> state, requested |-> 0, clean |-> FALSE]

\* One traversal from the root, in any order (SCAN_CONCURRENCY).
Traversal(role, contents, gen) ==
  [NoScan EXCEPT !.role = role, !.contents = contents, !.todo = Files,
                 !.generation = gen]

SameEntry(contents, one, other) ==
  one.meta = other.meta /\ (contents => one.data = other.data)
Same(contents, one, other) == \A f \in Files : SameEntry(contents, one[f], other[f])
SameMeta(one, other) == Same(FALSE, one, other)

ByContent == integrity = "content"
Closed == handle \in {"closing", "closed"}
Stopped == aborted # "no" \/ Closed  \* assertOpen fails
\* Promise continuations run before the loop takes up the next event or timer.
Quiet == scan.role # "queued" /\ \A c \in Calls : call[c].state \notin {"passed", "again"}
Running == scan.role \in {"before", "baseline", "check"}
Initialized == baseline # NoTree

Init ==
  /\ tree = Prepared
  /\ heard \in BOOLEAN  \* an event of before the watch may be delivered late
  /\ integrity \in {"content", "metadata"} /\ reopened \in BOOLEAN
  /\ handle = "opening"
  /\ before = NoTree /\ baseline = NoTree /\ moment = Prepared
  /\ scan = Traversal("before", FALSE, 0)
  /\ pending = FALSE /\ generation = 0 /\ aborted = "no" /\ timer = "off"
  /\ call = [c \in Calls |-> Call("idle")]

-----------------------------------------------------------------------------
\* The world: somebody edits a file the traversal has not left yet or any other.
\* An entry that moves while it is read tears the traversal (the second lstat).
Edits == MapThenSumSet(LAMBDA f : tree[f].data, Files)

Spoiled == [scan EXCEPT !.torn = TRUE, !.todo = {}, !.got = NoTree, !.same = TRUE]

Edit(f, silent) ==
  /\ Edits < MaxEdits /\ ~Stopped  \* a stopped handle compares nothing any more
  /\ tree' = [tree EXCEPT ![f].data = @ + 1, ![f].meta = IF silent THEN @ ELSE @ + 1]
  /\ heard' \in {heard, TRUE}  \* the watcher may lose the event
  /\ scan' \in {scan} \cup (IF Running /\ f \in scan.todo /\ ~silent THEN {Spoiled} ELSE {})
  /\ UNCHANGED <<policy, opening, handle, pending, generation, aborted, timer, call>>

\* Who waited for the traversal that ends: the calls, the poll, initialize.
\* Fault: a boundary shares a traversal that began before it.
Adequate_Shared(c) == ByContent => scan.contents
Adequate(c) ==
  /\ ByContent => scan.contents
  /\ scan.generation >= call[c].requested
Woken(verdict(_)) ==
  call' = [c \in Calls |-> IF call[c].state = "waiting"
                           THEN verdict(c) ELSE call[c]]
\* Faults: the poll is not armed again, or is after the handle was closed.
Rearmed_Never == IF timer = "checking" THEN "off" ELSE timer
Rearmed_Always == IF timer = "checking" THEN "armed" ELSE timer
Rearmed == IF timer = "checking" THEN (IF Stopped THEN "off" ELSE "armed") ELSE timer

\* abort: the reason is latched, the poll is cancelled unless its check runs.
Latched(reason) == aborted' = IF aborted = "no" THEN reason ELSE aborted
Cleared == IF timer = "armed" THEN "off" ELSE timer
Abort(reason) == Latched(reason) /\ timer' = Cleared

\* The traversal gives its slot back with an error, and nobody's call passes.
Reject(reason) ==
  /\ scan' = NoScan
  /\ Latched(reason) /\ timer' = "off"
  /\ Woken(LAMBDA c : Call("refused"))
  /\ handle' = IF handle = "settling" THEN "closing" ELSE handle

-----------------------------------------------------------------------------
\* initialize: a scan of the metadata, one of the contents, and the comparison
\* with the descriptor.  A failure closes the handle.
OpeningFails ==
  /\ scan.role \in {"before", "baseline"}
  /\ handle' = "closing" /\ scan' = NoScan
  /\ UNCHANGED <<world, policy, opening, pending, generation, aborted, timer, call>>

Baseline(found) ==
  /\ baseline' = found
  /\ IF reopened /\ ~Same(ByContent, found, Prepared)
     THEN /\ handle' = "closing" /\ scan' = NoScan
          /\ Abort("changed")
     ELSE IF pending
     THEN /\ handle' = "settling" /\ scan' = [NoScan EXCEPT !.role = "queued"]
          /\ UNCHANGED <<aborted, timer>>
     ELSE /\ handle' = "open" /\ scan' = NoScan
          /\ timer' = "armed" /\ UNCHANGED aborted

BeforeEnds ==
  /\ scan.role = "before" /\ scan.todo = {} /\ ~scan.torn /\ aborted = "no"
  /\ before' = scan.got
  /\ moment' = IF reopened THEN moment ELSE tree
  /\ IF ~ByContent /\ reopened
     THEN Baseline(scan.got)
     ELSE /\ scan' = Traversal("baseline", TRUE, 0)
          /\ UNCHANGED <<baseline, handle, aborted, timer>>
  /\ UNCHANGED <<world, policy, pending, generation, call>>

\* Fault: the second scan is not compared with the first.
BaselineEnds_Trusted ==
  /\ scan.role = "baseline" /\ scan.todo = {} /\ ~scan.torn /\ aborted = "no"
  /\ Baseline(scan.got)
  /\ before' = NoTree
  /\ UNCHANGED <<world, policy, moment, pending, generation, call>>

BaselineEnds ==
  /\ scan.role = "baseline" /\ scan.todo = {} /\ ~scan.torn /\ aborted = "no"
  /\ SameMeta(before, scan.got)
  /\ Baseline(scan.got)
  /\ before' = NoTree
  /\ UNCHANGED <<world, policy, moment, pending, generation, call>>

OpeningTorn ==
  /\ \/ scan.torn \/ aborted # "no"
     \/ scan.role = "baseline" /\ scan.todo = {} /\ ~SameMeta(before, scan.got)
  /\ OpeningFails

-----------------------------------------------------------------------------
\* The traversal.
ScanEntry(f) ==
  /\ Running /\ Quiet /\ aborted = "no" /\ ~scan.torn /\ f \in scan.todo
  /\ scan' = [scan EXCEPT
       !.todo = @ \ {f},
       !.got[f] = IF scan.role = "check" THEN @
                ELSE [tree[f] EXCEPT !.data = IF scan.contents THEN @ ELSE 0],
       !.same = @ /\ (scan.role = "check" => SameEntry(scan.contents, tree[f], baseline[f]))]
  /\ UNCHANGED <<world, policy, opening, handle, pending, generation, aborted, timer, call>>

\* The microtask that starts a queued check: requests made until now are served.
StartScan ==
  /\ scan.role = "queued"
  /\ IF Stopped
     THEN Reject("failed") /\ UNCHANGED pending
     ELSE /\ scan' = Traversal("check", scan.contents, generation)
          /\ pending' = FALSE
          /\ UNCHANGED <<aborted, timer, call, handle>>
  /\ UNCHANGED <<world, policy, opening, generation>>

\* The tree is not the baseline any more, or an entry vanished under the scan.
Different == scan.todo = {} /\ ~scan.same
ScanFindsChange ==
  /\ scan.role = "check" /\ aborted = "no" /\ (scan.torn \/ Different)
  /\ Reject("changed")
  /\ UNCHANGED <<world, policy, opening, pending, generation>>

ScanFails ==  \* an unrelated I/O error, or the signal
  /\ scan.role = "check" /\ Reject("failed")
  /\ UNCHANGED <<world, policy, opening, pending, generation>>

\* The end of a pass: an event since its beginning has it start over.
Complete == scan.role = "check" /\ scan.todo = {} /\ ~scan.torn /\ ~Different /\ aborted = "no"
ScanAgain ==
  /\ Complete /\ pending
  /\ scan' = Traversal("check", scan.contents, scan.generation) /\ pending' = FALSE
  /\ UNCHANGED <<world, policy, opening, handle, generation, aborted, timer, call>>

ScanEnds ==
  /\ Complete /\ ~pending
  /\ scan' = NoScan
  /\ Woken(LAMBDA c : [call[c] EXCEPT !.state = IF Adequate(c) THEN "passed" ELSE "again"])
  /\ timer' = IF handle = "settling" THEN "armed" ELSE Rearmed
  /\ handle' = IF handle = "settling" THEN "open" ELSE handle
  /\ UNCHANGED <<world, policy, opening, pending, generation, aborted>>

-----------------------------------------------------------------------------
\* check: join the traversal that owns the slot, or queue one.
Checked(contents) ==
  scan' = IF scan.role = "none"
          THEN [NoScan EXCEPT !.role = "queued", !.contents = contents] ELSE scan

\* The watcher's callback.
FileEvent ==
  /\ heard /\ Quiet /\ ~Closed
  /\ heard' = FALSE /\ pending' = TRUE
  /\ IF Initialized /\ aborted = "no" THEN Checked(FALSE) ELSE UNCHANGED scan
  /\ UNCHANGED <<tree, policy, opening, handle, generation, aborted, timer, call>>

\* scheduleMetadataPoll: the next one is armed when this one's check is over.
Poll ==
  /\ timer = "armed" /\ Quiet /\ timer' = "checking"
  /\ Checked(FALSE)
  /\ UNCHANGED <<world, policy, opening, handle, pending, generation, aborted, call>>

\* assertUnchanged.
Intact == Initialized => Same(ByContent, tree, baseline)
AssertUnchanged(c) ==
  /\ handle \in {"open", "closing"} /\ Initialized
  /\ call[c].state = "idle"
  /\ generation' = generation + 1
  /\ IF Stopped
     THEN call' = [call EXCEPT ![c] = Call("refused")] /\ UNCHANGED scan
     ELSE /\ call' = [call EXCEPT ![c] = [state |-> "waiting", requested |-> generation + 1,
                                          clean |-> Intact]]
          /\ Checked(ByContent)
  /\ UNCHANGED <<world, policy, opening, handle, pending, aborted, timer>>

Resume(c) ==
  /\ call[c].state \in {"passed", "again"}
  /\ IF Stopped
     THEN call' = [call EXCEPT ![c] = Call("refused")] /\ UNCHANGED scan
     ELSE IF call[c].state = "passed"
     THEN call' = [call EXCEPT ![c] = Call("ok")] /\ UNCHANGED scan
     ELSE call' = [call EXCEPT ![c].state = "waiting"] /\ Checked(ByContent)
  /\ UNCHANGED <<world, policy, opening, handle, pending, generation, aborted, timer>>

\* The owner's cancellation, or the watcher's error.
Cancel ==
  /\ aborted = "no" /\ ~Closed
  /\ Abort("failed")
  /\ scan' = IF Running THEN Spoiled ELSE scan
  /\ UNCHANGED <<world, policy, opening, handle, pending, generation, call>>

Close ==
  /\ handle = "open" /\ handle' = "closing" /\ timer' = Cleared
  /\ UNCHANGED <<world, policy, opening, scan, pending, generation, aborted, call>>

\* close returns once the slot is free.
CloseEnds ==
  /\ handle = "closing" /\ scan = NoScan /\ handle' = "closed"
  /\ UNCHANGED <<world, policy, opening, scan, pending, generation, aborted, timer, call>>

ScanStep ==
  \/ StartScan \/ ScanFindsChange \/ ScanAgain \/ ScanEnds
  \/ BeforeEnds \/ BaselineEnds \/ OpeningTorn
  \/ \E f \in Files : ScanEntry(f)
  \/ aborted # "no" /\ ScanFails

Next ==
  \/ ScanStep \/ ScanFails \/ OpeningFails
  \/ FileEvent \/ Poll \/ Cancel \/ Close \/ CloseEnds
  \/ \E f \in Files : Edit(f, FALSE)
  \/ \E f \in Regular : Edit(f, TRUE)
  \/ \E c \in Calls : AssertUnchanged(c) \/ Resume(c)

\* The event loop goes on: I/O and microtasks come to their end, timers fire.
Fairness == WF_vars(ScanStep \/ Poll \/ \E c \in Calls : Resume(c))

Spec == Init /\ [][Next]_vars /\ Fairness

-----------------------------------------------------------------------------
\* assertUnchanged as its callers may rely on it, whoever shares its scans.
answer == [c \in Calls |->
  CASE call[c].state \in {"waiting", "passed", "again"} -> "asked"
    [] call[c].state = "ok" -> "accepted"
    [] OTHER -> call[c].state]
clean == {c \in Calls : call[c].clean}
Boundary == INSTANCE InputBoundary WITH intact <- Intact

\* A boundary is accepted only if the tree was still the baseline when it was
\* asked for, and every boundary is answered: calls share a traversal only when
\* it began after them and read what they compare.
BoundaryHolds == Boundary!BoundarySpec

\* The baseline of a handle that opened is the tree of one moment, although its
\* entries were read one by one: the descriptor's, or that of the end of the
\* first of two scans that agree.
BaselineIsOneMoment ==
  handle \in {"settling", "open"} =>
    SameMeta(baseline, moment)

\* Once close has returned nothing reads the tree and no poll is left, although
\* callers and the watcher may have been queued behind the last scan.
CloseDrains == handle = "closed" => scan = NoScan /\ timer = "off"

\* While the handle is open, a visible edit stops the review: the poll finds it
\* even when the event is lost.
ChangeIsNoticed ==
  (handle = "open" /\ ~SameMeta(tree, baseline)) ~> (aborted # "no" \/ Closed)
=============================================================================
