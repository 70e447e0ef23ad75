------------------------ MODULE WorkspaceObserverProofs ------------------------
(***************************************************************************)
(* Safety of a workspace handle, for any tree, any number of boundaries    *)
(* and any number of edits: the baseline describes one moment, nothing is  *)
(* left running behind close, and every step is a step or a stutter of     *)
(* InputBoundary.  That every call is answered stays with TLC.             *)
(*                                                                         *)
(* Versions only grow: what a traversal read of an entry lies between the  *)
(* entry's versions before and after, and an entry that left the baseline  *)
(* never returns to it.                                                    *)
(***************************************************************************)
EXTENDS WorkspaceObserver, TLAPS

Entries == [meta : Int, data : Int]
Scans == [role : {"none", "before", "baseline", "queued", "check"},
          contents : BOOLEAN, todo : SUBSET Files, got : [Files -> Entries],
          same : BOOLEAN, torn : BOOLEAN, generation : Nat]
Boundaries == [state : {"idle", "waiting", "passed", "again", "ok", "refused"},
               requested : Nat, clean : BOOLEAN]

ObserverTypeOK ==
  /\ tree \in [Files -> [meta : Nat, data : Nat]]
  /\ heard \in BOOLEAN
  /\ integrity \in {"content", "metadata"} /\ reopened \in BOOLEAN
  /\ handle \in {"opening", "settling", "open", "closing", "closed"}
  /\ before \in [Files -> Entries]
  /\ baseline \in [Files -> Entries]
  /\ moment \in [Files -> [meta : Nat, data : Nat]]
  /\ scan \in Scans
  /\ pending \in BOOLEAN /\ generation \in Nat
  /\ aborted \in {"no", "changed", "failed"}
  /\ timer \in {"off", "armed", "checking"}
  /\ call \in [Calls -> Boundaries]

\* The states of a boundary that was asked for and has no answer yet.
Asked(c) == call[c].state \in {"waiting", "passed", "again"}

\* A handle checks nothing before it has a baseline, and reads its baseline once.
OpenedInOrder ==
  /\ handle = "opening" <=> scan.role \in {"before", "baseline"}
  /\ handle = "opening" => baseline = NoTree /\ timer = "off"
  /\ handle \in {"settling", "open"} => Initialized
  /\ scan.role \in {"queued", "check"} => Initialized
  /\ \A c \in Calls : Asked(c) => Initialized

\* A poll is armed only while the handle is open, and one that fired has a check.
PollIsOwned ==
  /\ timer = "armed" => handle = "open"
  /\ timer = "checking" => scan.role \in {"queued", "check"}
  /\ handle = "closed" => scan = NoScan

\* What a traversal of the opening has read is not newer than the tree.
ReadsBehind ==
  scan.role \in {"before", "baseline"} /\ ~scan.torn =>
    \A f \in Files \ scan.todo :
      /\ 0 <= scan.got[f].meta /\ scan.got[f].meta <= tree[f].meta
      /\ 0 <= scan.got[f].data /\ scan.got[f].data <= tree[f].data

\* The moment lies between the two scans.
Between ==
  /\ reopened => moment = Prepared
  /\ scan.role = "baseline" /\ ~reopened =>
       \A f \in Files :
         /\ before[f].meta <= moment[f].meta /\ moment[f].meta <= tree[f].meta
         /\ ~scan.torn /\ f \notin scan.todo => moment[f].meta <= scan.got[f].meta

\* The baseline is not newer than the tree.
BaselineBehind ==
  Initialized => \A f \in Files : /\ baseline[f].meta <= tree[f].meta
                                  /\ baseline[f].data <= tree[f].data

\* What a boundary compares of an entry is not what the baseline has.
Differs(f) ==
  \/ tree[f].meta # baseline[f].meta
  \/ ByContent /\ tree[f].data # baseline[f].data

\* A boundary asked of a changed tree still faces one ...
StaysChanged ==
  \A c \in Calls : Asked(c) /\ ~call[c].clean => \E f \in Files : Differs(f)

\* ... and a traversal that may answer it has the change still before it.
ChangeAhead ==
  \A c \in Calls :
    /\ call[c].state \in {"waiting", "again"} /\ ~call[c].clean
    /\ scan.role = "check" /\ ~scan.torn /\ scan.same
    /\ Adequate(c)
    => \E f \in scan.todo : Differs(f)

\* A boundary passes only if it was asked of an unchanged tree.
PassedWasClean ==
  \A c \in Calls :
    /\ call[c].state = "passed" => call[c].clean
    /\ call[c].state = "idle" => ~call[c].clean

GenerationBehind == scan.generation <= generation

ObserverInv ==
  /\ ObserverTypeOK
  /\ OpenedInOrder
  /\ PollIsOwned
  /\ ReadsBehind
  /\ Between
  /\ BaselineIsOneMoment
  /\ BaselineBehind
  /\ StaysChanged
  /\ ChangeAhead
  /\ PassedWasClean
  /\ GenerationBehind

-----------------------------------------------------------------------------
\* The records a step may put in the slot, field by field.
LEMMA FreeSlot ==
  /\ NoScan \in Scans /\ NoTree \in [Files -> Entries]
  /\ NoScan.role = "none" /\ NoScan.todo = {} /\ NoScan.torn = FALSE /\ NoScan.generation = 0
BY DEF NoScan, NoTree, Unread, Scans, Entries

Queued(contents) == [NoScan EXCEPT !.role = "queued", !.contents = contents]

LEMMA QueuedSlot ==
  /\ Queued(FALSE) \in Scans /\ Queued(FALSE).role = "queued" /\ Queued(FALSE).generation = 0
  /\ Queued(ByContent) \in Scans /\ Queued(ByContent).role = "queued"
  /\ Queued(ByContent).generation = 0
<1>1. /\ Queued(FALSE) \in Scans /\ Queued(FALSE).role = "queued"
      /\ Queued(FALSE).generation = 0
  BY FreeSlot DEF NoScan, Scans, Queued
<1>2. /\ Queued(ByContent) \in Scans /\ Queued(ByContent).role = "queued"
      /\ Queued(ByContent).generation = 0
  BY FreeSlot DEF NoScan, Scans, Queued, ByContent
<1> QED BY <1>1, <1>2

LEMMA SpoiledSlot ==
  ASSUME scan \in Scans
  PROVE  /\ Spoiled \in Scans /\ Spoiled.role = scan.role /\ Spoiled.torn = TRUE
         /\ Spoiled.generation = scan.generation
BY FreeSlot DEF Scans, Spoiled

LEMMA AdvancedSlot ==
  ASSUME ObserverTypeOK, NEW f \in Files, ScanEntry(f)
  PROVE  /\ scan' \in Scans
         /\ scan'.role = scan.role /\ scan'.contents = scan.contents
         /\ scan'.todo = scan.todo \ {f}
         /\ scan.role # "check" =>
              \A g \in Files :
                IF g = f THEN /\ scan'.got[g].meta = tree[f].meta
                              /\ scan'.got[g].data \in {0, tree[f].data}
                         ELSE scan'.got[g] = scan.got[g]
         /\ scan'.same => scan.same
         /\ scan'.same /\ scan.role = "check" => SameEntry(scan.contents, tree[f], baseline[f])
         /\ scan'.torn = scan.torn /\ scan'.generation = scan.generation
<1> DEFINE read == [tree[f] EXCEPT !.data = IF scan.contents THEN @ ELSE 0]
           got == IF scan.role = "check" THEN scan.got[f] ELSE read
           same == scan.same /\ (scan.role = "check" => SameEntry(scan.contents, tree[f], baseline[f]))
<1>1. read \in Entries /\ read.meta = tree[f].meta /\ read.data \in {0, tree[f].data}
  BY DEF ObserverTypeOK, Scans, Entries
<1>2. got \in Entries BY <1>1 DEF ObserverTypeOK, Scans
<1>3. same \in BOOLEAN BY DEF ObserverTypeOK, Scans, SameEntry
<1>4. scan' = [scan EXCEPT !.todo = @ \ {f}, !.got[f] = got, !.same = same]
  BY DEF ScanEntry
<1>5. scan \in Scans BY DEF ObserverTypeOK
<1>7. scan.role # "check" => got = read OBVIOUS
<1>8. same => scan.same /\ (scan.role = "check" => SameEntry(scan.contents, tree[f], baseline[f]))
  OBVIOUS
<1> HIDE DEF got, same, read
<1>6. /\ scan' \in Scans /\ scan'.got = [scan.got EXCEPT ![f] = got] /\ scan'.same = same
      /\ scan'.todo = scan.todo \ {f} /\ scan'.role = scan.role
      /\ scan'.contents = scan.contents /\ scan'.torn = scan.torn
      /\ scan'.generation = scan.generation
  BY <1>2, <1>3, <1>4, <1>5 DEF Scans
<1>9. scan.role # "check" =>
        \A g \in Files :
          IF g = f THEN /\ scan'.got[g].meta = tree[f].meta
                        /\ scan'.got[g].data \in {0, tree[f].data}
                   ELSE scan'.got[g] = scan.got[g]
  BY <1>1, <1>5, <1>6, <1>7 DEF Scans
<1> QED BY <1>6, <1>8, <1>9

\* A request joins the traversal that owns the slot or queues one.
JoinsOrQueues ==
  /\ scan' \in Scans
  /\ \/ scan' = scan /\ scan.role # "none"
     \/ scan.role = "none" /\ scan'.role = "queued" /\ scan'.generation = 0

LEMMA JoinOrQueueMetadata == ObserverTypeOK /\ Checked(FALSE) => JoinsOrQueues
<1>1. Checked(FALSE) => IF scan.role = "none" THEN scan' = Queued(FALSE) ELSE scan' = scan
  BY DEF Checked, Queued
<1> QED BY <1>1, QueuedSlot DEF ObserverTypeOK, JoinsOrQueues

LEMMA JoinOrQueueCompared == ObserverTypeOK /\ Checked(ByContent) => JoinsOrQueues
<1>1. Checked(ByContent) => IF scan.role = "none" THEN scan' = Queued(ByContent) ELSE scan' = scan
  BY DEF Checked, Queued
<1> QED BY <1>1, QueuedSlot DEF ObserverTypeOK, JoinsOrQueues

LEMMA Begins == ASSUME Init PROVE ObserverInv
<1>1. scan \in Scans /\ scan.role = "before" /\ scan.todo = Files /\ scan.torn = FALSE /\ scan.generation = 0
  BY FreeSlot DEF Init, Traversal, NoScan, Scans
<1>2. ObserverTypeOK
  BY <1>1, FreeSlot, ObserverAssumption DEF Init, ObserverTypeOK, Prepared, Boundaries,
     Call
<1>3. \A c \in Calls : call[c].state = "idle" /\ ~call[c].clean BY DEF Init, Call
<1>4. OpenedInOrder /\ PollIsOwned
  BY <1>1, <1>3 DEF Init, OpenedInOrder, PollIsOwned, Asked
<1>5. ReadsBehind /\ Between /\ BaselineIsOneMoment
  BY <1>1 DEF Init, ReadsBehind, Between, BaselineIsOneMoment
<1>6. BaselineBehind BY DEF Init, BaselineBehind, Initialized
<1>8. GenerationBehind
  <2>1. generation = 0 BY DEF Init
  <2> QED BY <1>1, <2>1 DEF GenerationBehind
<1>7. StaysChanged /\ ChangeAhead /\ PassedWasClean
  BY <1>3 DEF StaysChanged, ChangeAhead, PassedWasClean, Asked
<1> QED BY <1>2, <1>4, <1>5, <1>6, <1>7, <1>8 DEF ObserverInv

\* Versions only grow: an entry that differs from the baseline never agrees again.
LEMMA EditGrows ==
  ASSUME ObserverInv, NEW f \in Files, NEW silent \in BOOLEAN, Edit(f, silent)
  PROVE  /\ tree' \in [Files -> [meta : Nat, data : Nat]]
         /\ \A g \in Files : tree[g].meta <= tree'[g].meta /\ tree[g].data <= tree'[g].data
         /\ UNCHANGED <<policy, opening, handle, pending, generation, aborted, timer, call>>
         /\ \A g \in Files : Initialized /\ Differs(g) => Differs(g)'
<1>0. ObserverTypeOK /\ BaselineBehind BY DEF ObserverInv
<1>b. tree' \in [Files -> [meta : Nat, data : Nat]]
      /\ \A g \in Files : tree[g].meta <= tree'[g].meta /\ tree[g].data <= tree'[g].data
  <2>1. tree \in [Files -> [meta : Nat, data : Nat]] BY <1>0 DEF ObserverTypeOK
  <2> DEFINE meta == IF silent THEN tree[f].meta ELSE tree[f].meta + 1
  <2>2. meta \in Nat /\ tree[f].meta <= meta BY <2>1
  <2>3. tree' = [tree EXCEPT ![f].data = @ + 1, ![f].meta = meta] BY <2>1 DEF Edit
  <2> HIDE DEF meta
  <2>4. tree' = [tree EXCEPT ![f] = [[tree[f] EXCEPT !.data = @ + 1] EXCEPT !.meta = meta]]
    BY <2>1, <2>3
  <2> DEFINE entry == [[tree[f] EXCEPT !.data = @ + 1] EXCEPT !.meta = meta]
  <2>5. entry \in [meta : Nat, data : Nat] /\ entry.meta = meta /\ entry.data = tree[f].data + 1
    <3>1. tree[f] \in [meta : Nat, data : Nat] BY <2>1
    <3> DEFINE read == [tree[f] EXCEPT !.data = @ + 1]
    <3>2. /\ read \in [meta : Nat, data : Nat] /\ read.data = tree[f].data + 1
          /\ entry = [read EXCEPT !.meta = meta]
      BY <3>1
    <3> HIDE DEF read, entry
    <3> QED BY <2>2, <3>2
  <2>6. tree' = [tree EXCEPT ![f] = entry] BY <2>4
  <2> HIDE DEF entry
  <2> QED BY <2>1, <2>2, <2>5, <2>6
<1>d. UNCHANGED <<policy, opening, handle, pending, generation, aborted, timer, call>>
  BY DEF Edit
<1>f. \A g \in Files : Initialized /\ Differs(g) => Differs(g)'
  <2> SUFFICES ASSUME NEW g \in Files, Initialized, Differs(g) PROVE Differs(g)' OBVIOUS
  <2>1. /\ tree[g] \in [meta : Nat, data : Nat] /\ tree'[g] \in [meta : Nat, data : Nat]
        /\ baseline[g] \in Entries /\ baseline' = baseline /\ integrity' = integrity
        /\ tree[g].meta <= tree'[g].meta /\ tree[g].data <= tree'[g].data
    BY <1>0, <1>b, <1>d DEF ObserverTypeOK, policy, opening
  <2>2. baseline[g].meta <= tree[g].meta /\ baseline[g].data <= tree[g].data
    BY <1>0 DEF BaselineBehind
  <2> QED BY <2>1, <2>2 DEF Differs, ByContent, Entries
<1> QED BY <1>b, <1>d, <1>f

LEMMA EditStep ==
  ASSUME ObserverInv, NEW f \in Files, NEW silent \in BOOLEAN, Edit(f, silent)
  PROVE  ObserverInv'
<1>0. /\ ObserverTypeOK /\ OpenedInOrder /\ PollIsOwned /\ ReadsBehind /\ Between
      /\ BaselineIsOneMoment /\ BaselineBehind /\ StaysChanged /\ ChangeAhead
      /\ PassedWasClean /\ GenerationBehind
  BY DEF ObserverInv
<1>a. scan' \in Scans /\ scan'.role = scan.role /\ scan'.generation = scan.generation
      /\ (scan' = scan \/ scan'.torn = TRUE)
  BY <1>0, SpoiledSlot DEF ObserverTypeOK, Edit
<1>b. tree' \in [Files -> [meta : Nat, data : Nat]]
      /\ \A g \in Files : tree[g].meta <= tree'[g].meta /\ tree[g].data <= tree'[g].data
  BY EditGrows
<1>c. heard' \in BOOLEAN /\ ~Closed BY <1>0 DEF Edit, ObserverTypeOK, Stopped
<1>d. UNCHANGED <<policy, opening, handle, pending, generation, aborted, timer, call>>
  BY DEF Edit
<1>e. BaselineBehind'
  BY <1>0, <1>b, <1>d DEF BaselineBehind, ObserverTypeOK, Entries, Initialized, policy,
     opening
<1>f. \A g \in Files : Initialized /\ Differs(g) => Differs(g)' BY EditGrows
<1>1. ObserverTypeOK'
  BY <1>0, <1>a, <1>b, <1>c, <1>d DEF ObserverTypeOK, Boundaries, Call, Closed, policy,
     opening
<1>2. OpenedInOrder'
  BY <1>0, <1>a, <1>b, <1>c, <1>d DEF OpenedInOrder, ObserverTypeOK, PollIsOwned,
     Asked, Initialized, NoTree, Unread, Call, Closed, policy, opening
<1>3. PollIsOwned'
  BY <1>0, <1>a, <1>b, <1>c, <1>d DEF PollIsOwned, ObserverTypeOK, OpenedInOrder,
     Closed, policy, opening
<1>4. ReadsBehind'
  BY <1>0, <1>a, <1>b, <1>c, <1>d DEF ReadsBehind, ObserverTypeOK, Scans, Entries,
     Closed, policy, opening
<1>5. Between'
  BY <1>0, <1>a, <1>b, <1>c, <1>d DEF Between, ObserverTypeOK, ReadsBehind,
     OpenedInOrder, Scans, Entries, Closed, policy, opening
<1>6. BaselineIsOneMoment'
  BY <1>0, <1>a, <1>b, <1>c, <1>d DEF BaselineIsOneMoment, SameMeta, Same, SameEntry,
     OpenedInOrder, Closed, policy, opening
<1>7. BaselineBehind'
  BY <1>e
<1>8. StaysChanged'
  BY <1>0, <1>d, <1>f DEF StaysChanged, Asked, OpenedInOrder
<1>9. ChangeAhead'
  <2>1. scan' = scan \/ scan'.torn BY <1>a
  <2> QED
    BY <1>0, <1>d, <1>f, <2>1 DEF ChangeAhead, Asked, Adequate, ByContent,
       OpenedInOrder, policy, ObserverTypeOK, Scans
<1>10. PassedWasClean'
  BY <1>0, <1>a, <1>b, <1>c, <1>d DEF PassedWasClean, ObserverTypeOK, Call, Closed,
     policy, opening
<1>11. GenerationBehind'
  BY <1>0, <1>a, <1>b, <1>c, <1>d DEF GenerationBehind, ObserverTypeOK, Scans, Closed,
     policy, opening
<1> QED
  BY <1>1, <1>2, <1>3, <1>4, <1>5, <1>6, <1>7, <1>8, <1>9, <1>10, <1>11 DEF ObserverInv

LEMMA StartStep ==
  ASSUME ObserverInv, StartScan
  PROVE  ObserverInv'
<1>0. /\ ObserverTypeOK /\ OpenedInOrder /\ PollIsOwned /\ ReadsBehind /\ Between
      /\ BaselineIsOneMoment /\ BaselineBehind /\ StaysChanged /\ ChangeAhead
      /\ PassedWasClean /\ GenerationBehind
  BY DEF ObserverInv
<1>a. \/ scan' = NoScan
      \/ /\ scan' \in Scans /\ scan'.role = "check" /\ scan'.todo = Files
         /\ scan'.torn = FALSE /\ scan'.generation = generation
  <2>1. generation \in Nat /\ scan.contents \in BOOLEAN
    BY <1>0 DEF ObserverTypeOK, Scans
  <2>2. scan' = NoScan \/ scan' = Traversal("check", scan.contents, generation)
    BY DEF StartScan, Reject
  <2>3. CASE scan' = Traversal("check", scan.contents, generation)
    <3>1. /\ scan' \in Scans /\ scan'.role = "check" /\ scan'.todo = Files
          /\ scan'.torn = FALSE /\ scan'.generation = generation
      BY <2>1, <2>3, FreeSlot DEF Traversal, NoScan, Scans
    <3> QED BY <3>1
  <2> QED BY <2>2, <2>3
<1>b. \/ Reject("failed") /\ UNCHANGED pending
      \/ scan'.role = "check" /\ pending' = FALSE /\ UNCHANGED <<aborted, timer, call, handle>>
  BY <1>a, FreeSlot DEF StartScan, Traversal, NoScan
<1>c. scan.role = "queued" /\ UNCHANGED <<world, policy, opening, generation>>
  BY DEF StartScan
<1>d. handle # "closed" BY <1>0, <1>c, FreeSlot DEF PollIsOwned
<1>1. ObserverTypeOK'
  <2>1. call' \in [Calls -> Boundaries]
    <3>1. call \in [Calls -> Boundaries] BY <1>0 DEF ObserverTypeOK
    <3>2. Call("refused") \in Boundaries BY DEF Call, Boundaries
    <3>3. CASE UNCHANGED call BY <3>1, <3>3
    <3>4. CASE Reject("failed") BY <3>1, <3>2, <3>4 DEF Reject, Woken
    <3> QED BY <1>b, <3>3, <3>4
  <2>2. /\ pending' \in BOOLEAN /\ aborted' \in {"no", "changed", "failed"}
        /\ timer' \in {"off", "armed", "checking"}
        /\ handle' \in {"opening", "settling", "open", "closing", "closed"}
    BY <1>0, <1>b DEF ObserverTypeOK, Reject, Latched
  <2>3. scan' \in Scans BY <1>a, FreeSlot
  <2> QED BY <1>0, <1>c, <2>1, <2>2, <2>3 DEF ObserverTypeOK, world, policy, opening
<1>2. OpenedInOrder'
  BY <1>0, <1>a, <1>b, <1>c, <1>d, FreeSlot DEF OpenedInOrder, ObserverTypeOK,
     PollIsOwned, Asked, Initialized, NoTree, Unread, Call, Reject, Latched, Woken,
     Closed, world, policy, opening
<1>3. PollIsOwned'
  BY <1>0, <1>a, <1>b, <1>c, <1>d, FreeSlot DEF PollIsOwned, ObserverTypeOK,
     OpenedInOrder, Reject, Latched, Woken, Closed, world, policy, opening
<1>4. ReadsBehind'
  BY <1>0, <1>a, <1>b, <1>c, <1>d, FreeSlot DEF ReadsBehind, ObserverTypeOK, Scans,
     Entries, Reject, Latched, Woken, Closed, world, policy, opening
<1>5. Between'
  BY <1>0, <1>a, <1>b, <1>c, <1>d, FreeSlot DEF Between, ObserverTypeOK, ReadsBehind,
     OpenedInOrder, Scans, Entries, Reject, Latched, Woken, Closed, world, policy,
     opening
<1>6. BaselineIsOneMoment'
  BY <1>0, <1>a, <1>b, <1>c, <1>d, FreeSlot DEF BaselineIsOneMoment, SameMeta, Same,
     SameEntry, OpenedInOrder, Reject, Latched, Woken, Closed, world, policy, opening
<1>7. BaselineBehind'
  BY <1>0, <1>a, <1>b, <1>c, <1>d, FreeSlot DEF BaselineBehind, ObserverTypeOK,
     Initialized, Entries, OpenedInOrder, Reject, Latched, Woken, Closed, world,
     policy, opening
<1>8. StaysChanged'
  BY <1>0, <1>a, <1>b, <1>c, <1>d, FreeSlot DEF StaysChanged, ObserverTypeOK, Asked,
     Call, Differs, ByContent, Reject, Latched, Woken, Closed, world, policy, opening
<1>9. ChangeAhead'
  BY <1>0, <1>a, <1>b, <1>c, <1>d, FreeSlot DEF ChangeAhead, ObserverTypeOK,
     StaysChanged, Asked, Call, Adequate, Differs, ByContent, GenerationBehind, Reject,
     Latched, Woken, Closed, world, policy, opening
<1>10. PassedWasClean'
  BY <1>0, <1>a, <1>b, <1>c, <1>d, FreeSlot DEF PassedWasClean, ObserverTypeOK, Call,
     Reject, Latched, Woken, Closed, world, policy, opening
<1>11. GenerationBehind'
  BY <1>0, <1>a, <1>b, <1>c, <1>d, FreeSlot DEF GenerationBehind, ObserverTypeOK,
     Scans, Reject, Latched, Woken, Closed, world, policy, opening
<1> QED
  BY <1>1, <1>2, <1>3, <1>4, <1>5, <1>6, <1>7, <1>8, <1>9, <1>10, <1>11 DEF ObserverInv

LEMMA ChangeStep ==
  ASSUME ObserverInv, ScanFindsChange
  PROVE  ObserverInv'
<1>0. /\ ObserverTypeOK /\ OpenedInOrder /\ PollIsOwned /\ ReadsBehind /\ Between
      /\ BaselineIsOneMoment /\ BaselineBehind /\ StaysChanged /\ ChangeAhead
      /\ PassedWasClean /\ GenerationBehind
  BY DEF ObserverInv
<1>a. scan' = NoScan BY DEF ScanFindsChange, Reject
<1>1. ObserverTypeOK'
  BY <1>0, <1>a, FreeSlot DEF ObserverTypeOK, Boundaries, Call, ScanFindsChange,
     Reject, Latched, Woken, world, policy, opening
<1>2. OpenedInOrder'
  BY <1>0, <1>a, FreeSlot DEF OpenedInOrder, ObserverTypeOK, PollIsOwned, Asked,
     Initialized, NoTree, Unread, Call, ScanFindsChange, Reject, Latched, Woken, world,
     policy, opening
<1>3. PollIsOwned'
  BY <1>0, <1>a, FreeSlot DEF PollIsOwned, ObserverTypeOK, OpenedInOrder,
     ScanFindsChange, Reject, Latched, Woken, world, policy, opening
<1>4. ReadsBehind'
  BY <1>0, <1>a, FreeSlot DEF ReadsBehind, ObserverTypeOK, Scans, Entries,
     ScanFindsChange, Reject, Latched, Woken, world, policy, opening
<1>5. Between'
  BY <1>0, <1>a, FreeSlot DEF Between, ObserverTypeOK, ReadsBehind, OpenedInOrder,
     Scans, Entries, ScanFindsChange, Reject, Latched, Woken, world, policy, opening
<1>6. BaselineIsOneMoment'
  BY <1>0, <1>a, FreeSlot DEF BaselineIsOneMoment, SameMeta, Same, SameEntry,
     OpenedInOrder, ScanFindsChange, Reject, Latched, Woken, world, policy, opening
<1>7. BaselineBehind'
  BY <1>0, <1>a, FreeSlot DEF BaselineBehind, ObserverTypeOK, Initialized, Entries,
     OpenedInOrder, ScanFindsChange, Reject, Latched, Woken, world, policy, opening
<1>8. StaysChanged'
  BY <1>0, <1>a, FreeSlot DEF StaysChanged, ObserverTypeOK, Asked, Call, Differs,
     ByContent, ScanFindsChange, Reject, Latched, Woken, world, policy, opening
<1>9. ChangeAhead'
  BY <1>0, <1>a, FreeSlot DEF ChangeAhead, ObserverTypeOK, StaysChanged, Asked, Call,
     Adequate, Differs, ByContent, GenerationBehind, ScanFindsChange, Reject, Latched,
     Woken, world, policy, opening
<1>10. PassedWasClean'
  BY <1>0, <1>a, FreeSlot DEF PassedWasClean, ObserverTypeOK, Call, ScanFindsChange,
     Reject, Latched, Woken, world, policy, opening
<1>11. GenerationBehind'
  BY <1>0, <1>a, FreeSlot DEF GenerationBehind, ObserverTypeOK, Scans, ScanFindsChange,
     Reject, Latched, Woken, world, policy, opening
<1> QED
  BY <1>1, <1>2, <1>3, <1>4, <1>5, <1>6, <1>7, <1>8, <1>9, <1>10, <1>11 DEF ObserverInv

LEMMA FailStep ==
  ASSUME ObserverInv, ScanFails
  PROVE  ObserverInv'
<1>0. /\ ObserverTypeOK /\ OpenedInOrder /\ PollIsOwned /\ ReadsBehind /\ Between
      /\ BaselineIsOneMoment /\ BaselineBehind /\ StaysChanged /\ ChangeAhead
      /\ PassedWasClean /\ GenerationBehind
  BY DEF ObserverInv
<1>a. scan' = NoScan BY DEF ScanFails, Reject
<1>1. ObserverTypeOK'
  BY <1>0, <1>a, FreeSlot DEF ObserverTypeOK, Boundaries, Call, ScanFails, Reject,
     Latched, Woken, world, policy, opening
<1>2. OpenedInOrder'
  BY <1>0, <1>a, FreeSlot DEF OpenedInOrder, ObserverTypeOK, PollIsOwned, Asked,
     Initialized, NoTree, Unread, Call, ScanFails, Reject, Latched, Woken, world,
     policy, opening
<1>3. PollIsOwned'
  BY <1>0, <1>a, FreeSlot DEF PollIsOwned, ObserverTypeOK, OpenedInOrder, ScanFails,
     Reject, Latched, Woken, world, policy, opening
<1>4. ReadsBehind'
  BY <1>0, <1>a, FreeSlot DEF ReadsBehind, ObserverTypeOK, Scans, Entries, ScanFails,
     Reject, Latched, Woken, world, policy, opening
<1>5. Between'
  BY <1>0, <1>a, FreeSlot DEF Between, ObserverTypeOK, ReadsBehind, OpenedInOrder,
     Scans, Entries, ScanFails, Reject, Latched, Woken, world, policy, opening
<1>6. BaselineIsOneMoment'
  BY <1>0, <1>a, FreeSlot DEF BaselineIsOneMoment, SameMeta, Same, SameEntry,
     OpenedInOrder, ScanFails, Reject, Latched, Woken, world, policy, opening
<1>7. BaselineBehind'
  BY <1>0, <1>a, FreeSlot DEF BaselineBehind, ObserverTypeOK, Initialized, Entries,
     OpenedInOrder, ScanFails, Reject, Latched, Woken, world, policy, opening
<1>8. StaysChanged'
  BY <1>0, <1>a, FreeSlot DEF StaysChanged, ObserverTypeOK, Asked, Call, Differs,
     ByContent, ScanFails, Reject, Latched, Woken, world, policy, opening
<1>9. ChangeAhead'
  BY <1>0, <1>a, FreeSlot DEF ChangeAhead, ObserverTypeOK, StaysChanged, Asked, Call,
     Adequate, Differs, ByContent, GenerationBehind, ScanFails, Reject, Latched, Woken,
     world, policy, opening
<1>10. PassedWasClean'
  BY <1>0, <1>a, FreeSlot DEF PassedWasClean, ObserverTypeOK, Call, ScanFails, Reject,
     Latched, Woken, world, policy, opening
<1>11. GenerationBehind'
  BY <1>0, <1>a, FreeSlot DEF GenerationBehind, ObserverTypeOK, Scans, ScanFails,
     Reject, Latched, Woken, world, policy, opening
<1> QED
  BY <1>1, <1>2, <1>3, <1>4, <1>5, <1>6, <1>7, <1>8, <1>9, <1>10, <1>11 DEF ObserverInv

LEMMA AgainStep ==
  ASSUME ObserverInv, ScanAgain
  PROVE  ObserverInv'
<1>0. /\ ObserverTypeOK /\ OpenedInOrder /\ PollIsOwned /\ ReadsBehind /\ Between
      /\ BaselineIsOneMoment /\ BaselineBehind /\ StaysChanged /\ ChangeAhead
      /\ PassedWasClean /\ GenerationBehind
  BY DEF ObserverInv
<1>a. /\ scan' \in Scans /\ scan'.role = "check" /\ scan'.todo = Files
      /\ scan'.generation = scan.generation /\ scan'.contents = scan.contents
  <2>1. scan.generation \in Nat /\ scan.contents \in BOOLEAN
    BY <1>0 DEF ObserverTypeOK, Scans
  <2> QED BY <2>1, FreeSlot DEF ScanAgain, Traversal, NoScan, Scans
<1>1. ObserverTypeOK'
  BY <1>0, <1>a, FreeSlot DEF ObserverTypeOK, Boundaries, Call, ScanAgain, Complete,
     Different, world, policy, opening
<1>2. OpenedInOrder'
  BY <1>0, <1>a, FreeSlot DEF OpenedInOrder, ObserverTypeOK, PollIsOwned, Asked,
     Initialized, NoTree, Unread, Call, ScanAgain, Complete, Different, world, policy,
     opening
<1>3. PollIsOwned'
  BY <1>0, <1>a, FreeSlot DEF PollIsOwned, ObserverTypeOK, OpenedInOrder, ScanAgain,
     Complete, Different, world, policy, opening
<1>4. ReadsBehind'
  BY <1>0, <1>a, FreeSlot DEF ReadsBehind, ObserverTypeOK, Scans, Entries, ScanAgain,
     Complete, Different, world, policy, opening
<1>5. Between'
  BY <1>0, <1>a, FreeSlot DEF Between, ObserverTypeOK, ReadsBehind, OpenedInOrder,
     Scans, Entries, ScanAgain, Complete, Different, world, policy, opening
<1>6. BaselineIsOneMoment'
  BY <1>0, <1>a, FreeSlot DEF BaselineIsOneMoment, SameMeta, Same, SameEntry,
     OpenedInOrder, ScanAgain, Complete, Different, world, policy, opening
<1>7. BaselineBehind'
  BY <1>0, <1>a, FreeSlot DEF BaselineBehind, ObserverTypeOK, Initialized, Entries,
     OpenedInOrder, ScanAgain, Complete, Different, world, policy, opening
<1>8. StaysChanged'
  BY <1>0, <1>a, FreeSlot DEF StaysChanged, ObserverTypeOK, Asked, Call, Differs,
     ByContent, ScanAgain, Complete, Different, world, policy, opening
<1>9. ChangeAhead'
  BY <1>0, <1>a, FreeSlot DEF ChangeAhead, ObserverTypeOK, StaysChanged, Asked, Call,
     Adequate, Differs, ByContent, GenerationBehind, ScanAgain, Complete, Different,
     world, policy, opening
<1>10. PassedWasClean'
  BY <1>0, <1>a, FreeSlot DEF PassedWasClean, ObserverTypeOK, Call, ScanAgain,
     Complete, Different, world, policy, opening
<1>11. GenerationBehind'
  BY <1>0, <1>a, FreeSlot DEF GenerationBehind, ObserverTypeOK, Scans, ScanAgain,
     Complete, Different, world, policy, opening
<1> QED
  BY <1>1, <1>2, <1>3, <1>4, <1>5, <1>6, <1>7, <1>8, <1>9, <1>10, <1>11 DEF ObserverInv

LEMMA EndStep ==
  ASSUME ObserverInv, ScanEnds
  PROVE  ObserverInv'
<1>0. /\ ObserverTypeOK /\ OpenedInOrder /\ PollIsOwned /\ ReadsBehind /\ Between
      /\ BaselineIsOneMoment /\ BaselineBehind /\ StaysChanged /\ ChangeAhead
      /\ PassedWasClean /\ GenerationBehind
  BY DEF ObserverInv
<1>a. scan' = NoScan BY DEF ScanEnds
<1>1. ObserverTypeOK'
  BY <1>0, <1>a, FreeSlot DEF ObserverTypeOK, Boundaries, Call, ScanEnds, Complete,
     Different, Woken, Rearmed, Stopped, Closed, world, policy, opening
<1>2. OpenedInOrder'
  BY <1>0, <1>a, FreeSlot DEF OpenedInOrder, ObserverTypeOK, PollIsOwned, Asked,
     Initialized, NoTree, Unread, Call, ScanEnds, Complete, Different, Woken, Rearmed,
     Stopped, Closed, world, policy, opening
<1>3. PollIsOwned'
  BY <1>0, <1>a, FreeSlot DEF PollIsOwned, ObserverTypeOK, OpenedInOrder, ScanEnds,
     Complete, Different, Woken, Rearmed, Stopped, Closed, world, policy, opening
<1>4. ReadsBehind'
  BY <1>0, <1>a, FreeSlot DEF ReadsBehind, ObserverTypeOK, Scans, Entries, ScanEnds,
     Complete, Different, Woken, Rearmed, Stopped, Closed, world, policy, opening
<1>5. Between'
  BY <1>0, <1>a, FreeSlot DEF Between, ObserverTypeOK, ReadsBehind, OpenedInOrder,
     Scans, Entries, ScanEnds, Complete, Different, Woken, Rearmed, Stopped, Closed,
     world, policy, opening
<1>6. BaselineIsOneMoment'
  BY <1>0, <1>a, FreeSlot DEF BaselineIsOneMoment, SameMeta, Same, SameEntry,
     OpenedInOrder, ScanEnds, Complete, Different, Woken, Rearmed, Stopped, Closed,
     world, policy, opening
<1>7. BaselineBehind'
  BY <1>0, <1>a, FreeSlot DEF BaselineBehind, ObserverTypeOK, Initialized, Entries,
     OpenedInOrder, ScanEnds, Complete, Different, Woken, Rearmed, Stopped, Closed,
     world, policy, opening
<1>8. StaysChanged'
  BY <1>0, <1>a, FreeSlot DEF StaysChanged, ObserverTypeOK, Asked, Call, Differs,
     ByContent, ScanEnds, Complete, Different, Woken, Rearmed, Stopped, Closed, world,
     policy, opening
<1>9. ChangeAhead'
  BY <1>0, <1>a, FreeSlot DEF ChangeAhead, ObserverTypeOK, StaysChanged, Asked, Call,
     Adequate, Differs, ByContent, GenerationBehind, ScanEnds, Complete, Different,
     Woken, Rearmed, Stopped, Closed, world, policy, opening
<1>10. PassedWasClean'
  BY <1>0, <1>a, FreeSlot DEF PassedWasClean, ChangeAhead, ObserverTypeOK, Scans,
     Adequate, ScanEnds, Complete, Different, Woken, Rearmed, Stopped, Closed, world,
     policy, opening
<1>11. GenerationBehind'
  BY <1>0, <1>a, FreeSlot DEF GenerationBehind, ObserverTypeOK, Scans, ScanEnds,
     Complete, Different, Woken, Rearmed, Stopped, Closed, world, policy, opening
<1> QED
  BY <1>1, <1>2, <1>3, <1>4, <1>5, <1>6, <1>7, <1>8, <1>9, <1>10, <1>11 DEF ObserverInv

LEMMA OpeningFailsStep ==
  ASSUME ObserverInv, OpeningFails
  PROVE  ObserverInv'
<1>0. /\ ObserverTypeOK /\ OpenedInOrder /\ PollIsOwned /\ ReadsBehind /\ Between
      /\ BaselineIsOneMoment /\ BaselineBehind /\ StaysChanged /\ ChangeAhead
      /\ PassedWasClean /\ GenerationBehind
  BY DEF ObserverInv
<1>a. scan' = NoScan BY DEF OpeningFails
<1>1. ObserverTypeOK'
  BY <1>0, <1>a, FreeSlot DEF ObserverTypeOK, Boundaries, Call, OpeningFails, world,
     policy, opening
<1>2. OpenedInOrder'
  BY <1>0, <1>a, FreeSlot DEF OpenedInOrder, ObserverTypeOK, PollIsOwned, Asked,
     Initialized, NoTree, Unread, Call, OpeningFails, world, policy, opening
<1>3. PollIsOwned'
  BY <1>0, <1>a, FreeSlot DEF PollIsOwned, ObserverTypeOK, OpenedInOrder, OpeningFails,
     world, policy, opening
<1>4. ReadsBehind'
  BY <1>0, <1>a, FreeSlot DEF ReadsBehind, ObserverTypeOK, Scans, Entries,
     OpeningFails, world, policy, opening
<1>5. Between'
  BY <1>0, <1>a, FreeSlot DEF Between, ObserverTypeOK, ReadsBehind, OpenedInOrder,
     Scans, Entries, OpeningFails, world, policy, opening
<1>6. BaselineIsOneMoment'
  BY <1>0, <1>a, FreeSlot DEF BaselineIsOneMoment, SameMeta, Same, SameEntry,
     OpenedInOrder, OpeningFails, world, policy, opening
<1>7. BaselineBehind'
  BY <1>0, <1>a, FreeSlot DEF BaselineBehind, ObserverTypeOK, Initialized, Entries,
     OpenedInOrder, OpeningFails, world, policy, opening
<1>8. StaysChanged'
  BY <1>0, <1>a, FreeSlot DEF StaysChanged, ObserverTypeOK, Asked, Call, Differs,
     ByContent, OpeningFails, world, policy, opening
<1>9. ChangeAhead'
  BY <1>0, <1>a, FreeSlot DEF ChangeAhead, ObserverTypeOK, StaysChanged, Asked, Call,
     Adequate, Differs, ByContent, GenerationBehind, OpeningFails, world, policy,
     opening
<1>10. PassedWasClean'
  BY <1>0, <1>a, FreeSlot DEF PassedWasClean, ObserverTypeOK, Call, OpeningFails,
     world, policy, opening
<1>11. GenerationBehind'
  BY <1>0, <1>a, FreeSlot DEF GenerationBehind, ObserverTypeOK, Scans, OpeningFails,
     world, policy, opening
<1> QED
  BY <1>1, <1>2, <1>3, <1>4, <1>5, <1>6, <1>7, <1>8, <1>9, <1>10, <1>11 DEF ObserverInv

LEMMA EntryStep ==
  ASSUME ObserverInv, NEW f \in Files, ScanEntry(f)
  PROVE  ObserverInv'
<1>0. /\ ObserverTypeOK /\ OpenedInOrder /\ PollIsOwned /\ ReadsBehind /\ Between
      /\ BaselineIsOneMoment /\ BaselineBehind /\ StaysChanged /\ ChangeAhead
      /\ PassedWasClean /\ GenerationBehind
  BY DEF ObserverInv
<1>a. /\ scan' \in Scans
      /\ scan'.role = scan.role /\ scan'.contents = scan.contents
      /\ scan'.todo = scan.todo \ {f}
      /\ scan.role # "check" =>
           \A g \in Files :
             IF g = f THEN /\ scan'.got[g].meta = tree[f].meta
                           /\ scan'.got[g].data \in {0, tree[f].data}
                      ELSE scan'.got[g] = scan.got[g]
      /\ scan'.same => scan.same
      /\ scan'.same /\ scan.role = "check" => SameEntry(scan.contents, tree[f], baseline[f])
      /\ scan'.torn = scan.torn /\ scan'.generation = scan.generation
  BY <1>0, AdvancedSlot
<1>b. /\ Running /\ ~scan.torn /\ f \in scan.todo
      /\ UNCHANGED <<world, policy, opening, handle, pending, generation, aborted, timer, call>>
  BY DEF ScanEntry
<1>1. ObserverTypeOK'
  BY <1>0, <1>a, <1>b, FreeSlot DEF ObserverTypeOK, Boundaries, Call, Running, world,
     policy, opening
<1>2. OpenedInOrder'
  BY <1>0, <1>a, <1>b, FreeSlot DEF OpenedInOrder, ObserverTypeOK, PollIsOwned, Asked,
     Initialized, NoTree, Unread, Call, Running, world, policy, opening
<1>3. PollIsOwned'
  BY <1>0, <1>a, <1>b, FreeSlot DEF PollIsOwned, ObserverTypeOK, OpenedInOrder,
     Running, world, policy, opening
<1>4. ReadsBehind'
  <2> SUFFICES ASSUME scan.role \in {"before", "baseline"}, NEW g \in Files \ scan'.todo
               PROVE  /\ 0 <= scan'.got[g].meta /\ scan'.got[g].meta <= tree[g].meta
                      /\ 0 <= scan'.got[g].data /\ scan'.got[g].data <= tree[g].data
    BY <1>a, <1>b DEF ReadsBehind, world
  <2>1. tree[g] \in [meta : Nat, data : Nat] BY <1>0 DEF ObserverTypeOK
  <2>2. CASE g = f BY <1>a, <2>1, <2>2
  <2>3. CASE g # f
    <3>1. g \in Files \ scan.todo /\ scan'.got[g] = scan.got[g] BY <1>a, <2>3
    <3> QED BY <1>0, <1>b, <3>1 DEF ReadsBehind
  <2> QED BY <2>2, <2>3
<1>5. Between'
  BY <1>0, <1>a, <1>b, FreeSlot DEF Between, ObserverTypeOK, ReadsBehind,
     OpenedInOrder, Scans, Entries, Running, world, policy, opening
<1>6. BaselineIsOneMoment'
  BY <1>0, <1>a, <1>b, FreeSlot DEF BaselineIsOneMoment, SameMeta, Same, SameEntry,
     OpenedInOrder, Running, world, policy, opening
<1>7. BaselineBehind'
  BY <1>0, <1>a, <1>b, FreeSlot DEF BaselineBehind, ObserverTypeOK, Initialized,
     Entries, OpenedInOrder, Running, world, policy, opening
<1>8. StaysChanged'
  BY <1>0, <1>a, <1>b, FreeSlot DEF StaysChanged, ObserverTypeOK, Asked, Call, Differs,
     ByContent, Running, world, policy, opening
<1>9. ChangeAhead'
  BY <1>0, <1>a, <1>b, FreeSlot DEF ChangeAhead, ObserverTypeOK, Scans, Adequate,
     Differs, ByContent, SameEntry, Running, world, policy, opening
<1>10. PassedWasClean'
  BY <1>0, <1>a, <1>b, FreeSlot DEF PassedWasClean, ObserverTypeOK, Call, Running,
     world, policy, opening
<1>11. GenerationBehind'
  BY <1>0, <1>a, <1>b, FreeSlot DEF GenerationBehind, ObserverTypeOK, Scans, Running,
     world, policy, opening
<1> QED
  BY <1>1, <1>2, <1>3, <1>4, <1>5, <1>6, <1>7, <1>8, <1>9, <1>10, <1>11 DEF ObserverInv

LEMMA EventStep ==
  ASSUME ObserverInv, FileEvent
  PROVE  ObserverInv'
<1>0. /\ ObserverTypeOK /\ OpenedInOrder /\ PollIsOwned /\ ReadsBehind /\ Between
      /\ BaselineIsOneMoment /\ BaselineBehind /\ StaysChanged /\ ChangeAhead
      /\ PassedWasClean /\ GenerationBehind
  BY DEF ObserverInv
<1>a. /\ scan' \in Scans
      /\ \/ scan' = scan
         \/ scan.role = "none" /\ scan'.role = "queued" /\ scan'.generation = 0
  <2>1. Checked(FALSE) \/ UNCHANGED scan BY DEF FileEvent
  <2>2. JoinsOrQueues \/ UNCHANGED scan BY <1>0, <2>1, JoinOrQueueMetadata
  <2> QED BY <1>0, <2>2 DEF JoinsOrQueues, ObserverTypeOK
<1>1. ObserverTypeOK'
  BY <1>0, <1>a DEF ObserverTypeOK, Boundaries, Call, FileEvent, Closed, world, policy,
     opening
<1>2. OpenedInOrder'
  BY <1>0, <1>a DEF OpenedInOrder, ObserverTypeOK, PollIsOwned, Asked, Initialized,
     NoTree, Unread, Call, FileEvent, Closed, world, policy, opening
<1>3. PollIsOwned'
  BY <1>0, <1>a DEF PollIsOwned, ObserverTypeOK, OpenedInOrder, FileEvent, Closed,
     world, policy, opening
<1>4. ReadsBehind'
  BY <1>0, <1>a DEF ReadsBehind, ObserverTypeOK, Scans, Entries, FileEvent, Closed,
     world, policy, opening
<1>5. Between'
  BY <1>0, <1>a DEF Between, ObserverTypeOK, ReadsBehind, OpenedInOrder, Scans,
     Entries, FileEvent, Closed, world, policy, opening
<1>6. BaselineIsOneMoment'
  BY <1>0, <1>a DEF BaselineIsOneMoment, SameMeta, Same, SameEntry, OpenedInOrder,
     FileEvent, Closed, world, policy, opening
<1>7. BaselineBehind'
  BY <1>0, <1>a DEF BaselineBehind, ObserverTypeOK, Initialized, Entries,
     OpenedInOrder, FileEvent, Closed, world, policy, opening
<1>8. StaysChanged'
  BY <1>0, <1>a DEF StaysChanged, ObserverTypeOK, Asked, Call, Differs, ByContent,
     FileEvent, Closed, world, policy, opening
<1>9. ChangeAhead'
  BY <1>0, <1>a DEF ChangeAhead, ObserverTypeOK, StaysChanged, Asked, Call, Adequate,
     Differs, ByContent, GenerationBehind, FileEvent, Closed, world, policy, opening
<1>10. PassedWasClean'
  BY <1>0, <1>a DEF PassedWasClean, ObserverTypeOK, Call, FileEvent, Closed, world,
     policy, opening
<1>11. GenerationBehind'
  BY <1>0, <1>a DEF GenerationBehind, ObserverTypeOK, Scans, FileEvent, Closed, world,
     policy, opening
<1> QED
  BY <1>1, <1>2, <1>3, <1>4, <1>5, <1>6, <1>7, <1>8, <1>9, <1>10, <1>11 DEF ObserverInv

LEMMA PollStep ==
  ASSUME ObserverInv, Poll
  PROVE  ObserverInv'
<1>0. /\ ObserverTypeOK /\ OpenedInOrder /\ PollIsOwned /\ ReadsBehind /\ Between
      /\ BaselineIsOneMoment /\ BaselineBehind /\ StaysChanged /\ ChangeAhead
      /\ PassedWasClean /\ GenerationBehind
  BY DEF ObserverInv
<1>a. /\ scan' \in Scans
      /\ \/ scan' = scan
         \/ scan.role = "none" /\ scan'.role = "queued" /\ scan'.generation = 0
  <2>1. Checked(FALSE) \/ UNCHANGED scan BY DEF Poll
  <2>2. JoinsOrQueues \/ UNCHANGED scan BY <1>0, <2>1, JoinOrQueueMetadata
  <2> QED BY <1>0, <2>2 DEF JoinsOrQueues, ObserverTypeOK
<1>b. scan'.role \in {"queued", "check"}
  <2>1. Checked(FALSE) BY DEF Poll
  <2>2. JoinsOrQueues BY <1>0, <2>1, JoinOrQueueMetadata
  <2>3. handle = "open" BY <1>0 DEF Poll, PollIsOwned
  <2> QED BY <1>0, <2>2, <2>3 DEF JoinsOrQueues, ObserverTypeOK, Scans, OpenedInOrder
<1>1. ObserverTypeOK'
  BY <1>0, <1>a, <1>b DEF ObserverTypeOK, Boundaries, Call, Poll, world, policy, opening
<1>2. OpenedInOrder'
  BY <1>0, <1>a, <1>b DEF OpenedInOrder, ObserverTypeOK, PollIsOwned, Asked,
     Initialized, NoTree, Unread, Call, Poll, world, policy, opening
<1>3. PollIsOwned'
  BY <1>0, <1>a, <1>b DEF PollIsOwned, ObserverTypeOK, OpenedInOrder, Poll, world,
     policy, opening
<1>4. ReadsBehind'
  BY <1>0, <1>a, <1>b DEF ReadsBehind, ObserverTypeOK, Scans, Entries, Poll, world,
     policy, opening
<1>5. Between'
  BY <1>0, <1>a, <1>b DEF Between, ObserverTypeOK, ReadsBehind, OpenedInOrder, Scans,
     Entries, Poll, world, policy, opening
<1>6. BaselineIsOneMoment'
  BY <1>0, <1>a, <1>b DEF BaselineIsOneMoment, SameMeta, Same, SameEntry,
     OpenedInOrder, Poll, world, policy, opening
<1>7. BaselineBehind'
  BY <1>0, <1>a, <1>b DEF BaselineBehind, ObserverTypeOK, Initialized, Entries,
     OpenedInOrder, Poll, world, policy, opening
<1>8. StaysChanged'
  BY <1>0, <1>a, <1>b DEF StaysChanged, ObserverTypeOK, Asked, Call, Differs,
     ByContent, Poll, world, policy, opening
<1>9. ChangeAhead'
  BY <1>0, <1>a, <1>b DEF ChangeAhead, ObserverTypeOK, StaysChanged, Asked, Call,
     Adequate, Differs, ByContent, GenerationBehind, Poll, world, policy, opening
<1>10. PassedWasClean'
  BY <1>0, <1>a, <1>b DEF PassedWasClean, ObserverTypeOK, Call, Poll, world, policy,
     opening
<1>11. GenerationBehind'
  BY <1>0, <1>a, <1>b DEF GenerationBehind, ObserverTypeOK, Scans, Poll, world, policy,
     opening
<1> QED
  BY <1>1, <1>2, <1>3, <1>4, <1>5, <1>6, <1>7, <1>8, <1>9, <1>10, <1>11 DEF ObserverInv

LEMMA AskStep ==
  ASSUME ObserverInv, NEW c \in Calls, AssertUnchanged(c)
  PROVE  ObserverInv'
<1>0. /\ ObserverTypeOK /\ OpenedInOrder /\ PollIsOwned /\ ReadsBehind /\ Between
      /\ BaselineIsOneMoment /\ BaselineBehind /\ StaysChanged /\ ChangeAhead
      /\ PassedWasClean /\ GenerationBehind
  BY DEF ObserverInv
<1>a. /\ scan' \in Scans
      /\ \/ scan' = scan
         \/ scan.role = "none" /\ scan'.role = "queued" /\ scan'.generation = 0
  <2>1. Checked(ByContent) \/ UNCHANGED scan BY DEF AssertUnchanged
  <2>2. JoinsOrQueues \/ UNCHANGED scan BY <1>0, <2>1, JoinOrQueueCompared
  <2> QED BY <1>0, <2>2 DEF JoinsOrQueues, ObserverTypeOK
<1>b. \E answered \in Boundaries :
        /\ call' = [call EXCEPT ![c] = answered]
        /\ answered.state \notin {"passed", "idle"}
        /\ answered.state \in {"waiting", "again", "passed"} =>
             Initialized /\ answered.requested = generation + 1 /\ ~Stopped
             /\ (~answered.clean => \E f \in Files : Differs(f))
  <2>1. CASE Stopped
    <3>1. Call("refused") \in Boundaries /\ Call("refused").state = "refused"
      BY DEF Call, Boundaries
    <3> QED BY <2>1, <3>1 DEF AssertUnchanged
  <2>2. CASE ~Stopped
    <3> DEFINE asked == [state |-> "waiting", requested |-> generation + 1, clean |-> Intact]
    <3>1. asked \in Boundaries
      BY <1>0 DEF ObserverTypeOK, Boundaries, Intact, Initialized, Same, SameEntry
    <3>2. call' = [call EXCEPT ![c] = asked] BY <2>2 DEF AssertUnchanged
    <3>3. ~asked.clean => \E f \in Files : Differs(f)
      BY DEF Intact, Same, SameEntry, Differs, ByContent
    <3>4. asked.state = "waiting" /\ asked.requested = generation + 1 OBVIOUS
    <3>5. Initialized BY DEF AssertUnchanged
    <3> HIDE DEF asked
    <3> QED BY <2>2, <3>1, <3>2, <3>3, <3>4, <3>5
  <2> QED BY <2>1, <2>2
<1>c. PICK answered \in Boundaries :
        /\ call' = [call EXCEPT ![c] = answered]
        /\ answered.state \notin {"passed", "idle"}
        /\ answered.state \in {"waiting", "again", "passed"} =>
             Initialized /\ answered.requested = generation + 1 /\ ~Stopped
             /\ (~answered.clean => \E f \in Files : Differs(f))
  BY <1>b
<1>d. /\ generation' = generation + 1
      /\ handle \in {"open", "closing"} /\ Initialized
      /\ UNCHANGED <<world, policy, opening, handle, pending, aborted, timer>>
      /\ Stopped => scan' = scan
  BY DEF AssertUnchanged
<1>1. ObserverTypeOK'
  BY <1>0, <1>a, <1>c, <1>d DEF ObserverTypeOK, Boundaries, world, policy, opening,
     Stopped, Closed
<1>2. OpenedInOrder'
  BY <1>0, <1>a, <1>c, <1>d DEF OpenedInOrder, ObserverTypeOK, PollIsOwned, Asked,
     Initialized, NoTree, Unread, Call, world, policy, opening, Stopped, Closed
<1>3. PollIsOwned'
  BY <1>0, <1>a, <1>c, <1>d DEF PollIsOwned, ObserverTypeOK, OpenedInOrder, world,
     policy, opening, Stopped, Closed
<1>4. ReadsBehind'
  BY <1>0, <1>a, <1>c, <1>d DEF ReadsBehind, ObserverTypeOK, Scans, Entries, world,
     policy, opening, Stopped, Closed
<1>5. Between'
  BY <1>0, <1>a, <1>c, <1>d DEF Between, ObserverTypeOK, ReadsBehind, OpenedInOrder,
     Scans, Entries, world, policy, opening, Stopped, Closed
<1>6. BaselineIsOneMoment'
  BY <1>0, <1>a, <1>c, <1>d DEF BaselineIsOneMoment, SameMeta, Same, SameEntry,
     OpenedInOrder, world, policy, opening, Stopped, Closed
<1>7. BaselineBehind'
  BY <1>0, <1>a, <1>c, <1>d DEF BaselineBehind, ObserverTypeOK, Initialized, Entries,
     OpenedInOrder, world, policy, opening, Stopped, Closed
<1>8. StaysChanged'
  BY <1>0, <1>a, <1>c, <1>d DEF StaysChanged, ObserverTypeOK, Asked, Call, Differs,
     ByContent, world, policy, opening, Stopped, Closed
<1>9. ChangeAhead'
  BY <1>0, <1>a, <1>c, <1>d DEF ChangeAhead, ObserverTypeOK, Boundaries, Scans,
     Adequate, Differs, ByContent, GenerationBehind, world, policy, opening, Stopped,
     Closed
<1>10. PassedWasClean'
  BY <1>0, <1>a, <1>c, <1>d DEF PassedWasClean, ObserverTypeOK, world, policy, opening
<1>11. GenerationBehind'
  BY <1>0, <1>a, <1>c, <1>d DEF GenerationBehind, ObserverTypeOK, Scans, world, policy,
     opening, Stopped, Closed
<1> QED
  BY <1>1, <1>2, <1>3, <1>4, <1>5, <1>6, <1>7, <1>8, <1>9, <1>10, <1>11 DEF ObserverInv

LEMMA ResumeStep ==
  ASSUME ObserverInv, NEW c \in Calls, Resume(c)
  PROVE  ObserverInv'
<1>0. /\ ObserverTypeOK /\ OpenedInOrder /\ PollIsOwned /\ ReadsBehind /\ Between
      /\ BaselineIsOneMoment /\ BaselineBehind /\ StaysChanged /\ ChangeAhead
      /\ PassedWasClean /\ GenerationBehind
  BY DEF ObserverInv
<1>a. /\ scan' \in Scans
      /\ \/ scan' = scan
         \/ scan.role = "none" /\ scan'.role = "queued" /\ scan'.generation = 0
  <2>1. Checked(ByContent) \/ UNCHANGED scan BY DEF Resume
  <2>2. JoinsOrQueues \/ UNCHANGED scan BY <1>0, <2>1, JoinOrQueueCompared
  <2> QED BY <1>0, <2>2 DEF JoinsOrQueues, ObserverTypeOK
<1>b. \E answered \in Boundaries :
        /\ call' = [call EXCEPT ![c] = answered]
        /\ answered.state \notin {"passed", "idle"}
        /\ answered.state \in {"waiting", "again", "passed"} =>
             call[c].state = "again" /\ ~Stopped /\ answered.clean = call[c].clean
             /\ answered.requested = call[c].requested
  <2>0. /\ Call("refused") \in Boundaries /\ Call("refused").state = "refused"
        /\ Call("ok") \in Boundaries /\ Call("ok").state = "ok"
    BY DEF Call, Boundaries
  <2>1. CASE Stopped BY <2>0, <2>1 DEF Resume
  <2>2. CASE ~Stopped /\ call[c].state = "passed" BY <2>0, <2>2 DEF Resume
  <2>3. CASE ~Stopped /\ call[c].state = "again"
    <3> DEFINE again == [call[c] EXCEPT !.state = "waiting"]
    <3>1. call[c] \in Boundaries BY <1>0 DEF ObserverTypeOK
    <3>2. /\ again \in Boundaries /\ again.state = "waiting" /\ again.clean = call[c].clean
          /\ again.requested = call[c].requested
      BY <3>1 DEF Boundaries
    <3>3. call' = [call EXCEPT ![c] = again] BY <2>3 DEF Resume
    <3> HIDE DEF again
    <3> QED BY <2>3, <3>2, <3>3
  <2> QED BY <2>1, <2>2, <2>3 DEF Resume
<1>c. PICK answered \in Boundaries :
        /\ call' = [call EXCEPT ![c] = answered]
        /\ answered.state \notin {"passed", "idle"}
        /\ answered.state \in {"waiting", "again", "passed"} =>
             call[c].state = "again" /\ ~Stopped /\ answered.clean = call[c].clean
             /\ answered.requested = call[c].requested
  BY <1>b
<1>d. /\ call[c].state \in {"passed", "again"}
      /\ UNCHANGED <<world, policy, opening, handle, pending, generation, aborted, timer>>
      /\ Stopped => scan' = scan
  BY DEF Resume
<1>1. ObserverTypeOK'
  BY <1>0, <1>a, <1>c, <1>d DEF ObserverTypeOK, Boundaries, world, policy, opening,
     Stopped, Closed
<1>2. OpenedInOrder'
  BY <1>0, <1>a, <1>c, <1>d DEF OpenedInOrder, ObserverTypeOK, PollIsOwned, Asked,
     Initialized, NoTree, Unread, Call, world, policy, opening, Stopped, Closed
<1>3. PollIsOwned'
  BY <1>0, <1>a, <1>c, <1>d DEF PollIsOwned, ObserverTypeOK, OpenedInOrder, world,
     policy, opening, Stopped, Closed
<1>4. ReadsBehind'
  BY <1>0, <1>a, <1>c, <1>d DEF ReadsBehind, ObserverTypeOK, Scans, Entries, world,
     policy, opening, Stopped, Closed
<1>5. Between'
  BY <1>0, <1>a, <1>c, <1>d DEF Between, ObserverTypeOK, ReadsBehind, OpenedInOrder,
     Scans, Entries, world, policy, opening, Stopped, Closed
<1>6. BaselineIsOneMoment'
  BY <1>0, <1>a, <1>c, <1>d DEF BaselineIsOneMoment, SameMeta, Same, SameEntry,
     OpenedInOrder, world, policy, opening, Stopped, Closed
<1>7. BaselineBehind'
  BY <1>0, <1>a, <1>c, <1>d DEF BaselineBehind, ObserverTypeOK, Initialized, Entries,
     OpenedInOrder, world, policy, opening, Stopped, Closed
<1>8. StaysChanged'
  BY <1>0, <1>a, <1>c, <1>d DEF StaysChanged, ObserverTypeOK, Asked, Call, Differs,
     ByContent, world, policy, opening, Stopped, Closed
<1>9. ChangeAhead'
  BY <1>0, <1>a, <1>c, <1>d DEF ChangeAhead, ObserverTypeOK, Boundaries, Scans,
     Adequate, Differs, ByContent, GenerationBehind, world, policy, opening, Stopped,
     Closed
<1>10. PassedWasClean'
  BY <1>0, <1>a, <1>c, <1>d DEF PassedWasClean, ObserverTypeOK, world, policy, opening
<1>11. GenerationBehind'
  BY <1>0, <1>a, <1>c, <1>d DEF GenerationBehind, ObserverTypeOK, Scans, world, policy,
     opening, Stopped, Closed
<1> QED
  BY <1>1, <1>2, <1>3, <1>4, <1>5, <1>6, <1>7, <1>8, <1>9, <1>10, <1>11 DEF ObserverInv

LEMMA CancelStep ==
  ASSUME ObserverInv, Cancel
  PROVE  ObserverInv'
<1>0. /\ ObserverTypeOK /\ OpenedInOrder /\ PollIsOwned /\ ReadsBehind /\ Between
      /\ BaselineIsOneMoment /\ BaselineBehind /\ StaysChanged /\ ChangeAhead
      /\ PassedWasClean /\ GenerationBehind
  BY DEF ObserverInv
<1>a. scan' \in Scans /\ scan'.role = scan.role /\ scan'.generation = scan.generation
      /\ (scan' = scan \/ scan'.torn = TRUE)
  BY <1>0, SpoiledSlot DEF ObserverTypeOK, Cancel
<1>b. /\ ~Closed /\ timer' \in {timer, "off"} /\ (timer = "armed" => timer' = "off")
      /\ aborted' \in {"no", "changed", "failed"}
      /\ UNCHANGED <<world, policy, opening, handle, pending, generation, call>>
  BY <1>0 DEF Cancel, Abort, Latched, Cleared, ObserverTypeOK
<1>1. ObserverTypeOK'
  BY <1>0, <1>a, <1>b DEF ObserverTypeOK, Boundaries, Call, Closed, world, policy,
     opening
<1>2. OpenedInOrder'
  BY <1>0, <1>a, <1>b DEF OpenedInOrder, ObserverTypeOK, PollIsOwned, Asked,
     Initialized, NoTree, Unread, Call, Closed, world, policy, opening
<1>3. PollIsOwned'
  BY <1>0, <1>a, <1>b DEF PollIsOwned, ObserverTypeOK, OpenedInOrder, Closed, world,
     policy, opening
<1>4. ReadsBehind'
  BY <1>0, <1>a, <1>b DEF ReadsBehind, ObserverTypeOK, Scans, Entries, Closed, world,
     policy, opening
<1>5. Between'
  BY <1>0, <1>a, <1>b DEF Between, ObserverTypeOK, ReadsBehind, OpenedInOrder, Scans,
     Entries, Closed, world, policy, opening
<1>6. BaselineIsOneMoment'
  BY <1>0, <1>a, <1>b DEF BaselineIsOneMoment, SameMeta, Same, SameEntry,
     OpenedInOrder, Closed, world, policy, opening
<1>7. BaselineBehind'
  BY <1>0, <1>a, <1>b DEF BaselineBehind, ObserverTypeOK, Initialized, Entries,
     OpenedInOrder, Closed, world, policy, opening
<1>8. StaysChanged'
  BY <1>0, <1>a, <1>b DEF StaysChanged, ObserverTypeOK, Asked, Call, Differs,
     ByContent, Closed, world, policy, opening
<1>9. ChangeAhead'
  BY <1>0, <1>a, <1>b DEF ChangeAhead, ObserverTypeOK, Scans, Adequate, Differs,
     ByContent, Closed, world, policy, opening
<1>10. PassedWasClean'
  BY <1>0, <1>a, <1>b DEF PassedWasClean, ObserverTypeOK, Call, Closed, world, policy,
     opening
<1>11. GenerationBehind'
  BY <1>0, <1>a, <1>b DEF GenerationBehind, ObserverTypeOK, Scans, Closed, world,
     policy, opening
<1> QED
  BY <1>1, <1>2, <1>3, <1>4, <1>5, <1>6, <1>7, <1>8, <1>9, <1>10, <1>11 DEF ObserverInv

LEMMA CloseStep ==
  ASSUME ObserverInv, Close
  PROVE  ObserverInv'
<1>0. /\ ObserverTypeOK /\ OpenedInOrder /\ PollIsOwned /\ ReadsBehind /\ Between
      /\ BaselineIsOneMoment /\ BaselineBehind /\ StaysChanged /\ ChangeAhead
      /\ PassedWasClean /\ GenerationBehind
  BY DEF ObserverInv
<1>1. ObserverTypeOK'
  BY <1>0 DEF ObserverTypeOK, Boundaries, Call, Close, Cleared, world, policy, opening
<1>2. OpenedInOrder'
  BY <1>0 DEF OpenedInOrder, ObserverTypeOK, PollIsOwned, Asked, Initialized, NoTree,
     Unread, Call, Close, Cleared, world, policy, opening
<1>3. PollIsOwned'
  BY <1>0 DEF PollIsOwned, ObserverTypeOK, OpenedInOrder, Close, Cleared, world,
     policy, opening
<1>4. ReadsBehind'
  BY <1>0 DEF ReadsBehind, ObserverTypeOK, Scans, Entries, Close, Cleared, world,
     policy, opening
<1>5. Between'
  BY <1>0 DEF Between, ObserverTypeOK, ReadsBehind, OpenedInOrder, Scans, Entries,
     Close, Cleared, world, policy, opening
<1>6. BaselineIsOneMoment'
  BY <1>0 DEF BaselineIsOneMoment, SameMeta, Same, SameEntry, OpenedInOrder, Close,
     Cleared, world, policy, opening
<1>7. BaselineBehind'
  BY <1>0 DEF BaselineBehind, ObserverTypeOK, Initialized, Entries, OpenedInOrder,
     Close, Cleared, world, policy, opening
<1>8. StaysChanged'
  BY <1>0 DEF StaysChanged, ObserverTypeOK, Asked, Call, Differs, ByContent, Close,
     Cleared, world, policy, opening
<1>9. ChangeAhead'
  BY <1>0 DEF ChangeAhead, ObserverTypeOK, StaysChanged, Asked, Call, Adequate,
     Differs, ByContent, GenerationBehind, Close, Cleared, world, policy, opening
<1>10. PassedWasClean'
  BY <1>0 DEF PassedWasClean, ObserverTypeOK, Call, Close, Cleared, world, policy,
     opening
<1>11. GenerationBehind'
  BY <1>0 DEF GenerationBehind, ObserverTypeOK, Scans, Close, Cleared, world, policy,
     opening
<1> QED
  BY <1>1, <1>2, <1>3, <1>4, <1>5, <1>6, <1>7, <1>8, <1>9, <1>10, <1>11 DEF ObserverInv

LEMMA CloseEndsStep ==
  ASSUME ObserverInv, CloseEnds
  PROVE  ObserverInv'
<1>0. /\ ObserverTypeOK /\ OpenedInOrder /\ PollIsOwned /\ ReadsBehind /\ Between
      /\ BaselineIsOneMoment /\ BaselineBehind /\ StaysChanged /\ ChangeAhead
      /\ PassedWasClean /\ GenerationBehind
  BY DEF ObserverInv
<1>1. ObserverTypeOK'
  BY <1>0 DEF ObserverTypeOK, Boundaries, Call, CloseEnds, world, policy, opening
<1>2. OpenedInOrder'
  BY <1>0 DEF OpenedInOrder, ObserverTypeOK, PollIsOwned, Asked, Initialized, NoTree,
     Unread, Call, CloseEnds, world, policy, opening
<1>3. PollIsOwned'
  BY <1>0 DEF PollIsOwned, ObserverTypeOK, OpenedInOrder, CloseEnds, world, policy,
     opening
<1>4. ReadsBehind'
  BY <1>0 DEF ReadsBehind, ObserverTypeOK, Scans, Entries, CloseEnds, world, policy,
     opening
<1>5. Between'
  BY <1>0 DEF Between, ObserverTypeOK, ReadsBehind, OpenedInOrder, Scans, Entries,
     CloseEnds, world, policy, opening
<1>6. BaselineIsOneMoment'
  BY <1>0 DEF BaselineIsOneMoment, SameMeta, Same, SameEntry, OpenedInOrder, CloseEnds,
     world, policy, opening
<1>7. BaselineBehind'
  BY <1>0 DEF BaselineBehind, ObserverTypeOK, Initialized, Entries, OpenedInOrder,
     CloseEnds, world, policy, opening
<1>8. StaysChanged'
  BY <1>0 DEF StaysChanged, ObserverTypeOK, Asked, Call, Differs, ByContent, CloseEnds,
     world, policy, opening
<1>9. ChangeAhead'
  BY <1>0 DEF ChangeAhead, ObserverTypeOK, StaysChanged, Asked, Call, Adequate,
     Differs, ByContent, GenerationBehind, CloseEnds, world, policy, opening
<1>10. PassedWasClean'
  BY <1>0 DEF PassedWasClean, ObserverTypeOK, Call, CloseEnds, world, policy, opening
<1>11. GenerationBehind'
  BY <1>0 DEF GenerationBehind, ObserverTypeOK, Scans, CloseEnds, world, policy, opening
<1> QED
  BY <1>1, <1>2, <1>3, <1>4, <1>5, <1>6, <1>7, <1>8, <1>9, <1>10, <1>11 DEF ObserverInv

\* The scans of the opening are not newer than the tree, and nobody waits yet.
LEMMA ReadWhole ==
  ASSUME ObserverInv, scan.role \in {"before", "baseline"}, scan.todo = {}, ~scan.torn
  PROVE  /\ scan.got \in [Files -> Entries]
         /\ \A f \in Files :
              /\ 0 <= scan.got[f].meta /\ scan.got[f].meta <= tree[f].meta
              /\ 0 <= scan.got[f].data /\ scan.got[f].data <= tree[f].data
         /\ handle = "opening" /\ timer = "off"
         /\ \A c \in Calls : ~Asked(c)
BY DEF ObserverInv, ObserverTypeOK, Scans, ReadsBehind, OpenedInOrder, Initialized

\* Adopting a baseline that is not newer than the tree and, when the handle was
\* not reopened, agrees with the moment.
LEMMA Adopted ==
  ASSUME ObserverInv, NEW found \in [Files -> Entries], Baseline(found),
         \A f \in Files :
           /\ 0 <= found[f].meta /\ found[f].meta <= tree[f].meta
           /\ 0 <= found[f].data /\ found[f].data <= tree[f].data,
         handle = "opening", timer = "off", \A c \in Calls : ~Asked(c),
         UNCHANGED <<world, policy, pending, generation, call>>,
         before' \in [Files -> Entries],
         moment' \in [Files -> [meta : Nat, data : Nat]],
         reopened => moment' = Prepared,
         ~reopened => SameMeta(found, moment')
  PROVE  ObserverInv'
<1>0. /\ ObserverTypeOK /\ OpenedInOrder /\ PollIsOwned /\ ReadsBehind /\ Between
      /\ BaselineIsOneMoment /\ BaselineBehind /\ StaysChanged /\ ChangeAhead
      /\ PassedWasClean /\ GenerationBehind
  BY DEF ObserverInv
<1>a. baseline' = found /\ Initialized'
  <2>1. baseline' = found BY DEF Baseline
  <2>2. PICK f \in Files : TRUE BY ObserverAssumption
  <2>3. found[f].meta # NoTree[f].meta BY <2>2 DEF NoTree, Unread, Entries
  <2> QED BY <2>1, <2>3 DEF Initialized, NoTree
<1>b. \/ scan' = NoScan /\ handle' = "closing" /\ timer' = "off" /\ aborted' \in {"no", "changed", "failed"}
      \/ /\ scan' \in Scans /\ scan'.role = "queued" /\ scan'.generation = 0
         /\ handle' = "settling" /\ timer' = "off" /\ aborted' = aborted
         /\ (reopened => Same(ByContent, found, Prepared))
      \/ /\ scan' = NoScan /\ handle' = "open" /\ timer' = "armed" /\ aborted' = aborted
         /\ (reopened => Same(ByContent, found, Prepared))
  <2>1. /\ [NoScan EXCEPT !.role = "queued"] \in Scans
        /\ [NoScan EXCEPT !.role = "queued"].role = "queued"
        /\ [NoScan EXCEPT !.role = "queued"].generation = 0
    BY FreeSlot DEF NoScan, Scans
  <2>2. aborted \in {"no", "changed", "failed"} BY <1>0 DEF ObserverTypeOK
  <2>3. CASE reopened /\ ~Same(ByContent, found, Prepared)
    BY <2>2, <2>3 DEF Baseline, Abort, Latched, Cleared
  <2>4. CASE ~(reopened /\ ~Same(ByContent, found, Prepared)) /\ pending
    BY <2>1, <2>4 DEF Baseline
  <2>5. CASE ~(reopened /\ ~Same(ByContent, found, Prepared)) /\ ~pending
    BY <2>5 DEF Baseline
  <2> QED BY <2>3, <2>4, <2>5
<1>c. handle' \in {"settling", "open"} => SameMeta(found, moment')
  <2>1. reopened => (handle' \in {"settling", "open"} => SameMeta(found, Prepared))
    BY <1>b DEF Same, SameEntry, SameMeta
  <2> QED BY <2>1
<1>d. /\ generation \in Nat /\ scan' \in Scans /\ scan'.generation = 0
      /\ scan'.role \in {"none", "queued"} /\ \A c \in Calls : ~Asked(c)'
  BY <1>0, <1>b, FreeSlot DEF ObserverTypeOK, Asked
<1>1. ObserverTypeOK' BY <1>0, <1>a, <1>b, <1>d DEF ObserverTypeOK, world, policy
<1>2. OpenedInOrder' BY <1>a, <1>b, <1>d, FreeSlot DEF OpenedInOrder
<1>3. PollIsOwned' BY <1>b, FreeSlot DEF PollIsOwned
<1>4. ReadsBehind' BY <1>d DEF ReadsBehind
<1>5. Between' BY <1>d DEF Between, policy
<1>6. BaselineIsOneMoment'
  BY <1>a, <1>c DEF BaselineIsOneMoment, SameMeta, Same, SameEntry
<1>7. BaselineBehind' BY <1>a DEF BaselineBehind, world
<1>8. StaysChanged' BY <1>d DEF StaysChanged
<1>9. ChangeAhead' BY <1>d DEF ChangeAhead
<1>10. PassedWasClean' BY <1>0 DEF PassedWasClean
<1>11. GenerationBehind' BY <1>d DEF GenerationBehind
<1> QED
  BY <1>1, <1>2, <1>3, <1>4, <1>5, <1>6, <1>7, <1>8, <1>9, <1>10, <1>11 DEF ObserverInv

LEMMA BeforeStep ==
  ASSUME ObserverInv, BeforeEnds
  PROVE  ObserverInv'
<1>0. /\ ObserverTypeOK /\ OpenedInOrder /\ PollIsOwned /\ ReadsBehind /\ Between
      /\ BaselineIsOneMoment /\ BaselineBehind /\ StaysChanged /\ ChangeAhead
      /\ PassedWasClean /\ GenerationBehind
  BY DEF ObserverInv
<1>a. /\ scan.role = "before" /\ scan.todo = {} /\ ~scan.torn
      /\ before' = scan.got /\ moment' = IF reopened THEN moment ELSE tree
      /\ UNCHANGED <<world, policy, pending, generation, call>>
  BY DEF BeforeEnds
<1>b. /\ scan.got \in [Files -> Entries]
      /\ \A f \in Files :
           /\ 0 <= scan.got[f].meta /\ scan.got[f].meta <= tree[f].meta
           /\ 0 <= scan.got[f].data /\ scan.got[f].data <= tree[f].data
      /\ handle = "opening" /\ timer = "off"
      /\ \A c \in Calls : ~Asked(c)
  BY <1>a, ReadWhole
<1>c. /\ moment' \in [Files -> [meta : Nat, data : Nat]]
      /\ reopened => moment' = Prepared
  BY <1>0, <1>a DEF ObserverTypeOK, Between
<1>d. CASE ~ByContent /\ reopened
  <2>1. Baseline(scan.got) BY <1>d DEF BeforeEnds
  <2> QED BY <1>a, <1>b, <1>c, <1>d, <2>1, Adopted
<1>e. CASE ~(~ByContent /\ reopened)
  <2>a. UNCHANGED <<baseline, handle, aborted, timer>> /\ scan' = Traversal("baseline", TRUE, 0)
    BY <1>e DEF BeforeEnds
  <2>b. /\ scan' \in Scans /\ scan'.role = "baseline" /\ scan'.todo = Files
        /\ scan'.torn = FALSE /\ scan'.generation = 0
    BY <2>a, FreeSlot DEF Traversal, NoScan, Scans
  <2>c. \A c \in Calls : ~Asked(c)' BY <1>a, <1>b DEF Asked
  <2>1. ObserverTypeOK'
    BY <1>0, <1>a, <1>b, <1>c, <2>a, <2>b DEF ObserverTypeOK, world, policy
  <2>2. OpenedInOrder' BY <1>0, <1>b, <2>a, <2>b, <2>c DEF OpenedInOrder
  <2>3. PollIsOwned' BY <1>b, <2>a DEF PollIsOwned
  <2>4. ReadsBehind' BY <2>b DEF ReadsBehind
  <2>5. Between'
    <3>1. reopened' = reopened /\ tree' = tree /\ before' = scan.got
      BY <1>a DEF world, policy
    <3>2. ASSUME NEW f \in Files, ~reopened
          PROVE  before'[f].meta <= moment'[f].meta /\ moment'[f].meta <= tree'[f].meta
      <4>1. moment' = tree BY <1>a, <3>2
      <4>2. tree[f].meta \in Nat BY <1>0 DEF ObserverTypeOK
      <4> QED BY <1>b, <3>1, <4>1, <4>2
    <3> QED BY <1>c, <2>b, <3>1, <3>2 DEF Between
  <2>6. BaselineIsOneMoment' BY <1>b, <2>a DEF BaselineIsOneMoment
  <2>7. BaselineBehind' BY <1>0, <1>a, <2>a DEF BaselineBehind, Initialized, world
  <2>8. StaysChanged' BY <2>c DEF StaysChanged
  <2>9. ChangeAhead' BY <2>b DEF ChangeAhead
  <2>10. PassedWasClean' BY <1>0, <1>a DEF PassedWasClean
  <2>11. GenerationBehind' BY <1>0, <1>a, <2>b DEF GenerationBehind, ObserverTypeOK
  <2> QED
    BY <2>1, <2>2, <2>3, <2>4, <2>5, <2>6, <2>7, <2>8, <2>9, <2>10,
       <2>11 DEF ObserverInv
<1> QED BY <1>d, <1>e

LEMMA BaselineStep ==
  ASSUME ObserverInv, BaselineEnds
  PROVE  ObserverInv'
<1>0. /\ ObserverTypeOK /\ OpenedInOrder /\ PollIsOwned /\ ReadsBehind /\ Between
      /\ BaselineIsOneMoment /\ BaselineBehind /\ StaysChanged /\ ChangeAhead
      /\ PassedWasClean /\ GenerationBehind
  BY DEF ObserverInv
<1>a. /\ scan.role = "baseline" /\ scan.todo = {} /\ ~scan.torn
      /\ SameMeta(before, scan.got) /\ Baseline(scan.got)
      /\ before' = NoTree
      /\ UNCHANGED <<world, policy, moment, pending, generation, call>>
  BY DEF BaselineEnds
<1>b. /\ scan.got \in [Files -> Entries]
      /\ \A f \in Files :
           /\ 0 <= scan.got[f].meta /\ scan.got[f].meta <= tree[f].meta
           /\ 0 <= scan.got[f].data /\ scan.got[f].data <= tree[f].data
      /\ handle = "opening" /\ timer = "off"
      /\ \A c \in Calls : ~Asked(c)
  BY <1>a, ReadWhole
<1>c. /\ moment' \in [Files -> [meta : Nat, data : Nat]]
      /\ reopened => moment' = Prepared
  BY <1>0, <1>a DEF ObserverTypeOK, Between
<1>d. ~reopened => SameMeta(scan.got, moment')
  <2> SUFFICES ASSUME ~reopened, NEW f \in Files PROVE scan.got[f].meta = moment'[f].meta
    BY DEF SameMeta, Same, SameEntry
  <2>1. before[f].meta <= moment[f].meta /\ moment[f].meta <= scan.got[f].meta
    BY <1>0, <1>a DEF Between
  <2>2. before[f].meta = scan.got[f].meta BY <1>a DEF SameMeta, Same, SameEntry
  <2>3. before[f].meta \in Int /\ moment[f].meta \in Nat
    BY <1>0 DEF ObserverTypeOK, Entries
  <2> QED BY <1>a, <2>1, <2>2, <2>3
<1> QED BY <1>a, <1>b, <1>c, <1>d, FreeSlot, Adopted

LEMMA Stuttering == ASSUME ObserverInv, UNCHANGED vars PROVE ObserverInv'
BY DEF vars, world, policy, opening, ObserverInv, ObserverTypeOK, OpenedInOrder,
   PollIsOwned,
   ReadsBehind, Between, BaselineIsOneMoment, BaselineBehind, StaysChanged, ChangeAhead,
   PassedWasClean, GenerationBehind, Asked, Initialized, SameMeta, Same, SameEntry, Differs,
   ByContent, Adequate

LEMMA ObserverStep == ASSUME ObserverInv, [Next]_vars PROVE ObserverInv'
<1>1. CASE StartScan BY <1>1, StartStep
<1>2. CASE ScanFindsChange BY <1>2, ChangeStep
<1>3. CASE ScanAgain BY <1>3, AgainStep
<1>4. CASE ScanEnds BY <1>4, EndStep
<1>5. CASE BeforeEnds BY <1>5, BeforeStep
<1>6. CASE BaselineEnds BY <1>6, BaselineStep
<1>7. CASE OpeningTorn BY <1>7, OpeningFailsStep DEF OpeningTorn
<1>8. CASE \E f \in Files : ScanEntry(f) BY <1>8, EntryStep
<1>9. CASE ScanFails BY <1>9, FailStep
<1>10. CASE OpeningFails BY <1>10, OpeningFailsStep
<1>11. CASE FileEvent BY <1>11, EventStep
<1>12. CASE Poll BY <1>12, PollStep
<1>13. CASE Cancel BY <1>13, CancelStep
<1>14. CASE Close BY <1>14, CloseStep
<1>15. CASE CloseEnds BY <1>15, CloseEndsStep
<1>16. CASE \E f \in Files : Edit(f, FALSE) BY <1>16, EditStep
<1>17. CASE \E f \in Regular : Edit(f, TRUE) BY <1>17, EditStep, ObserverAssumption
<1>18. CASE \E c \in Calls : AssertUnchanged(c) BY <1>18, AskStep
<1>19. CASE \E c \in Calls : Resume(c) BY <1>19, ResumeStep
<1>20. CASE UNCHANGED vars BY <1>20, Stuttering
<1> QED
  BY <1>1, <1>2, <1>3, <1>4, <1>5, <1>6, <1>7, <1>8, <1>9, <1>10, <1>11, <1>12, <1>13,
     <1>14, <1>15, <1>16, <1>17, <1>18, <1>19, <1>20 DEF Next, ScanStep

\* Baseline, poll and boundaries stay as ObserverInv says, whoever edits the tree
\* and however the scans, the events and the calls interleave.
THEOREM ObserverInvariance == Spec => []ObserverInv
<1>1. Init => ObserverInv BY Begins
<1>2. ObserverInv /\ [Next]_vars => ObserverInv' BY ObserverStep
<1> QED BY <1>1, <1>2, PTL DEF Spec

\* The baseline of a handle that opened describes one moment of the tree.
THEOREM BaselineHolds == Spec => []BaselineIsOneMoment
<1>1. ObserverInv => BaselineIsOneMoment BY DEF ObserverInv
<1> QED BY <1>1, ObserverInvariance, PTL

\* No traversal and no poll outlives close.
THEOREM CloseHolds == Spec => []CloseDrains
<1>1. ObserverInv => CloseDrains
  BY FreeSlot DEF ObserverInv, ObserverTypeOK, PollIsOwned, CloseDrains
<1> QED BY <1>1, ObserverInvariance, PTL

-----------------------------------------------------------------------------
(* The handle implements InputBoundary. *)

LEMMA IntactMeans ==
  /\ Intact \in BOOLEAN /\ Intact' \in BOOLEAN
  /\ ~Intact <=> Initialized /\ \E f \in Files : Differs(f)
  /\ ~Intact' <=> Initialized' /\ \E f \in Files : Differs(f)'
<1>1. Intact \in BOOLEAN BY DEF Intact, Initialized, Same, SameEntry
<1>2. Intact' \in BOOLEAN BY DEF Intact, Initialized, Same, SameEntry
<1>3. ~Intact <=> Initialized /\ \E f \in Files : Differs(f)
  BY DEF Intact, Same, SameEntry, Differs, ByContent
<1>4. ~Intact' <=> Initialized' /\ \E f \in Files : Differs(f)'
  BY DEF Intact, Same, SameEntry, Differs, ByContent
<1> QED BY <1>1, <1>2, <1>3, <1>4

LEMMA IntactKept ==
  ASSUME UNCHANGED <<tree, integrity, baseline>>
  PROVE  Intact' = Intact
BY DEF Intact, Initialized, Same, SameEntry, ByContent

\* A step that leaves the calls alone changes the input or nothing a caller sees.
LEMMA CallsKept ==
  ASSUME UNCHANGED call, Intact' = Intact \/ Intact' = FALSE
  PROVE  [Boundary!BoundaryNext]_(Boundary!boundary)
<1>1. answer' = answer /\ clean' = clean BY DEF answer, clean
<1> QED BY <1>1 DEF Boundary!BoundaryNext, Boundary!Change, Boundary!boundary

\* One finding refuses everybody who waits.
LEMMA RejectRefuses ==
  ASSUME ObserverInv, NEW reason, Reject(reason), UNCHANGED <<tree, integrity, baseline>>
  PROVE  [Boundary!BoundaryNext]_(Boundary!boundary)
<1> DEFINE C == {c \in Calls : call[c].state = "waiting"}
<1>1. call' = [c \in Calls |-> IF call[c].state = "waiting" THEN Call("refused") ELSE call[c]]
  BY DEF Reject, Woken
<1>2. Call("refused").state = "refused" /\ Call("refused").clean = FALSE BY DEF Call
<1>3. \A c \in C : answer[c] = "asked" BY DEF answer
<1>4. answer' = [c \in Calls |-> IF c \in C THEN "refused" ELSE answer[c]]
  BY <1>1, <1>2 DEF answer
<1>5. clean' = clean \ C BY <1>1, <1>2 DEF clean
<1>6. Boundary!Refuse(C) BY <1>3, <1>4, <1>5, IntactKept DEF Boundary!Refuse
<1>7. C \in SUBSET Calls OBVIOUS
<1> QED BY <1>6, <1>7 DEF Boundary!BoundaryNext

LEMMA EndWakes ==
  ASSUME ObserverInv, ScanEnds
  PROVE  [Boundary!BoundaryNext]_(Boundary!boundary)
<1>1. call \in [Calls -> Boundaries] BY DEF ObserverInv, ObserverTypeOK
<1>2. \A c \in Calls : IF call[c].state = "waiting"
                       THEN /\ call'[c].state \in {"passed", "again"}
                            /\ call'[c].clean = call[c].clean
                       ELSE call'[c] = call[c]
  BY <1>1 DEF ScanEnds, Woken, Boundaries
<1>3. answer' = answer BY <1>2 DEF answer
<1>4. clean' = clean BY <1>2 DEF clean
<1>5. Intact' = Intact BY IntactKept DEF ScanEnds, world, policy, opening
<1> QED BY <1>3, <1>4, <1>5 DEF Boundary!boundary

LEMMA AskIsAsked ==
  ASSUME ObserverInv, NEW c \in Calls, AssertUnchanged(c)
  PROVE  [Boundary!BoundaryNext]_(Boundary!boundary)
<1>1. call \in [Calls -> Boundaries] BY DEF ObserverInv, ObserverTypeOK
<1>2. call[c].state = "idle" /\ Intact' = Intact /\ ~call[c].clean
  <2>1. Intact' = Intact BY IntactKept DEF AssertUnchanged, world, policy, opening
  <2>2. PassedWasClean BY DEF ObserverInv
  <2> QED BY <2>1, <2>2 DEF AssertUnchanged, PassedWasClean
<1>3. answer[c] = "idle" /\ c \notin clean BY <1>2 DEF answer, clean
<1>4. CASE Stopped
  <2> DEFINE refused == Call("refused")
  <2>1. call' = [call EXCEPT ![c] = refused] BY <1>4 DEF AssertUnchanged
  <2>2. refused.state = "refused" /\ refused.clean = FALSE BY DEF Call
  <2> HIDE DEF refused
  <2>3. answer' = [answer EXCEPT ![c] = "refused"] BY <1>1, <2>1, <2>2 DEF answer
  <2>4. clean' = clean BY <1>1, <1>2, <2>1, <2>2 DEF clean
  <2>5. Boundary!Decline(c) BY <1>2, <1>3, <2>3, <2>4 DEF Boundary!Decline
  <2> QED BY <2>5 DEF Boundary!BoundaryNext
<1>5. CASE ~Stopped
  <2> DEFINE asked == [state |-> "waiting", requested |-> generation + 1, clean |-> Intact]
  <2>1. call' = [call EXCEPT ![c] = asked] BY <1>5 DEF AssertUnchanged
  <2>2. asked.state = "waiting" /\ asked.clean = Intact OBVIOUS
  <2> HIDE DEF asked
  <2>3. answer' = [answer EXCEPT ![c] = "asked"] BY <1>1, <2>1, <2>2 DEF answer
  <2>4. clean' = IF Intact THEN clean \cup {c} ELSE clean
    <3>1. CASE Intact BY <1>1, <2>1, <2>2, <3>1 DEF clean
    <3>2. CASE ~Intact BY <1>1, <1>2, <2>1, <2>2, <3>2 DEF clean
    <3> QED BY <3>1, <3>2
  <2>5. Boundary!Ask(c) BY <1>2, <1>3, <2>3, <2>4 DEF Boundary!Ask
  <2> QED BY <2>5 DEF Boundary!BoundaryNext
<1> QED BY <1>4, <1>5

LEMMA ResumeAnswers ==
  ASSUME ObserverInv, NEW c \in Calls, Resume(c)
  PROVE  [Boundary!BoundaryNext]_(Boundary!boundary)
<1>1. call \in [Calls -> Boundaries] BY DEF ObserverInv, ObserverTypeOK
<1>2. call[c].state \in {"passed", "again"} /\ Intact' = Intact
  BY IntactKept DEF Resume, world, policy, opening
<1>3. answer[c] = "asked" BY <1>2 DEF answer
<1>4. CASE Stopped
  <2> DEFINE refused == Call("refused")
  <2>1. call' = [call EXCEPT ![c] = refused] BY <1>4 DEF Resume
  <2>2. refused.state = "refused" /\ refused.clean = FALSE BY DEF Call
  <2> HIDE DEF refused
  <2>3. answer' = [d \in Calls |-> IF d \in {c} THEN "refused" ELSE answer[d]]
    BY <1>1, <2>1, <2>2 DEF answer
  <2>4. clean' = clean \ {c} BY <1>1, <2>1, <2>2 DEF clean
  <2>5. Boundary!Refuse({c}) BY <1>2, <1>3, <2>3, <2>4 DEF Boundary!Refuse
  <2>6. {c} \in SUBSET Calls OBVIOUS
  <2> QED BY <2>5, <2>6 DEF Boundary!BoundaryNext
<1>5. CASE ~Stopped /\ call[c].state = "passed"
  <2> DEFINE ok == Call("ok")
  <2>1. call' = [call EXCEPT ![c] = ok] BY <1>5 DEF Resume
  <2>2. ok.state = "ok" /\ ok.clean = FALSE BY DEF Call
  <2> HIDE DEF ok
  <2>3. answer' = [answer EXCEPT ![c] = "accepted"] BY <1>1, <2>1, <2>2 DEF answer
  <2>4. clean' = clean \ {c} BY <1>1, <2>1, <2>2 DEF clean
  <2>5. c \in clean
    <3>1. PassedWasClean BY DEF ObserverInv
    <3> QED BY <1>5, <3>1 DEF PassedWasClean, clean
  <2>6. Boundary!Accept(c) BY <1>2, <1>3, <2>3, <2>4, <2>5 DEF Boundary!Accept
  <2> QED BY <2>6 DEF Boundary!BoundaryNext
<1>6. CASE ~Stopped /\ call[c].state = "again"
  <2> DEFINE again == [call[c] EXCEPT !.state = "waiting"]
  <2>1. call' = [call EXCEPT ![c] = again] BY <1>6 DEF Resume
  <2>2. again.state = "waiting" /\ again.clean = call[c].clean BY <1>1 DEF Boundaries
  <2> HIDE DEF again
  <2>3. answer' = answer BY <1>1, <1>6, <2>1, <2>2 DEF answer
  <2>4. clean' = clean BY <1>1, <2>1, <2>2 DEF clean
  <2> QED BY <1>2, <2>3, <2>4 DEF Boundary!boundary
<1> QED BY <1>2, <1>4, <1>5, <1>6

LEMMA EditChanges ==
  ASSUME ObserverInv, NEW f \in Files, NEW silent \in BOOLEAN, Edit(f, silent)
  PROVE  [Boundary!BoundaryNext]_(Boundary!boundary)
<1>1. /\ UNCHANGED <<call, baseline>>
      /\ \A g \in Files : Initialized /\ Differs(g) => Differs(g)'
  BY EditGrows DEF opening
<1>2. ~Intact => ~Intact' BY <1>1, IntactMeans DEF Initialized
<1> QED BY <1>1, <1>2, IntactMeans, CallsKept

\* Until there is a baseline nothing counts as a change.
LEMMA OpeningChanges ==
  ASSUME ObserverInv, scan.role \in {"before", "baseline"}, UNCHANGED call
  PROVE  [Boundary!BoundaryNext]_(Boundary!boundary)
<1>1. Intact = TRUE BY IntactMeans DEF ObserverInv, OpenedInOrder, Initialized
<1> QED BY <1>1, IntactMeans, CallsKept

LEMMA QuietStep ==
  ASSUME UNCHANGED <<call, tree, integrity, baseline>>
  PROVE  [Boundary!BoundaryNext]_(Boundary!boundary)
BY IntactKept, CallsKept

LEMMA BoundaryStep ==
  ASSUME ObserverInv, [Next]_vars
  PROVE  [Boundary!BoundaryNext]_(Boundary!boundary)
<1> USE DEF world, policy, opening
<1>1. CASE StartScan
  <2>1. CASE Stopped BY <1>1, <2>1, RejectRefuses DEF StartScan
  <2>2. CASE ~Stopped BY <1>1, <2>2, QuietStep DEF StartScan
  <2> QED BY <2>1, <2>2
<1>2. CASE ScanFindsChange BY <1>2, RejectRefuses DEF ScanFindsChange
<1>3. CASE ScanAgain BY <1>3, QuietStep DEF ScanAgain
<1>4. CASE ScanEnds BY <1>4, EndWakes
<1>5. CASE BeforeEnds BY <1>5, OpeningChanges DEF BeforeEnds
<1>6. CASE BaselineEnds BY <1>6, OpeningChanges DEF BaselineEnds
<1>7. CASE OpeningFails \/ OpeningTorn BY <1>7, QuietStep DEF OpeningTorn, OpeningFails
<1>8. CASE \E f \in Files : ScanEntry(f) BY <1>8, QuietStep DEF ScanEntry
<1>9. CASE ScanFails BY <1>9, RejectRefuses DEF ScanFails
<1>10. CASE FileEvent BY <1>10, QuietStep DEF FileEvent
<1>11. CASE Poll BY <1>11, QuietStep DEF Poll
<1>12. CASE Cancel BY <1>12, QuietStep DEF Cancel
<1>13. CASE Close \/ CloseEnds BY <1>13, QuietStep DEF Close, CloseEnds
<1>14. CASE \E f \in Files : Edit(f, FALSE) BY <1>14, EditChanges
<1>15. CASE \E f \in Regular : Edit(f, TRUE) BY <1>15, EditChanges, ObserverAssumption
<1>16. CASE \E c \in Calls : AssertUnchanged(c) BY <1>16, AskIsAsked
<1>17. CASE \E c \in Calls : Resume(c) BY <1>17, ResumeAnswers
<1>18. CASE UNCHANGED vars BY <1>18, QuietStep DEF vars
<1> QED
  BY <1>1, <1>2, <1>3, <1>4, <1>5, <1>6, <1>7, <1>8, <1>9, <1>10, <1>11, <1>12, <1>13,
     <1>14, <1>15, <1>16, <1>17, <1>18 DEF Next, ScanStep

\* A boundary is accepted only if the tree was still the baseline when it was
\* asked for, although calls share traversals: the safety of InputBoundary.
THEOREM ImplementsBoundary == Spec => Boundary!BoundarySafety
<1>1. Init => Boundary!BoundaryInit
  <2> SUFFICES ASSUME Init PROVE Boundary!BoundaryInit OBVIOUS
  <2>1. \A c \in Calls : call[c].state = "idle" /\ call[c].clean = FALSE
    BY DEF Init, Call
  <2>2. answer = [c \in Calls |-> "idle"] /\ clean = {} BY <2>1 DEF answer, clean
  <2>3. Intact = TRUE BY IntactMeans DEF Init, Initialized
  <2> QED BY <2>2, <2>3 DEF Boundary!BoundaryInit
<1>2. ObserverInv /\ [Next]_vars => [Boundary!BoundaryNext]_(Boundary!boundary)
  BY BoundaryStep
<1> QED BY <1>1, <1>2, ObserverInvariance, PTL DEF Spec, Boundary!BoundarySafety

==============================================================================
