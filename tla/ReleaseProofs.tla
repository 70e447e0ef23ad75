---------------------------- MODULE ReleaseProofs ----------------------------
(* Proofs about Release: the registry never holds a mixture, and an announced   *)
(* version is whole, for any set of publishers and any number of packages.      *)
EXTENDS Release, TLAPS

Whole(u) == \A k \in Packages : Good(u, k)

\* What shows was accepted.
Accepted == \A k \in visible : registry[k] # None

\* The plan of a publisher stays true: versions are never replaced.
PlanHolds == \A u \in Publishers : \A k \in planned[u] : Good(u, k)

\* A publisher has left behind only packages that show with its bytes.
PrefixHolds ==
  \A u \in Publishers : at[u] \in {"publish", "confirm"} =>
    \A j \in 1..(index[u] - 1) : Good(u, j)

\* A publisher that touches the tag or the Release found everything published.
AnnounceHolds ==
  \A u \in Publishers :
    /\ at[u] = "idle" => u \notin announcing
    /\ at[u] \in {"ref", "verify", "announce", "last"} => u \in announcing
    /\ u \in announcing /\ at[u] # "check" => Whole(u)
    /\ at[u] = "announce" => tag = CommitOf[u]

IInv ==
  /\ TypeOK
  /\ Accepted
  /\ PlanHolds
  /\ PrefixHolds
  /\ AnnounceHolds
  /\ InstallableWhole
  /\ AnnouncedWhole

(* ---- What no step takes back ---------------------------------------------- *)

Keeps ==
  /\ \A k \in Packages : registry[k] # None => registry'[k] = registry[k]
  /\ visible \subseteq visible'
  /\ tag # None => tag' = tag

\* The names of all actions, for the steps that look at each of them.
LEMMA Steps ==
  ASSUME [Next]_vars
  PROVE  \/ \E u \in Publishers : PublisherStep(u)
         \/ \E k \in Packages : Expose(k)
         \/ \E c \in Commits : PushTag(c)
         \/ UNCHANGED vars
BY DEF Next

\* Only three actions of a publisher write to npm or GitHub.
LEMMA Writers ==
  ASSUME NEW u \in Publishers, PublisherStep(u)
  PROVE  Publish(u) \/ CreateTag(u) \/ Announce(u) \/ UNCHANGED <<npm, github>>
BY DEF PublisherStep, AnnounceOnly, Begin, ReadTag, ReadRelease, Check, Checked, Skip,
       Confirm, Published, VerifyTag, Finish, Cancel, Stop

\* A publisher moves only itself.
LEMMA Alone ==
  ASSUME TypeOK, NEW u \in Publishers, PublisherStep(u), NEW v \in Publishers \ {u}
  PROVE  /\ at'[v] = at[v] /\ index'[v] = index[v] /\ planned'[v] = planned[v]
         /\ v \in announcing' <=> v \in announcing
<1>1. CASE Begin(u)
  BY <1>1 DEF Begin, TypeOK, Stop, Go, StartCheck, plan
<1>2. CASE ReadTag(u)
  BY <1>2 DEF ReadTag, TypeOK, Stop, Go, StartCheck, plan
<1>3. ASSUME NEW announceOnly \in BOOLEAN, ReadRelease(u, announceOnly)
      PROVE  /\ at'[v] = at[v] /\ index'[v] = index[v] /\ planned'[v] = planned[v]
             /\ v \in announcing' <=> v \in announcing
  BY <1>3 DEF ReadRelease, TypeOK, Stop, Go, StartCheck, plan
<1>4. CASE Check(u)
  BY <1>4 DEF Check, TypeOK, Stop, Go, StartCheck, plan
<1>5. CASE Checked(u)
  BY <1>5 DEF Checked, TypeOK, Stop, Go, StartCheck, plan
<1>6. CASE Skip(u)
  BY <1>6 DEF Skip, TypeOK, Stop, Go, StartCheck, plan
<1>7. CASE Publish(u)
  BY <1>7 DEF Publish, TypeOK, Stop, Go, StartCheck, plan
<1>8. CASE Confirm(u)
  BY <1>8 DEF Confirm, TypeOK, Stop, Go, StartCheck, plan
<1>9. CASE Published(u)
  BY <1>9 DEF Published, TypeOK, Stop, Go, StartCheck, plan
<1>10. CASE CreateTag(u)
  BY <1>10 DEF CreateTag, TypeOK, Stop, Go, StartCheck, plan
<1>11. CASE VerifyTag(u)
  BY <1>11 DEF VerifyTag, TypeOK, Stop, Go, StartCheck, plan
<1>12. CASE Announce(u)
  BY <1>12 DEF Announce, TypeOK, Stop, Go, StartCheck, plan
<1>13. CASE Finish(u)
  BY <1>13 DEF Finish, TypeOK, Stop, Go, StartCheck, plan
<1>14. CASE Cancel(u)
  BY <1>14 DEF Cancel, TypeOK, Stop, Go, StartCheck, plan
<1>15. QED BY <1>1, <1>2, <1>3, <1>4, <1>5, <1>6, <1>7, <1>8, <1>9, <1>10, <1>11, <1>12, <1>13, <1>14 DEF PublisherStep, AnnounceOnly

LEMMA StepKeeps ==
  ASSUME TypeOK, [Next]_vars
  PROVE  Keeps
<1>. USE ReleaseAssumption
<1>1. ASSUME NEW u \in Publishers, PublisherStep(u)
      PROVE  Keeps
  <2>1. CASE Publish(u)
    BY <2>1 DEF Publish, Stop, Keeps, TypeOK, Packages, npm, github
  <2>2. CASE CreateTag(u)
    BY <2>2 DEF CreateTag, Stop, Keeps, npm, github
  <2>3. CASE Announce(u)
    BY <2>3 DEF Announce, Stop, Keeps, npm, github
  <2>4. CASE UNCHANGED <<npm, github>>
    BY <2>4 DEF Keeps, npm, github
  <2>5. QED BY <1>1, <2>1, <2>2, <2>3, <2>4, Writers
<1>2. ASSUME NEW k \in Packages, Expose(k)
      PROVE  Keeps
  BY <1>2 DEF Expose, Keeps, github
<1>3. ASSUME NEW c \in Commits, PushTag(c)
      PROVE  Keeps
  BY <1>3 DEF PushTag, Keeps, npm
<1>4. CASE UNCHANGED vars
  BY <1>4 DEF Keeps, npm, github, vars
<1>5. QED BY <1>1, <1>2, <1>3, <1>4, Steps

LEMMA GoodKept ==
  ASSUME TypeOK, Accepted, Keeps, NEW u, NEW k \in Packages, Good(u, k)
  PROVE  Good(u, k)'
BY DEF Accepted, Keeps, Good, Matches, TypeOK

(* ---- Types ------------------------------------------------------------------ *)

LEMMA TypeStep ==
  ASSUME TypeOK, [Next]_vars
  PROVE  TypeOK'
<1>. USE ReleaseAssumption
<1>0. /\ \A u \in Publishers, k \in Packages : Bytes[u][k] \in Contents
      /\ \A u \in Publishers : CommitOf[u] \in Commits
      /\ 1 \in 1..(Size + 1)
  BY DEF Packages
<1>1. ASSUME NEW u \in Publishers, PublisherStep(u)
      PROVE  TypeOK'
  <2>1. CASE Begin(u)
    BY <1>0, <2>1 DEF Begin, TypeOK, Places, Packages, Stop, Go, StartCheck, npm, github, plan, saw, vars
  <2>2. CASE ReadTag(u)
    BY <1>0, <2>2 DEF ReadTag, TypeOK, Places, Packages, Stop, Go, StartCheck, npm, github, plan, saw, vars
  <2>3. ASSUME NEW announceOnly \in BOOLEAN, ReadRelease(u, announceOnly) PROVE TypeOK'
    <3>1. CASE release # None /\ sawTag[u] # CommitOf[u]
      <4>1. Stop(u)
        BY <2>3, <3>1, Zenon DEF ReadRelease
      <4>2. QED BY <1>0, <4>1 DEF TypeOK, Places, Stop, Go, npm, github
    <3>2. CASE ~(release # None /\ sawTag[u] # CommitOf[u]) /\ u \in announcing
      BY <2>3, <3>2 DEF ReadRelease, TypeOK, Places, Go, npm, github, plan
    <3>3. CASE ~(release # None /\ sawTag[u] # CommitOf[u]) /\ u \notin announcing
      <4>1. announcing' \in {announcing, announcing \union {u}}
        BY <2>3, <3>3, Zenon DEF ReadRelease
      <4>2. sawRelease' \in {sawRelease \union {u}, sawRelease \ {u}}
        BY <2>3, <3>3, Zenon DEF ReadRelease
      <4>3. StartCheck(u) /\ UNCHANGED <<npm, github, sawTag>>
        BY <2>3, <3>3, Zenon DEF ReadRelease
      <4>4. QED BY <1>0, <4>1, <4>2, <4>3 DEF TypeOK, Places, Go, StartCheck, npm, github
    <3>4. QED BY <3>1, <3>2, <3>3
  <2>4. CASE Check(u)
    <3>1. CASE index[u] \in visible /\ ~Matches(u, index[u])
      BY <1>0, <2>4, <3>1 DEF Check, TypeOK, Places, Stop, Go, npm, github
    <3>2. CASE ~(index[u] \in visible /\ ~Matches(u, index[u]))
      <4>1. index[u] \in Packages /\ index[u] + 1 \in 1..(Size + 1)
        BY <2>4 DEF Check, Packages
      <4>2. planned[u] \in SUBSET Packages
        BY DEF TypeOK
      <4>3. index' \in [Publishers -> 1..(Size + 1)]
        BY <2>4, <3>2, <4>1 DEF Check, TypeOK
      <4>4. planned' \in [Publishers -> SUBSET Packages]
        BY <2>4, <3>2, <4>1, <4>2 DEF Check, TypeOK
      <4>5. QED BY <2>4, <3>2, <4>3, <4>4 DEF Check, TypeOK, npm, github, saw
    <3>3. QED BY <3>1, <3>2
  <2>5. CASE Checked(u)
    BY <1>0, <2>5 DEF Checked, TypeOK, Places, Packages, Stop, Go, StartCheck, npm, github, plan, saw, vars
  <2>6. CASE Skip(u)
    BY <1>0, <2>6 DEF Skip, TypeOK, Places, Packages, Stop, Go, StartCheck, npm, github, plan, saw, vars
  <2>7. CASE Publish(u)
    BY <1>0, <2>7 DEF Publish, TypeOK, Places, Packages, Stop, Go, StartCheck, npm, github, plan, saw, vars
  <2>8. CASE Confirm(u)
    <3>1. CASE Matches(u, index[u])
      <4>1. index[u] + 1 \in 1..(Size + 1)
        BY <2>8 DEF Confirm, TypeOK, Packages
      <4>2. QED BY <2>8, <3>1, <4>1 DEF Confirm, TypeOK, Places, Go, npm, github, saw
    <3>2. CASE ~Matches(u, index[u])
      BY <1>0, <2>8, <3>2 DEF Confirm, TypeOK, Places, Stop, Go, npm, github
    <3>3. QED BY <3>1, <3>2
  <2>9. CASE Published(u)
    BY <1>0, <2>9 DEF Published, TypeOK, Places, Packages, Stop, Go, StartCheck, npm, github, plan, saw, vars
  <2>10. CASE CreateTag(u)
    BY <1>0, <2>10 DEF CreateTag, TypeOK, Places, Packages, Stop, Go, StartCheck, npm, github, plan, saw, vars
  <2>11. CASE VerifyTag(u)
    BY <1>0, <2>11 DEF VerifyTag, TypeOK, Places, Packages, Stop, Go, StartCheck, npm, github, plan, saw, vars
  <2>12. CASE Announce(u)
    BY <1>0, <2>12 DEF Announce, TypeOK, Places, Packages, Stop, Go, StartCheck, npm, github, plan, saw, vars
  <2>13. CASE Finish(u)
    BY <1>0, <2>13 DEF Finish, TypeOK, Places, Packages, Stop, Go, StartCheck, npm, github, plan, saw, vars
  <2>14. CASE Cancel(u)
    BY <1>0, <2>14 DEF Cancel, TypeOK, Places, Packages, Stop, Go, StartCheck, npm, github, plan, saw, vars
  <2>15. QED BY <1>1, <2>1, <2>2, <2>3, <2>4, <2>5, <2>6, <2>7, <2>8, <2>9, <2>10, <2>11, <2>12, <2>13, <2>14 DEF PublisherStep, AnnounceOnly
<1>2. ASSUME NEW k \in Packages, Expose(k)
      PROVE  TypeOK'
  BY <1>2 DEF Expose, TypeOK, github, plan, saw
<1>3. ASSUME NEW c \in Commits, PushTag(c)
      PROVE  TypeOK'
  BY <1>3 DEF PushTag, TypeOK, npm, plan, saw
<1>4. CASE UNCHANGED vars
  BY <1>4 DEF TypeOK, npm, github, plan, saw, vars
<1>5. QED BY <1>1, <1>2, <1>3, <1>4, Steps

(* ---- The registry ------------------------------------------------------------ *)

LEMMA AcceptedStep ==
  ASSUME TypeOK, Accepted, [Next]_vars
  PROVE  Accepted'
<1>. USE ReleaseAssumption
<1>1. Keeps
  BY StepKeeps
<1>2. ASSUME NEW k \in visible', registry'[k] = None
      PROVE  FALSE
  <2>1. k \notin visible
    BY <1>1, <1>2 DEF Accepted, Keeps, TypeOK
  <2>2. ASSUME NEW u \in Publishers, PublisherStep(u)
        PROVE  FALSE
    BY <1>2, <2>1, <2>2, Writers DEF Publish, CreateTag, Announce, Stop, npm
  <2>3. ASSUME NEW n \in Packages, Expose(n)
        PROVE  FALSE
    BY <1>2, <2>1, <2>3 DEF Expose
  <2>4. CASE UNCHANGED visible
    BY <1>2, <2>1, <2>4
  <2>5. QED BY <2>2, <2>3, <2>4, Steps DEF PushTag, npm, vars
<1>3. QED BY <1>2 DEF Accepted

\* A plan grows only by what was seen to be published.
LEMMA PlanStep ==
  ASSUME TypeOK, Accepted, PlanHolds, [Next]_vars
  PROVE  PlanHolds'
<1>1. Keeps /\ TypeOK'
  BY StepKeeps, TypeStep
<1>2. ASSUME NEW v \in Publishers, NEW k \in planned'[v]
      PROVE  k \in planned[v] \/ Good(v, k)
  <2>1. ASSUME NEW u \in Publishers, PublisherStep(u), u # v
        PROVE  k \in planned[v]
    BY <1>2, <2>1, Alone
  <2>2. CASE PublisherStep(v)
    <3>1. CASE Check(v)
      BY <1>2, <3>1 DEF Check, Stop, Good, TypeOK
    <3>2. CASE Begin(v) \/ ReadTag(v) \/ Checked(v) \/ Skip(v) \/ Publish(v)
      BY <1>2, <3>2 DEF Begin, ReadTag, Checked, Skip, Publish, Stop, plan, TypeOK
    <3>3. CASE Confirm(v) \/ Published(v) \/ CreateTag(v) \/ VerifyTag(v)
      BY <1>2, <3>3 DEF Confirm, Published, StartCheck, CreateTag, VerifyTag, Stop, plan, TypeOK
    <3>4. CASE Announce(v) \/ Finish(v) \/ Cancel(v)
      BY <1>2, <3>4 DEF Announce, Finish, Cancel, Stop, plan, TypeOK
    <3>5. ASSUME NEW announceOnly \in BOOLEAN, ReadRelease(v, announceOnly)
          PROVE  k \in planned[v]
      BY <1>2, <3>5 DEF ReadRelease, StartCheck, Stop, plan, TypeOK
    <3>6. QED BY <2>2, <3>1, <3>2, <3>3, <3>4, <3>5 DEF PublisherStep, AnnounceOnly
  <2>3. CASE UNCHANGED planned
    BY <1>2, <2>3
  <2>4. QED BY <2>1, <2>2, <2>3, Steps DEF Expose, PushTag, plan, vars
<1>3. ASSUME NEW v \in Publishers, NEW k \in planned'[v]
      PROVE  Good(v, k)'
  <2>1. k \in Packages
    BY <1>1, <1>3 DEF TypeOK
  <2>2. Good(v, k)
    BY <1>2, <1>3 DEF PlanHolds
  <2>3. QED BY <1>1, <2>1, <2>2, GoodKept
<1>4. QED BY <1>3 DEF PlanHolds

LEMMA LastOrBefore ==
  ASSUME NEW n \in Nat, NEW j \in 1..n
  PROVE  j = n \/ j \in 1..(n - 1)
OBVIOUS

\* A publisher goes past a package only when it shows with its bytes.
LEMMA PrefixStep ==
  ASSUME TypeOK, Accepted, PlanHolds, PrefixHolds, [Next]_vars
  PROVE  PrefixHolds'
<1>. USE ReleaseAssumption
<1>1. Keeps /\ TypeOK'
  BY StepKeeps, TypeStep
<1>2. ASSUME NEW v \in Publishers, at'[v] \in {"publish", "confirm"},
             NEW j, j \in 1..(index'[v] - 1)
      PROVE  Good(v, j)
  <2>. DEFINE Was == at[v] \in {"publish", "confirm"} /\ j \in 1..(index[v] - 1)
  <2>0. Was => Good(v, j)
    BY DEF PrefixHolds
  <2>1. ASSUME NEW u \in Publishers, PublisherStep(u), u # v
        PROVE  Was
    BY <1>2, <2>1, Alone
  <2>2. CASE PublisherStep(v)
    <3>1. CASE Skip(v)
      <4>1. at[v] = "publish" /\ index[v] \in planned[v] /\ index'[v] = index[v] + 1
        BY <3>1 DEF Skip, TypeOK
      <4>2. Good(v, index[v])
        BY <4>1 DEF PlanHolds
      <4>3. index[v] \in Nat
        BY DEF TypeOK
      <4>4. j = index[v] \/ j \in 1..(index[v] - 1)
        <5>1. index'[v] - 1 = index[v]
          BY <4>1, <4>3
        <5>2. j \in 1..index[v]
          BY <1>2, <5>1
        <5>3. QED BY <4>3, <5>2, LastOrBefore
      <4>5. QED BY <2>0, <4>1, <4>2, <4>4
    <3>2. CASE Publish(v)
      BY <1>2, <2>0, <3>2 DEF Publish, Stop, Go, plan, TypeOK, Places
    <3>3. CASE Confirm(v)
      <4>1. at[v] = "confirm" /\ index[v] \in visible
        BY <3>3 DEF Confirm
      <4>2. Matches(v, index[v]) /\ index'[v] = index[v] + 1
        BY <1>2, <3>3 DEF Confirm, Stop, Go, TypeOK, Places
      <4>3. index[v] \in Nat
        BY DEF TypeOK
      <4>4. j = index[v] \/ j \in 1..(index[v] - 1)
        <5>1. index'[v] - 1 = index[v]
          BY <4>2, <4>3
        <5>2. j \in 1..index[v]
          BY <1>2, <5>1
        <5>3. QED BY <4>3, <5>2, LastOrBefore
      <4>5. QED BY <2>0, <4>1, <4>2, <4>4 DEF Good
    <3>4. CASE Checked(v)
      BY <1>2, <3>4 DEF Checked, Stop, Go, plan, TypeOK, Places
    <3>5. CASE Begin(v) \/ ReadTag(v) \/ Check(v) \/ Published(v) \/ CreateTag(v)
      BY <1>2, <3>5 DEF Begin, ReadTag, Check, Published, CreateTag, Stop, StartCheck, Go,
                        TypeOK, Places
    <3>6. CASE VerifyTag(v) \/ Announce(v) \/ Finish(v) \/ Cancel(v)
      BY <1>2, <3>6 DEF VerifyTag, Announce, Finish, Cancel, Stop, Go, TypeOK, Places
    <3>7. ASSUME NEW announceOnly \in BOOLEAN, ReadRelease(v, announceOnly)
          PROVE  FALSE
      BY <1>2, <3>7 DEF ReadRelease, Stop, StartCheck, Go, TypeOK, Places
    <3>8. QED BY <2>2, <3>1, <3>2, <3>3, <3>4, <3>5, <3>6, <3>7 DEF PublisherStep, AnnounceOnly
  <2>3. CASE UNCHANGED <<at, index>>
    BY <1>2, <2>0, <2>3
  <2>4. QED BY <2>0, <2>1, <2>2, <2>3, Steps DEF Expose, PushTag, plan, vars
<1>3. ASSUME NEW v \in Publishers, at'[v] \in {"publish", "confirm"},
             NEW j, j \in 1..(index'[v] - 1)
      PROVE  Good(v, j)'
  <2>1. j \in Packages
    BY <1>1, <1>3 DEF TypeOK, Packages
  <2>2. QED BY <1>1, <1>2, <1>3, <2>1, GoodKept
<1>4. QED BY <1>3 DEF PrefixHolds

LEMMA InstallableStep ==
  ASSUME TypeOK, Accepted, PrefixHolds, InstallableWhole, [Next]_vars
  PROVE  InstallableWhole'
<1>. USE ReleaseAssumption
<1>1. Keeps /\ TypeOK'
  BY StepKeeps, TypeStep
<1>2. CASE UNCHANGED registry
  <2>1. PICK w \in Publishers : \A k \in Packages :
          registry[k] # None => Matches(w, k) /\ \A j \in 1..(k - 1) : Good(w, j)
    BY DEF InstallableWhole
  <2>2. ASSUME NEW k \in Packages, registry'[k] # None
        PROVE  Matches(w, k)' /\ \A j \in 1..(k - 1) : Good(w, j)'
    <3>1. registry[k] # None
      BY <1>2, <2>2
    <3>2. Matches(w, k)'
      BY <1>2, <2>1, <3>1 DEF Matches
    <3>3. ASSUME NEW j \in 1..(k - 1)
          PROVE  Good(w, j)'
      BY <1>1, <2>1, <3>1, GoodKept DEF Packages
    <3>4. QED BY <3>2, <3>3
  <2>3. QED BY <2>2 DEF InstallableWhole
<1>3. ASSUME NEW u \in Publishers, Publish(u), ~UNCHANGED registry
      PROVE  InstallableWhole'
  <2>1. /\ at[u] = "publish" /\ index[u] \in Packages
        /\ registry[index[u]] = None
        /\ registry' = [registry EXCEPT ![index[u]] = Bytes[u][index[u]]]
    BY <1>3 DEF Publish, Stop, npm
  <2>2. ASSUME NEW k \in Packages, registry'[k] # None
        PROVE  k <= index[u]
    \* Anything later was given to npm only after package index[u] showed.
    <3>1. SUFFICES ASSUME k > index[u] PROVE FALSE
      BY <2>1 DEF Packages
    <3>2. registry[k] # None
      BY <2>1, <2>2, <3>1 DEF TypeOK
    <3>3. index[u] \in 1..(k - 1)
      BY <2>1, <3>1 DEF Packages
    <3>4. index[u] \in visible
      BY <3>2, <3>3 DEF InstallableWhole, Good
    <3>5. QED BY <2>1, <3>4 DEF Accepted
  <2>3. ASSUME NEW j \in 1..(index[u] - 1)
        PROVE  Good(u, j)'
    BY <1>1, <2>1, GoodKept DEF PrefixHolds, Packages
  <2>4. ASSUME NEW k \in Packages, registry'[k] # None
        PROVE  Matches(u, k)' /\ \A j \in 1..(k - 1) : Good(u, j)'
    <3>1. k = index[u] \/ k \in 1..(index[u] - 1)
      BY <2>1, <2>2, <2>4 DEF Packages
    <3>2. registry'[index[u]] = Bytes[u][index[u]]
      BY <2>1 DEF TypeOK
    <3>3. Matches(u, k)'
      BY <2>3, <3>1, <3>2 DEF Good, Matches
    <3>4. ASSUME NEW j \in 1..(k - 1)
          PROVE  Good(u, j)'
      BY <2>1, <2>3, <3>1 DEF Packages
    <3>5. QED BY <3>3, <3>4
  <2>5. QED BY <2>4 DEF InstallableWhole
<1>4. ASSUME NEW u \in Publishers, PublisherStep(u)
      PROVE  InstallableWhole'
  <2>1. CASE Publish(u)
    BY <1>2, <1>3, <2>1
  <2>2. CASE CreateTag(u) \/ Announce(u) \/ UNCHANGED <<npm, github>>
    BY <1>2, <2>2 DEF CreateTag, Announce, Stop, npm
  <2>3. QED BY <1>4, <2>1, <2>2, Writers
<1>5. QED BY <1>2, <1>4, Steps DEF Expose, PushTag, npm, vars

(* ---- The announcement ---------------------------------------------------------- *)

\* A publisher touches the tag and the Release only after it found everything
\* published, and the Release only with the tag on its commit.
LEMMA AnnounceStep ==
  ASSUME TypeOK, Accepted, PlanHolds, AnnounceHolds, [Next]_vars
  PROVE  AnnounceHolds'
<1>. USE ReleaseAssumption
<1>1. Keeps /\ TypeOK'
  BY StepKeeps, TypeStep
<1>2. ASSUME NEW v \in Publishers, Whole(v)
      PROVE  Whole(v)'
  BY <1>1, <1>2, GoodKept DEF Whole
<1>. DEFINE Holds(v) ==
       /\ at'[v] = "idle" => v \notin announcing'
       /\ at'[v] \in {"ref", "verify", "announce", "last"} => v \in announcing'
       /\ v \in announcing' /\ at'[v] # "check" => Whole(v)
       /\ at'[v] = "announce" => tag' = CommitOf[v]
<1>3. ASSUME NEW v \in Publishers, PublisherStep(v)
      PROVE  Holds(v)
  <2>1. CASE Begin(v)
    BY <2>1 DEF Begin, Go, AnnounceHolds, TypeOK
  <2>2. CASE ReadTag(v)
    BY <2>2 DEF ReadTag, Stop, Go, AnnounceHolds, TypeOK
  <2>3. ASSUME NEW announceOnly \in BOOLEAN, ReadRelease(v, announceOnly)
        PROVE  Holds(v)
    BY <2>3 DEF ReadRelease, Stop, StartCheck, Go, AnnounceHolds, TypeOK
  <2>4. CASE Check(v)
    BY <2>4 DEF Check, Stop, Go, AnnounceHolds, TypeOK
  <2>5. CASE Checked(v)
    BY <2>5 DEF Checked, Announceable, PlanHolds, Whole, Stop, Go, AnnounceHolds, TypeOK
  <2>6. CASE Skip(v)
    BY <2>6 DEF Skip, AnnounceHolds, TypeOK
  <2>7. CASE Publish(v) \/ Confirm(v) \/ Published(v)
    BY <2>7 DEF Publish, Confirm, Published, StartCheck, Stop, Go, AnnounceHolds, TypeOK
  <2>8. CASE CreateTag(v)
    BY <2>8 DEF CreateTag, Stop, Go, AnnounceHolds, TypeOK
  <2>9. CASE VerifyTag(v)
    BY <2>9 DEF VerifyTag, Stop, Go, AnnounceHolds, TypeOK, github
  <2>10. CASE Announce(v)
    BY <2>10 DEF Announce, Stop, Go, AnnounceHolds, TypeOK
  <2>11. CASE Finish(v) \/ Cancel(v)
    BY <2>11 DEF Finish, Cancel, Stop, Go, TypeOK
  <2>12. QED BY <1>3, <2>1, <2>2, <2>3, <2>4, <2>5, <2>6, <2>7, <2>8, <2>9, <2>10, <2>11
            DEF PublisherStep, AnnounceOnly
<1>4. ASSUME NEW v \in Publishers, at'[v] = at[v], v \in announcing' <=> v \in announcing
      PROVE  Holds(v)
  BY <1>1, <1>4 DEF AnnounceHolds, Keeps
<1>5. ASSUME NEW v \in Publishers
      PROVE  Holds(v)
  <2>1. ASSUME NEW u \in Publishers, PublisherStep(u)
        PROVE  Holds(v)
    BY <1>3, <1>4, <2>1, Alone
  <2>2. CASE UNCHANGED <<at, announcing>>
    BY <1>4, <2>2
  <2>3. QED BY <2>1, <2>2, Steps DEF Expose, PushTag, vars
<1>6. QED BY <1>2, <1>5 DEF AnnounceHolds

LEMMA AnnouncedStep ==
  ASSUME TypeOK, Accepted, AnnounceHolds, AnnouncedWhole, [Next]_vars
  PROVE  AnnouncedWhole'
<1>. USE ReleaseAssumption
<1>1. Keeps /\ TypeOK'
  BY StepKeeps, TypeStep
<1>2. ASSUME NEW v \in Publishers, Whole(v)
      PROVE  \A k \in Packages : Good(v, k)'
  BY <1>1, <1>2, GoodKept DEF Whole
<1>3. CASE UNCHANGED release
  BY <1>1, <1>2, <1>3 DEF AnnouncedWhole, Whole, Keeps, TypeOK
<1>4. ASSUME NEW u \in Publishers, Announce(u), ~UNCHANGED release
      PROVE  AnnouncedWhole'
  <2>1. at[u] = "announce" /\ release' = CommitOf[u] /\ tag' = tag
    BY <1>4 DEF Announce, Stop, github
  <2>2. tag = CommitOf[u] /\ Whole(u)
    BY <2>1 DEF AnnounceHolds
  <2>3. QED BY <1>2, <2>1, <2>2 DEF AnnouncedWhole
<1>5. ASSUME NEW u \in Publishers, PublisherStep(u)
      PROVE  AnnouncedWhole'
  BY <1>3, <1>4, <1>5, Writers DEF Publish, CreateTag, Stop, github
<1>6. QED BY <1>3, <1>5, Steps DEF Expose, PushTag, github, vars

(* ---- Theorems ----------------------------------------------------------------- *)

THEOREM ReleaseInvariant == Spec => []IInv
<1>1. Init => IInv
  BY ReleaseAssumption
     DEF Init, IInv, TypeOK, Places, Accepted, PlanHolds, PrefixHolds, AnnounceHolds,
         InstallableWhole, AnnouncedWhole
<1>2. IInv /\ [Next]_vars => IInv'
  BY TypeStep, AcceptedStep, PlanStep, PrefixStep, AnnounceStep, InstallableStep,
     AnnouncedStep DEF IInv
<1>3. QED BY <1>1, <1>2, PTL DEF Spec

\* The registry never holds a mixture, nor a package before what it depends on,
\* for any set of publishers, any bytes they share and any number of packages.
THEOREM InstallableWholeHolds == Spec => []InstallableWhole
<1>1. IInv => InstallableWhole
  BY DEF IInv
<1>2. QED BY <1>1, ReleaseInvariant, PTL

\* A version is announced only when it is published whole, and where its tag is.
THEOREM AnnouncedWholeHolds == Spec => []AnnouncedWhole
<1>1. IInv => AnnouncedWhole
  BY DEF IInv
<1>2. QED BY <1>1, ReleaseInvariant, PTL
=============================================================================
