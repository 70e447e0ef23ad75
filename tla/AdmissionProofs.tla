---------------------------- MODULE AdmissionProofs ----------------------------
(***************************************************************************)
(* Proofs about Admission, for any processes, lanes, caps and budgets: the  *)
(* limits that lanes, models, repositories and submissions declare hold,   *)
(* what is in use is counted, and a started attempt stays spent.           *)
(***************************************************************************)
EXTENDS Admission, FiniteSetTheorems, TLAPS

-----------------------------------------------------------------------------
(* The invariant *)

\* A process that ended took its calls with it.
DeadAreGone == \A l \in Leases : ~alive[Home[l]] => pc[l] = "gone"

\* A call that has not queued yet has no row and no children.
NewAreAbsent == \A l \in Leases : pc[l] = "new" => lease[l] = "absent" /\ child[l] = "none"

\* Nothing was attempted before the admission.
WaitersAttemptNothing == \A l \in Leases : pc[l] \in {"new", "queued"} => attempt[l] = "absent"

\* Nobody queues for, or is charged to, a submission without a budget.
ChargedAreRegistered ==
  \A l \in Leases : Run[l] # None /\ (pc[l] = "queued" \/ attempt[l] # "absent")
                       => budget[Run[l]] # Unregistered

Use ==
  /\ TypeOK
  /\ DeadAreGone
  /\ NewAreAbsent
  /\ WaitersAttemptNothing
  /\ ChargedAreRegistered
  /\ UseAccounted

IInv == Use /\ LimitsRespected

Places == {"new", "queued", "failing", "held", "running", "ended", "releasing", "done", "gone"}

\* Exactly what TypeOK says of one call.
LEMMA TypeOf ==
  ASSUME TypeOK, NEW l \in Leases
  PROVE  /\ lease[l] \in LeaseStates /\ attempt[l] \in AttemptStates
         /\ child[l] \in {"none", "alive", "killed", "ended"} /\ pc[l] \in Places
BY DEF TypeOK, Places

-----------------------------------------------------------------------------
(* Reclaiming *)

\* A reclaim of the rows L deletes only rows of L without running children, and
\* takes back only what was reserved for them.
LEMMA ReclaimEffect ==
  ASSUME TypeOK, NEW L \in SUBSET Leases, NEW l \in Leases
  PROVE  /\ LeaseWithout(Freed(L))[l] \in {lease[l], "absent"}
         /\ LeaseWithout(Freed(L))[l] # lease[l] => l \in L /\ ~ChildRuns(l)
         /\ AttemptWithout(Freed(L))[l] # attempt[l] =>
              attempt[l] = "reserved" /\ AttemptWithout(Freed(L))[l] = "refunded"
         /\ attempt[l] = "reserved" /\ LeaseWithout(Freed(L))[l] # lease[l] =>
              AttemptWithout(Freed(L))[l] = "refunded"
         /\ ChildAfter(L)[l] \in {"alive", "killed"} => ChildRuns(l)
         /\ child[l] = "none" => ChildAfter(L)[l] = "none"
BY DEF LeaseWithout, AttemptWithout, ChildAfter, Freed, ChildRuns, TypeOK

LEMMA ReclaimTypes ==
  ASSUME TypeOK, NEW L \in SUBSET Leases
  PROVE  /\ LeaseWithout(Freed(L)) \in [Leases -> LeaseStates]
         /\ AttemptWithout(Freed(L)) \in [Leases -> AttemptStates]
         /\ ChildAfter(L) \in [Leases -> {"none", "alive", "killed", "ended"}]
BY DEF LeaseWithout, AttemptWithout, ChildAfter, LeaseStates, AttemptStates, TypeOK

\* A reclaim examines no row that its living owner still uses.
LEMMA ReclaimableUnused ==
  ASSUME Use, NEW l \in Reclaimable
  PROVE  pc[l] \notin {"queued", "held", "running", "ended"}
BY DEF Reclaimable, Use, DeadAreGone, UseAccounted, UseIsCounted, LiveLeaseKept

-----------------------------------------------------------------------------
(* Types *)

\* The actions that touch no row and no child.
Quiet(l) ==
  \/ EnqueueFails(l) \/ Refuse(l) \/ Rejected(l) \/ Cancel(l)
  \/ WithdrawFails(l) \/ MarkFails(l) \/ ReleaseFails(l)

LEMMA TypeStep ==
  ASSUME TypeOK, [Next]_vars
  PROVE  TypeOK'
<1>. USE AdmissionAssumption
<1>1. ASSUME NEW r \in Runs, NEW n \in Budgets, Register(r, n)
      PROVE  TypeOK'
  BY <1>1 DEF Register, TypeOK
<1>2. ASSUME NEW l \in Leases, Quiet(l)
      PROVE  TypeOK'
  BY <1>2 DEF Quiet, EnqueueFails, Refuse, Rejected, Cancel, Fails, WithdrawFails, MarkFails,
              ReleaseFails, TypeOK, db
<1>3. ASSUME NEW l \in Leases, Enqueue(l)
      PROVE  TypeOK'
  <2>1. PICK L \in {{}, Reclaimable} :
          /\ lease' = [LeaseWithout(Freed(L)) EXCEPT ![l] = "waiting"]
          /\ attempt' = AttemptWithout(Freed(L))
          /\ child' = ChildAfter(L)
    BY <1>3 DEF Enqueue
  <2>2. L \in SUBSET Leases
    BY DEF Reclaimable
  <2>3. lease' \in [Leases -> LeaseStates]
    BY <2>1, <2>2, ReclaimTypes DEF LeaseStates
  <2>4. QED BY <1>3, <2>1, <2>2, <2>3, ReclaimTypes DEF Enqueue, TypeOK
<1>4. ASSUME NEW l \in Leases, Admit(l)
      PROVE  TypeOK'
  BY <1>4 DEF Admit, TypeOK, LeaseStates, AttemptStates
<1>5. ASSUME NEW l \in Leases, Withdraw(l) \/ Release(l)
      PROVE  TypeOK'
  <2>1. Reclaimed({l}) /\ {l} \in SUBSET Leases
    BY <1>5 DEF Withdraw, Release
  <2>2. pc' \in [Leases -> Places]
    BY <1>5 DEF Withdraw, Release, TypeOK, Places
  <2>3. QED BY <1>5, <2>1, <2>2, ReclaimTypes DEF Withdraw, Release, Reclaimed, TypeOK, Places
<1>6. ASSUME NEW l \in Leases, Start(l) \/ End(l)
      PROVE  TypeOK'
  <2>1. attempt' \in [Leases -> AttemptStates]
    BY <1>6 DEF Start, End, TypeOK, AttemptStates
  <2>2. QED BY <1>6, <2>1 DEF Start, End, TypeOK
<1>7. ASSUME NEW l \in Leases, TrackChild(l) \/ ChildEnds(l)
      PROVE  TypeOK'
  BY <1>7 DEF TrackChild, ChildEnds, TypeOK, db
<1>8. ASSUME NEW l \in Leases, MarkReleasing(l)
      PROVE  TypeOK'
  BY <1>8 DEF MarkReleasing, TypeOK, LeaseStates
<1>9. ASSUME NEW p \in Procs, Reclaim(p)
      PROVE  TypeOK'
  <2>1. Reclaimed(Reclaimable) /\ Reclaimable \in SUBSET Leases
    BY <1>9 DEF Reclaim, Reclaimable
  <2>2. QED BY <1>9, <2>1, ReclaimTypes DEF Reclaim, Reclaimed, TypeOK
<1>10. ASSUME NEW p \in Procs, Exit(p)
       PROVE  TypeOK'
  BY <1>10 DEF Exit, TypeOK, db
<1>11. CASE UNCHANGED vars
  BY <1>11 DEF TypeOK, vars, db
<1>12. QED
  BY <1>1, <1>2, <1>3, <1>4, <1>5, <1>6, <1>7, <1>8, <1>9, <1>10, <1>11
  DEF Next, Acquire, Hold, Quiet

-----------------------------------------------------------------------------
(* Use *)

Untyped ==
  /\ DeadAreGone
  /\ NewAreAbsent
  /\ WaitersAttemptNothing
  /\ ChargedAreRegistered
  /\ LiveLeaseKept
  /\ ChildrenHoldCapacity
  /\ ReservationAccounted

LEMMA UseStep ==
  ASSUME Use, [Next]_vars
  PROVE  Use'
<1>. USE AdmissionAssumption
<1>0. TypeOK /\ TypeOK' /\ Untyped
  BY TypeStep DEF Use, Untyped, UseAccounted, UseIsCounted
<1>. USE DEF Untyped, DeadAreGone, NewAreAbsent, WaitersAttemptNothing, ChargedAreRegistered,
             LiveLeaseKept, ChildrenHoldCapacity, ReservationAccounted, Active, ChildRuns
<1>1. ASSUME NEW r \in Runs, NEW n \in Budgets, Register(r, n)
      PROVE  Untyped'
  BY <1>0, <1>1 DEF Register, TypeOK
<1>2. ASSUME NEW l \in Leases, Quiet(l)
      PROVE  Untyped'
  <2>1. budget' = budget /\ lease' = lease /\ attempt' = attempt /\ child' = child /\ alive' = alive
    BY <1>2 DEF Quiet, EnqueueFails, Refuse, Rejected, Cancel, Fails, WithdrawFails, MarkFails,
                ReleaseFails, db
  <2>2. \/ pc' = pc
        \/ pc[l] # "gone" /\ \E s \in {"done", "failing"} : pc' = [pc EXCEPT ![l] = s]
    <3>1. CASE Refuse(l)
      BY <3>1 DEF Refuse, db
    <3>2. CASE Rejected(l) \/ Cancel(l)
      BY <3>2 DEF Rejected, Cancel, Fails, Polls, db
    <3>3. CASE EnqueueFails(l) \/ WithdrawFails(l) \/ MarkFails(l) \/ ReleaseFails(l)
      BY <3>3 DEF EnqueueFails, WithdrawFails, MarkFails, ReleaseFails, db
    <3>4. QED BY <1>2, <3>1, <3>2, <3>3 DEF Quiet
  <2>3. CASE pc' = pc
    BY <1>0, <2>1, <2>3
  <2>4. CASE pc[l] # "gone" /\ \E s \in {"done", "failing"} : pc' = [pc EXCEPT ![l] = s]
    BY <1>0, <2>1, <2>4 DEF TypeOK
  <2>5. QED BY <2>2, <2>3, <2>4
<1>4. ASSUME NEW l \in Leases, Admit(l)
      PROVE  Untyped'
  BY <1>0, <1>4 DEF Admit, Polls, TypeOK
<1>6. ASSUME NEW l \in Leases, Start(l)
      PROVE  Untyped'
  BY <1>0, <1>6 DEF Start, TypeOK
<1>12. ASSUME NEW l \in Leases, End(l)
      PROVE  Untyped'
  BY <1>0, <1>12 DEF End, TypeOK
<1>7. ASSUME NEW l \in Leases, TrackChild(l) \/ ChildEnds(l)
      PROVE  Untyped'
  BY <1>0, <1>7 DEF TrackChild, ChildEnds, TypeOK, db
<1>8. ASSUME NEW l \in Leases, MarkReleasing(l)
      PROVE  Untyped'
  BY <1>0, <1>8 DEF MarkReleasing, TypeOK
<1>10. ASSUME NEW p \in Procs, Exit(p)
       PROVE  Untyped'
  BY <1>0, <1>10 DEF Exit, TypeOK, db
<1>11. CASE UNCHANGED vars
  <2>1. /\ budget' = budget /\ lease' = lease /\ attempt' = attempt /\ child' = child
        /\ alive' = alive /\ pc' = pc
    BY <1>11 DEF vars, db
  <2>2. QED BY <1>0, <2>1 DEF Use, UseAccounted, UseIsCounted
<1>3. ASSUME NEW l \in Leases, Enqueue(l)
      PROVE  Untyped'
  <2>1. PICK L \in {{}, Reclaimable} :
          /\ lease' = [LeaseWithout(Freed(L)) EXCEPT ![l] = "waiting"]
          /\ attempt' = AttemptWithout(Freed(L))
          /\ child' = ChildAfter(L)
    BY <1>3 DEF Enqueue
  <2>2. L \in SUBSET Leases /\ \A m \in L : pc[m] \notin {"queued", "held", "running", "ended"}
    <3>1. \A m \in Reclaimable : pc[m] \notin {"queued", "held", "running", "ended"}
      BY ReclaimableUnused
    <3>2. QED BY <2>1, <3>1 DEF Reclaimable
  <2>3. \A m \in Leases \ {l} : lease'[m] = LeaseWithout(Freed(L))[m]
    BY <1>0, <2>1, <2>2, ReclaimTypes
  <2>4. lease'[l] = "waiting"
    <3>1. LeaseWithout(Freed(L)) \in [Leases -> LeaseStates]
      BY <1>0, <2>2, ReclaimTypes
    <3>2. QED BY <2>1, <3>1
  <2>5. QED BY <1>0, <1>3, <2>1, <2>2, <2>3, <2>4, ReclaimEffect DEF Enqueue, TypeOK
<1>5. ASSUME NEW l \in Leases, Withdraw(l) \/ Release(l)
      PROVE  Untyped'
  <2>1. Reclaimed({l}) /\ {l} \in SUBSET Leases
    BY <1>5 DEF Withdraw, Release
  <2>2. /\ \A m \in Leases : pc'[m] # pc[m] => m = l /\ pc'[m] = "done"
        /\ pc[l] \in {"failing", "releasing"}
        /\ budget' = budget /\ alive' = alive
    BY <1>0, <1>5 DEF Withdraw, Release, TypeOK
  <2>3. ASSUME NEW m \in Leases
        PROVE  /\ lease'[m] \in {lease[m], "absent"}
               /\ lease'[m] # lease[m] => m = l /\ ~ChildRuns(m)
               /\ attempt'[m] # attempt[m] => attempt[m] = "reserved" /\ attempt'[m] = "refunded"
               /\ attempt[m] = "reserved" /\ lease'[m] # lease[m] => attempt'[m] = "refunded"
               /\ child'[m] \in {"alive", "killed"} => ChildRuns(m)
               /\ child[m] = "none" => child'[m] = "none"
    BY <1>0, <2>1, ReclaimEffect DEF Reclaimed
  <2>4. DeadAreGone' /\ NewAreAbsent' /\ WaitersAttemptNothing' /\ ChargedAreRegistered'
    BY <1>0, <2>2, <2>3
  <2>5. LiveLeaseKept' /\ ChildrenHoldCapacity' /\ ReservationAccounted'
    BY <1>0, <2>2, <2>3
  <2>6. QED BY <2>4, <2>5
<1>9. ASSUME NEW p \in Procs, Reclaim(p)
      PROVE  Untyped'
  <2>1. Reclaimed(Reclaimable) /\ Reclaimable \in SUBSET Leases
    BY <1>9 DEF Reclaim, Reclaimable
  <2>2. QED BY <1>0, <1>9, <2>1, ReclaimEffect, ReclaimableUnused DEF Reclaim, Reclaimed, TypeOK
<1>13. QED
  BY <1>0, <1>1, <1>2, <1>3, <1>4, <1>5, <1>6, <1>7, <1>8, <1>9, <1>10, <1>11, <1>12
  DEF Next, Acquire, Hold, Quiet, Use, UseAccounted, UseIsCounted

-----------------------------------------------------------------------------
(* Limits *)

LEMMA PartOf ==
  ASSUME NEW S \in SUBSET Leases, NEW T \in SUBSET S
  PROVE  /\ Cardinality(S) \in Nat /\ Cardinality(T) \in Nat
         /\ Cardinality(T) <= Cardinality(S)
<1>1. IsFiniteSet(S)
  BY AdmissionAssumption, FS_Subset
<1>2. IsFiniteSet(T) /\ Cardinality(T) <= Cardinality(S)
  BY <1>1, FS_Subset
<1>3. QED BY <1>1, <1>2, FS_CardinalityType

\* A set of leases that gains one of them grows by one.
LEMMA OneMore ==
  ASSUME NEW S \in SUBSET Leases, NEW l \in Leases, NEW T \in SUBSET (S \cup {l})
  PROVE  /\ Cardinality(S) \in Nat /\ Cardinality(T) \in Nat
         /\ Cardinality(T) <= Cardinality(S) + 1
<1>1. IsFiniteSet(S)
  BY AdmissionAssumption, FS_Subset
<1>2. IsFiniteSet(S \cup {l}) /\ Cardinality(S \cup {l}) <= Cardinality(S) + 1
  <2>1. Cardinality(S) \in Nat
    BY <1>1, FS_CardinalityType
  <2>2. QED BY <1>1, <2>1, FS_AddElement
<1>3. IsFiniteSet(T) /\ Cardinality(T) <= Cardinality(S \cup {l})
  BY <1>2, FS_Subset
<1>4. Cardinality(S) \in Nat /\ Cardinality(T) \in Nat /\ Cardinality(S \cup {l}) \in Nat
  BY <1>1, <1>2, <1>3, FS_CardinalityType
<1>5. QED BY <1>2, <1>3, <1>4

LEMMA UnitsFinite ==
  ASSUME NEW n \in Lanes, NEW L \in SUBSET Leases
  PROVE  IsFiniteSet(Units(n, L)) /\ Cardinality(Units(n, L)) \in Nat
<1>1. IsFiniteSet(L)
  BY AdmissionAssumption, FS_Subset
<1>2. Capacity[n] \in Int
  BY AdmissionAssumption
<1>3. IsFiniteSet(1..Capacity[n])
  BY <1>2, FS_Interval
<1>4. IsFiniteSet(L \X (1..Capacity[n]))
  BY <1>1, <1>3, FS_Product
<1>5. IsFiniteSet(Units(n, L))
  BY <1>4, FS_Subset DEF Units
<1>6. QED BY <1>5, FS_CardinalityType

\* The units of fewer leases are fewer; one more lease of a lane adds its weight to
\* that lane, and nothing to another.
LEMMA UnitsOfFewer ==
  ASSUME NEW n \in Lanes, NEW L \in SUBSET Leases, NEW K \in SUBSET L
  PROVE  Cardinality(Units(n, K)) <= Cardinality(Units(n, L))
<1>1. Units(n, K) \subseteq Units(n, L)
  BY DEF Units
<1>2. QED BY <1>1, UnitsFinite, FS_Subset

LEMMA UnitsOfOneMore ==
  ASSUME NEW n \in Lanes, NEW L \in SUBSET Leases, NEW l \in Leases
  PROVE  Cardinality(Units(n, L \cup {l})) <=
           Cardinality(Units(n, L)) + (IF Lane[l] = n THEN Weight[l] ELSE 0)
<1>1. CASE Lane[l] # n
  <2>1. Units(n, L \cup {l}) = Units(n, L)
    BY <1>1 DEF Units
  <2>2. QED BY <1>1, <2>1, UnitsFinite
<1>2. CASE Lane[l] = n
  <2>. DEFINE W == {l} \X (1..Weight[l])
  <2>1. Weight[l] \in Nat \ {0}
    BY AdmissionAssumption
  <2>2. IsFiniteSet(1..Weight[l]) /\ Cardinality(1..Weight[l]) = Weight[l]
    BY <2>1, FS_Interval
  <2>3. IsFiniteSet({l}) /\ Cardinality({l}) = 1
    BY FS_Singleton
  <2>4. IsFiniteSet(W) /\ Cardinality(W) = Cardinality({l}) * Cardinality(1..Weight[l])
    BY <2>2, <2>3, FS_Product
  <2>5. Cardinality(W) = Weight[l]
    BY <2>1, <2>2, <2>3, <2>4
  <2>6. Units(n, L \cup {l}) \subseteq Units(n, L) \cup W
    <3>1. ASSUME NEW u \in Units(n, L \cup {l}), u \notin Units(n, L)
          PROVE  u \in W
      <4>1. /\ u \in (L \cup {l}) \X (1..Capacity[n])
            /\ Lane[u[1]] = n /\ u[2] <= Weight[u[1]]
        BY DEF Units
      <4>2. u \notin L \X (1..Capacity[n])
        BY <3>1, <4>1 DEF Units
      <4>3. u[1] = l /\ u[2] \in 1..Capacity[n] /\ u = <<u[1], u[2]>>
        BY <4>1, <4>2
      <4>4. u[2] \in 1..Weight[l]
        BY <2>1, <4>1, <4>3
      <4>5. QED BY <4>3, <4>4
    <3>2. QED BY <3>1
  <2>7. IsFiniteSet(Units(n, L)) /\ Cardinality(Units(n, L)) \in Nat
    BY UnitsFinite
  <2>8. /\ IsFiniteSet(Units(n, L) \cup W)
        /\ Cardinality(Units(n, L) \cup W) =
             Cardinality(Units(n, L)) + Cardinality(W) - Cardinality(Units(n, L) \cap W)
    BY <2>4, <2>7, FS_Union
  <2>9. IsFiniteSet(Units(n, L) \cap W)
    BY <2>7, FS_Subset
  <2>10. Cardinality(Units(n, L) \cap W) \in Nat
    BY <2>9, FS_CardinalityType
  <2>11. Cardinality(Units(n, L \cup {l})) <= Cardinality(Units(n, L) \cup W)
    BY <2>6, <2>8, FS_Subset
  <2>12. Cardinality(Units(n, L \cup {l})) \in Nat
    BY UnitsFinite
  <2>13. QED BY <1>2, <2>1, <2>5, <2>7, <2>8, <2>10, <2>11, <2>12
<1>3. QED BY <1>1, <1>2

\* Only an admission adds to what is active or to what is spent; a budget changes
\* only when its submission is registered.
LEMMA Growth ==
  ASSUME Use, [Next]_vars, ~ \E l \in Leases : Admit(l)
  PROVE  /\ Active' \subseteq Active
         /\ \A r \in Runs : Spent(r)' \subseteq Spent(r)
         /\ \/ budget' = budget
            \/ \E r \in Runs, n \in Budgets : Register(r, n)
<1>0. TypeOK
  BY DEF Use
<1>. DEFINE Fewer(l) == /\ lease'[l] \in {"active", "releasing"} =>
                             lease[l] \in {"active", "releasing"}
                        /\ attempt'[l] \notin {"absent", "refunded"} =>
                             attempt[l] \notin {"absent", "refunded"}
<1>1. ASSUME NEW L \in SUBSET Leases, NEW m \in Leases
      PROVE  /\ LeaseWithout(Freed(L))[m] \in {lease[m], "absent"}
             /\ AttemptWithout(Freed(L))[m] \notin {"absent", "refunded"} =>
                  attempt[m] \notin {"absent", "refunded"}
  BY <1>0, ReclaimEffect
<1>2. ASSUME NEW L \in SUBSET Leases, Reclaimed(L)
      PROVE  \A m \in Leases : Fewer(m)
  BY <1>1, <1>2 DEF Reclaimed
<1>3. ASSUME NEW l \in Leases, Enqueue(l)
      PROVE  \A m \in Leases : Fewer(m)
  <2>1. PICK L \in {{}, Reclaimable} :
          /\ lease' = [LeaseWithout(Freed(L)) EXCEPT ![l] = "waiting"]
          /\ attempt' = AttemptWithout(Freed(L))
    BY <1>3 DEF Enqueue
  <2>2. L \in SUBSET Leases
    BY DEF Reclaimable
  <2>3. LeaseWithout(Freed(L)) \in [Leases -> LeaseStates]
    BY <1>0, <2>2, ReclaimTypes
  <2>4. \A m \in Leases : lease'[m] \in {LeaseWithout(Freed(L))[m], "waiting"}
    BY <2>1, <2>3
  <2>5. QED BY <1>1, <2>1, <2>2, <2>4
<1>4. ASSUME NEW l \in Leases, Quiet(l) \/ TrackChild(l) \/ ChildEnds(l)
      PROVE  \A m \in Leases : Fewer(m)
  <2>1. lease' = lease /\ attempt' = attempt
    BY <1>4 DEF Quiet, EnqueueFails, Refuse, Rejected, Cancel, Fails, WithdrawFails, MarkFails,
                ReleaseFails, TrackChild, ChildEnds, db
  <2>2. QED BY <2>1
<1>5. ASSUME NEW l \in Leases, Start(l) \/ End(l)
      PROVE  \A m \in Leases : Fewer(m)
  BY <1>0, <1>5 DEF Start, End, TypeOK, AttemptStates
<1>6. ASSUME NEW l \in Leases, MarkReleasing(l)
      PROVE  \A m \in Leases : Fewer(m)
  <2>1. lease[l] = "active"
    BY <1>6 DEF MarkReleasing, Use, UseAccounted, UseIsCounted, LiveLeaseKept
  <2>2. QED BY <1>0, <1>6, <2>1 DEF MarkReleasing, TypeOK
<1>7. ASSUME NEW l \in Leases, Withdraw(l) \/ Release(l)
      PROVE  \A m \in Leases : Fewer(m)
  <2>1. Reclaimed({l}) /\ {l} \in SUBSET Leases
    BY <1>7 DEF Withdraw, Release
  <2>2. QED BY <1>2, <2>1
<1>8. ASSUME NEW p \in Procs, Reclaim(p)
      PROVE  \A m \in Leases : Fewer(m)
  <2>1. Reclaimed(Reclaimable) /\ Reclaimable \in SUBSET Leases
    BY <1>8 DEF Reclaim, Reclaimable
  <2>2. QED BY <1>2, <2>1
<1>9. ASSUME (\E r \in Runs, n \in Budgets : Register(r, n)) \/ (\E p \in Procs : Exit(p))
               \/ UNCHANGED vars
      PROVE  \A m \in Leases : Fewer(m)
  <2>1. lease' = lease /\ attempt' = attempt
    BY <1>9 DEF Register, Exit, vars, db
  <2>2. QED BY <2>1
<1>10. \A m \in Leases : Fewer(m)
  BY <1>2, <1>3, <1>4, <1>5, <1>6, <1>7, <1>8, <1>9 DEF Next, Acquire, Hold, Quiet
<1>11. \/ budget' = budget
       \/ \E r \in Runs, n \in Budgets : Register(r, n)
  <2>1. ASSUME NEW l \in Leases, Acquire(l) \/ Hold(l)
        PROVE  budget' = budget
    BY <2>1 DEF Acquire, Hold, Enqueue, EnqueueFails, Refuse, Rejected, Cancel, Fails, Admit,
                Withdraw, WithdrawFails, Start, TrackChild, ChildEnds, End, MarkReleasing, MarkFails,
                Release, ReleaseFails, db
  <2>2. ASSUME NEW p \in Procs, Reclaim(p) \/ Exit(p)
        PROVE  budget' = budget
    BY <2>2 DEF Reclaim, Exit, db
  <2>3. CASE UNCHANGED vars
    BY <2>3 DEF vars, db
  <2>4. QED BY <2>1, <2>2, <2>3 DEF Next
<1>12. QED BY <1>10, <1>11 DEF Active, Spent

LEMMA CapacityStep ==
  ASSUME Use, CapacityRespected, [Next]_vars
  PROVE  CapacityRespected'
<1>. DEFINE Running(m) == {k \in Active : Model[k] = m}
<1>0. Active \in SUBSET Leases /\ Active' \in SUBSET Leases
  BY DEF Active
<1>1. CASE Active' \subseteq Active
  <2>1. ASSUME NEW n \in Lanes
        PROVE  Cardinality(Units(n, Active')) <= Capacity[n]
    <3>1. Cardinality(Units(n, Active')) <= Cardinality(Units(n, Active))
      BY <1>0, <1>1, UnitsOfFewer
    <3>2. Cardinality(Units(n, Active)) <= Capacity[n]
      BY DEF CapacityRespected
    <3>3. Capacity[n] \in Nat /\ Cardinality(Units(n, Active)) \in Nat
            /\ Cardinality(Units(n, Active')) \in Nat
      BY <1>0, UnitsFinite, AdmissionAssumption
    <3>4. QED BY <3>1, <3>2, <3>3
  <2>2. ASSUME NEW m \in Models
        PROVE  Cardinality({k \in Active' : Model[k] = m}) <= ModelCap[m]
    <3>1. /\ Cardinality(Running(m)) \in Nat
          /\ Cardinality({k \in Active' : Model[k] = m}) \in Nat
          /\ Cardinality({k \in Active' : Model[k] = m}) <= Cardinality(Running(m))
      BY <1>0, <1>1, PartOf
    <3>2. Cardinality(Running(m)) <= ModelCap[m] /\ ModelCap[m] \in Nat
      BY AdmissionAssumption DEF CapacityRespected
    <3>3. QED BY <3>1, <3>2
  <2>3. QED BY <2>1, <2>2 DEF CapacityRespected
<1>2. ASSUME NEW l \in Leases, Admit(l)
      PROVE  CapacityRespected'
  <2>1. Active' = Active \cup {l}
    BY <1>2 DEF Admit, Active, Use, TypeOK
  <2>2. FitsLane(l) /\ FitsModel(l)
    BY <1>2 DEF Admit, Eligible
  <2>3. ASSUME NEW n \in Lanes
        PROVE  Cardinality(Units(n, Active')) <= Capacity[n]
    <3>1. Cardinality(Units(n, Active')) <=
            Cardinality(Units(n, Active)) + (IF Lane[l] = n THEN Weight[l] ELSE 0)
      BY <1>0, <2>1, UnitsOfOneMore
    <3>2. Cardinality(Units(n, Active)) <= Capacity[n]
      BY DEF CapacityRespected
    <3>3. Lane[l] = n => Cardinality(Units(n, Active)) + Weight[l] <= Capacity[n]
      BY <2>2 DEF FitsLane
    <3>4. /\ Capacity[n] \in Nat /\ Weight[l] \in Nat
          /\ Cardinality(Units(n, Active)) \in Nat /\ Cardinality(Units(n, Active')) \in Nat
      BY <1>0, UnitsFinite, AdmissionAssumption
    <3>5. QED BY <3>1, <3>2, <3>3, <3>4
  <2>4. ASSUME NEW m \in Models
        PROVE  Cardinality({k \in Active' : Model[k] = m}) <= ModelCap[m]
    <3>1. Cardinality(Running(m)) <= ModelCap[m] /\ ModelCap[m] \in Nat
      BY AdmissionAssumption DEF CapacityRespected
    <3>2. CASE Model[l] = m
      <4>1. m # None
        BY AdmissionAssumption
      <4>2. Cardinality(Running(m)) < ModelCap[m]
        BY <2>2, <3>2, <4>1 DEF FitsModel
      <4>3. /\ Cardinality(Running(m)) \in Nat
            /\ Cardinality({k \in Active' : Model[k] = m}) \in Nat
            /\ Cardinality({k \in Active' : Model[k] = m}) <= Cardinality(Running(m)) + 1
        BY <1>0, <2>1, OneMore
      <4>4. QED BY <3>1, <4>2, <4>3
    <3>3. CASE Model[l] # m
      <4>1. {k \in Active' : Model[k] = m} = Running(m)
        BY <2>1, <3>3
      <4>2. QED BY <3>1, <4>1
    <3>4. QED BY <3>2, <3>3
  <2>5. QED BY <2>3, <2>4 DEF CapacityRespected
<1>3. QED BY <1>1, <1>2, Growth

LEMMA RepoStep ==
  ASSUME Use, RepoCapRespected, [Next]_vars
  PROVE  RepoCapRespected'
<1>0. Active \in SUBSET Leases /\ Active' \in SUBSET Leases
  BY DEF Active
<1>. SUFFICES ASSUME NEW k \in Active', Run[k] # None, RepoCap[k] # None
              PROVE  Cardinality(Peers(Repo[k], Active')) <= RepoCap[k]
  BY DEF RepoCapRespected, Peers
<1>1. RepoCap[k] \in Nat /\ k \in Leases
  BY <1>0, AdmissionAssumption
<1>2. k \in Active => Cardinality(Peers(Repo[k], Active)) <= RepoCap[k]
  BY DEF RepoCapRespected
<1>3. Peers(Repo[k], Active) \in SUBSET Leases
  BY <1>0 DEF Peers
<1>4. CASE Active' \subseteq Active
  <2>1. Peers(Repo[k], Active') \in SUBSET Peers(Repo[k], Active)
    BY <1>4 DEF Peers
  <2>2. QED BY <1>1, <1>2, <1>3, <1>4, <2>1, PartOf
<1>5. ASSUME NEW l \in Leases, Admit(l)
      PROVE  Cardinality(Peers(Repo[k], Active')) <= RepoCap[k]
  <2>1. Active' = Active \cup {l}
    BY <1>5 DEF Admit, Active, Use, TypeOK
  <2>2. FitsRepo(l)
    BY <1>5 DEF Admit, Eligible
  <2>3. CASE Run[l] # None /\ Repo[l] = Repo[k]
    <3>1. k \in Peers(Repo[l], Active) \cup {l}
      BY <2>1, <2>3 DEF Peers
    <3>2. Cardinality(Peers(Repo[k], Active)) < RepoCap[k]
      BY <2>2, <2>3, <3>1 DEF FitsRepo
    <3>3. Peers(Repo[k], Active') \in SUBSET (Peers(Repo[k], Active) \cup {l})
      BY <2>1 DEF Peers
    <3>4. QED BY <1>1, <1>3, <3>2, <3>3, OneMore
  <2>4. CASE ~(Run[l] # None /\ Repo[l] = Repo[k])
    <3>1. Peers(Repo[k], Active') = Peers(Repo[k], Active) /\ k \in Active
      BY <2>1, <2>4 DEF Peers
    <3>2. QED BY <1>2, <3>1
  <2>5. QED BY <2>3, <2>4
<1>6. QED BY <1>4, <1>5, Growth

LEMMA BudgetStep ==
  ASSUME Use, BudgetRespected, [Next]_vars
  PROVE  BudgetRespected'
<1>0. TypeOK
  BY DEF Use
<1>. SUFFICES ASSUME NEW r \in Runs, budget'[r] \in Nat
              PROVE  Cardinality(Spent(r)') <= budget'[r]
  BY DEF BudgetRespected
<1>1. Spent(r) \in SUBSET Leases /\ r # None
  BY AdmissionAssumption DEF Spent
<1>2. CASE budget' = budget /\ Spent(r)' \subseteq Spent(r)
  <2>1. Cardinality(Spent(r)) <= budget[r] /\ budget[r] \in Nat
    BY <1>2 DEF BudgetRespected
  <2>2. QED BY <1>1, <1>2, <2>1, PartOf
<1>3. ASSUME Spent(r)' \subseteq Spent(r), NEW q \in Runs, NEW n \in Budgets, Register(q, n)
      PROVE  Cardinality(Spent(r)') <= budget'[r]
  <2>1. CASE q = r
    <3>1. Spent(r) = {}
      <4>1. budget[r] = Unregistered
        BY <1>3, <2>1 DEF Register
      <4>2. QED BY <1>1, <4>1 DEF Spent, Use, ChargedAreRegistered
    <3>2. Spent(r)' = {}
      BY <1>3, <3>1
    <3>3. Cardinality(Spent(r)') = 0
      BY <3>2, FS_EmptySet
    <3>4. QED BY <3>3
  <2>2. CASE q # r
    <3>1. budget'[r] = budget[r]
      BY <1>0, <1>3, <2>2 DEF Register, TypeOK
    <3>2. Cardinality(Spent(r)) <= budget[r] /\ budget[r] \in Nat
      BY <3>1 DEF BudgetRespected
    <3>3. QED BY <1>1, <1>3, <3>1, <3>2, PartOf
  <2>3. QED BY <2>1, <2>2
<1>4. ASSUME NEW l \in Leases, Admit(l)
      PROVE  Cardinality(Spent(r)') <= budget'[r]
  <2>1. budget'[r] = budget[r]
    BY <1>4 DEF Admit
  <2>2. Cardinality(Spent(r)) <= budget[r] /\ budget[r] \in Nat
    BY <2>1 DEF BudgetRespected
  <2>3. CASE Run[l] = r
    <3>1. Cardinality(Spent(r)) < budget[r]
      <4>1. budget[r] # None
        BY <2>2, AdmissionAssumption
      <4>2. QED BY <1>1, <1>4, <2>3, <4>1 DEF Admit, Solvent
    <3>2. Spent(r)' \in SUBSET (Spent(r) \cup {l})
      BY <1>0, <1>4 DEF Spent, Admit, TypeOK
    <3>3. QED BY <1>1, <2>1, <2>2, <3>1, <3>2, OneMore
  <2>4. CASE Run[l] # r
    <3>1. Spent(r)' = Spent(r)
      BY <1>0, <1>4, <2>4 DEF Spent, Admit, TypeOK
    <3>2. QED BY <2>1, <2>2, <3>1
  <2>5. QED BY <2>3, <2>4
<1>5. QED BY <1>2, <1>3, <1>4, Growth

-----------------------------------------------------------------------------
(* Theorems *)

LEMMA InitHolds ==
  ASSUME Init
  PROVE  IInv
<1>. USE AdmissionAssumption DEF Init
<1>1. Use
  <2>1. TypeOK
    BY DEF TypeOK, LeaseStates, AttemptStates
  <2>2. QED
    BY <2>1 DEF Use, DeadAreGone, NewAreAbsent, WaitersAttemptNothing, ChargedAreRegistered,
                UseAccounted, UseIsCounted, LiveLeaseKept, ChildrenHoldCapacity, ChildRuns,
                ReservationAccounted
<1>2. Active = {}
  BY DEF Active
<1>3. CapacityRespected
  <2>1. ASSUME NEW n \in Lanes
        PROVE  Cardinality(Units(n, Active)) <= Capacity[n]
    <3>1. Units(n, Active) = {}
      BY <1>2 DEF Units
    <3>2. Cardinality(Units(n, Active)) = 0
      BY <3>1, FS_EmptySet
    <3>3. QED BY <3>2
  <2>2. ASSUME NEW m \in Models
        PROVE  Cardinality({l \in Active : Model[l] = m}) <= ModelCap[m]
    <3>1. {l \in Active : Model[l] = m} = {}
      BY <1>2
    <3>2. Cardinality({l \in Active : Model[l] = m}) = 0
      BY <3>1, FS_EmptySet
    <3>3. QED BY <3>2
  <2>3. QED BY <2>1, <2>2 DEF CapacityRespected
<1>4. RepoCapRespected
  BY <1>2 DEF RepoCapRespected
<1>5. BudgetRespected
  BY DEF BudgetRespected
<1>6. QED BY <1>1, <1>3, <1>4, <1>5 DEF IInv, LimitsRespected

\* The inductive invariant: besides the checked invariants, that a process which ended
\* took its calls with it, that a call has no row before it queues and no attempt before
\* it is admitted, and that only a registered submission is charged.
THEOREM AdmissionInvariant == Spec => []IInv
<1>1. Init => IInv
  BY InitHolds
<1>2. IInv /\ [Next]_vars => IInv'
  BY UseStep, CapacityStep, RepoStep, BudgetStep DEF IInv, LimitsRespected
<1>3. QED BY <1>1, <1>2, PTL DEF Spec

\* Lanes, models, repositories and submissions keep within what they declare, for any
\* processes, capacities, weights, caps and budgets, whichever processes die.
THEOREM LimitsHold == Spec => []LimitsRespected
<1>1. IInv => LimitsRespected
  BY DEF IInv
<1>2. QED BY <1>1, AdmissionInvariant, PTL

\* No reclaim takes a row from a waiter or an execution that is in use, nor from a child
\* group that outlived its owner, and no reservation outlives its lease.
THEOREM UseHolds == Spec => []UseAccounted
<1>1. IInv => UseAccounted
  BY DEF IInv, Use
<1>2. QED BY <1>1, AdmissionInvariant, PTL

\* A started attempt is never refunded nor reserved again.
THEOREM StartedStays == Spec => StartedIsSpent
<1>1. ASSUME IInv, [Next]_vars
      PROVE  [\A l \in Leases : attempt[l] \in {"started", "terminal"}
                                 => attempt'[l] \in {"started", "terminal"}]_vars
  <2>. SUFFICES ASSUME NEW m \in Leases, attempt[m] \in {"started", "terminal"}
                PROVE  attempt'[m] \in {"started", "terminal"}
    OBVIOUS
  <2>0. TypeOK /\ WaitersAttemptNothing
    BY <1>1 DEF IInv, Use
  <2>1. ASSUME NEW L \in SUBSET Leases
        PROVE  AttemptWithout(Freed(L))[m] = attempt[m]
    BY <2>0, ReclaimEffect
  <2>2. ASSUME NEW l \in Leases, Enqueue(l)
        PROVE  attempt'[m] = attempt[m]
    <3>1. PICK L \in {{}, Reclaimable} : attempt' = AttemptWithout(Freed(L))
      BY <2>2 DEF Enqueue
    <3>2. QED BY <2>1, <3>1 DEF Reclaimable
  <2>3. ASSUME NEW l \in Leases, Withdraw(l) \/ Release(l)
        PROVE  attempt'[m] = attempt[m]
    BY <2>1, <2>3 DEF Withdraw, Release, Reclaimed
  <2>4. ASSUME NEW p \in Procs, Reclaim(p)
        PROVE  attempt'[m] = attempt[m]
    BY <2>1, <2>4 DEF Reclaim, Reclaimed, Reclaimable
  <2>5. ASSUME NEW l \in Leases, Admit(l)
        PROVE  attempt'[m] = attempt[m]
    <3>1. attempt[l] = "absent"
      BY <2>0, <2>5 DEF Admit, Polls, WaitersAttemptNothing
    <3>2. QED BY <2>0, <2>5, <3>1 DEF Admit, TypeOK
  <2>6. ASSUME NEW l \in Leases, Start(l) \/ End(l)
        PROVE  attempt'[m] \in {"started", "terminal"}
    BY <2>0, <2>6 DEF Start, End, TypeOK
  <2>7. ASSUME NEW l \in Leases, Quiet(l) \/ TrackChild(l) \/ ChildEnds(l) \/ MarkReleasing(l)
        PROVE  attempt'[m] = attempt[m]
    BY <2>7 DEF Quiet, EnqueueFails, Refuse, Rejected, Cancel, Fails, WithdrawFails, MarkFails,
                ReleaseFails, TrackChild, ChildEnds, MarkReleasing, db
  <2>8. ASSUME (\E r \in Runs, n \in Budgets : Register(r, n)) \/ (\E p \in Procs : Exit(p))
                 \/ UNCHANGED vars
        PROVE  attempt'[m] = attempt[m]
    BY <2>8 DEF Register, Exit, vars, db
  <2>9. QED
    BY <1>1, <2>2, <2>3, <2>4, <2>5, <2>6, <2>7, <2>8 DEF Next, Acquire, Hold, Quiet
<1>2. QED BY <1>1, AdmissionInvariant, PTL DEF Spec, StartedIsSpent
=============================================================================
