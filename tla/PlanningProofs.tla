--------------------------- MODULE PlanningProofs ---------------------------
(***************************************************************************)
(* What queryProject and planProject compute, for every project: any       *)
(* relations between any artifacts, cycles included, any critics and any   *)
(* selections, as long as the components are what ComponentsAssumption     *)
(* says.  First induction and iteration over sets and functions, which the *)
(* provers can instantiate; then closures, gates, the pass over the gates, *)
(* the evidence of the cache; then the three properties of Planning.       *)
(***************************************************************************)
EXTENDS Planning, FiniteSetTheorems, WellFoundedInduction, TLAPS

\* A set of numbers has a least one.
LEMMA LeastNat ==
  ASSUME NEW S \in SUBSET Nat, S # {}
  PROVE  \E m \in S : \A n \in S : m <= n
<1>1. PICK m \in S : \A n \in S : ~(<<n, m>> \in OpToRel(<, Nat))
  <2>. DEFINE R == OpToRel(<, Nat)
  <2>1. IsWellFoundedOn(R, Nat)
    BY NatLessThanWellFounded
  <2>. HIDE DEF R
  <2>. QED BY <2>1, WFMin, Zenon DEF R
<1>2. \A n \in S : ~(n < m)
  BY <1>1 DEF OpToRel
<1>. QED BY <1>2

\* Induction, about a set instead of a predicate.
LEMMA NatSet ==
  ASSUME NEW T \in SUBSET Nat, 0 \in T, \A n \in T : n + 1 \in T
  PROVE  T = Nat
<1>. SUFFICES ASSUME Nat \ T # {} PROVE FALSE
  OBVIOUS
<1>1. PICK m \in Nat \ T : \A n \in Nat \ T : m <= n
  BY LeastNat
<1>2. m # 0 /\ m - 1 \in Nat
  OBVIOUS
<1>3. m - 1 \in T
  BY <1>1, <1>2
<1>. QED BY <1>2, <1>3

\* Functions to be applied one after the other, and what results, from x on.
Steps(S) == [Nat -> [S -> S]]
Iterated(f, S, x, step) ==
  f \in [Nat -> S] /\ f[0] = x /\ \A n \in Nat : f[n + 1] = step[n + 1][f[n]]

\* Whatever the steps are, something results of taking one after the other.
LEMMA Iterates ==
  ASSUME NEW S, NEW x, x \in S, NEW step, step \in Steps(S)
  PROVE  \E f : Iterated(f, S, x, step)
<1>. DEFINE Upto(n, p) == /\ p \in [0..n -> S] /\ p[0] = x
                          /\ \A i \in Nat : i < n => p[i + 1] = step[i + 1][p[i]]
<1>. USE DEF Steps
<1>1. \A n \in Nat : \E p : Upto(n, p)
  <2>. DEFINE T == {n \in Nat : \E p : Upto(n, p)}
  <2>1. 0 \in T
    <3>1. Upto(0, [i \in 0..0 |-> x])
      OBVIOUS
    <3>. QED BY <3>1
  <2>2. ASSUME NEW n \in T PROVE n + 1 \in T
    <3>1. PICK p : Upto(n, p)
      OBVIOUS
    <3>. DEFINE q == [i \in 0..(n + 1) |-> IF i = n + 1 THEN step[n + 1][p[n]] ELSE p[i]]
    <3>2. p[n] \in S /\ step[n + 1] \in [S -> S]
      BY <3>1
    <3>3. q \in [0..(n + 1) -> S]
      BY <3>1, <3>2
    <3>4. q[0] = x
      BY <3>1
    <3>5. ASSUME NEW i \in Nat, i < n + 1 PROVE q[i + 1] = step[i + 1][q[i]]
      BY <3>1, <3>5
    <3>6. Upto(n + 1, q)
      BY <3>3, <3>4, <3>5
    <3>. HIDE DEF q
    <3>7. n + 1 \in Nat
      OBVIOUS
    <3>. HIDE DEF Upto
    <3>. QED BY <3>6, <3>7, Zenon
  <2>3. T \in SUBSET Nat
    OBVIOUS
  <2>. HIDE DEF T
  <2>4. T = Nat
    BY <2>1, <2>2, <2>3, NatSet
  <2>. QED BY <2>4 DEF T
<1>2. ASSUME NEW m \in Nat, NEW n \in Nat, NEW p, NEW q, Upto(m, p), Upto(n, q)
      PROVE  \A i \in Nat : i <= m /\ i <= n => p[i] = q[i]
  <2>. DEFINE T == {i \in Nat : i <= m /\ i <= n => p[i] = q[i]}
  <2>1. 0 \in T
    BY <1>2
  <2>2. ASSUME NEW i \in T PROVE i + 1 \in T
    BY <1>2
  <2>. QED BY <2>1, <2>2, NatSet
<1>. DEFINE part(n) == CHOOSE p : Upto(n, p)
            f == [n \in Nat |-> part(n)[n]]
<1>3. \A n \in Nat : Upto(n, part(n))
  BY <1>1
<1>. HIDE DEF part
<1>4. f \in [Nat -> S]
  BY <1>3
<1>5. f[0] = x
  BY <1>3
<1>6. ASSUME NEW n \in Nat PROVE f[n + 1] = step[n + 1][f[n]]
  <2>1. part(n + 1)[n + 1] = step[n + 1][part(n + 1)[n]]
    BY <1>3
  <2>2. part(n + 1)[n] = part(n)[n]
    <3>1. Upto(n, part(n)) /\ Upto(n + 1, part(n + 1))
      BY <1>3
    <3>. HIDE DEF Upto
    <3>. QED BY <3>1, <1>2
  <2>. QED BY <2>1, <2>2
<1>7. Iterated(f, S, x, step)
  BY <1>4, <1>5, <1>6 DEF Iterated
<1>. QED BY <1>7

-----------------------------------------------------------------------------
\* Once is only about how TLC evaluates.
LEMMA OnceIs == \A v : Once(v) = v
BY DEF Once

\* The closure is the least closed set with the roots.
LEMMA ClosureFacts ==
  ASSUME NEW rel \in SUBSET (Artifacts \X Artifacts), NEW roots \in SUBSET Artifacts
  PROVE  /\ Closure(rel, roots) \in SUBSET Artifacts
         /\ roots \subseteq Closure(rel, roots)
         /\ Closed(rel, Closure(rel, roots))
         /\ \A S \in SUBSET Artifacts :
              roots \subseteq S /\ Closed(rel, S) => Closure(rel, roots) \subseteq S
<1>1. Closed(rel, Closure(rel, roots))
  <2>. SUFFICES ASSUME NEW e \in rel, e[1] \in Closure(rel, roots),
                       NEW S \in SUBSET Artifacts, roots \subseteq S, Closed(rel, S)
                PROVE  e[2] \in Artifacts /\ e[2] \in S
    BY DEF Closed, Closure
  <2>. QED BY DEF Closed, Closure
<1>. QED BY <1>1 DEF Closure

\* Those that must have passed before c is reviewed.
Needed(rel, c) ==
  {d \in Critics : Target[d] \notin Basis \cup Cycle(rel, Target[c]) /\
     \E e \in rel : e[1] \in Cycle(rel, Target[c]) /\ e[2] \in Cycle(rel, Target[d])}

\* criticGates: every critic is in exactly one gate, which waits for those that review what
\* its artifact refers to outside of its cycle, and they are all in earlier gates.
LEMMA GateFacts ==
  ASSUME NEW rel \in Relations
  PROVE  /\ Len(Gates(rel)) \in Nat /\ DOMAIN Gates(rel) = 1..Len(Gates(rel))
         /\ \A n \in DOMAIN Gates(rel) : Gates(rel)[n].critics \subseteq Critics /\ Gates(rel)[n].needs \subseteq Critics
         /\ \A c \in Critics : \E n \in DOMAIN Gates(rel) : c \in Gates(rel)[n].critics
         /\ \A m, n \in DOMAIN Gates(rel) : \A c \in Gates(rel)[m].critics :
              /\ Gates(rel)[m].needs = Needed(rel, c)
              /\ c \in Gates(rel)[n].critics => m = n
              /\ c \in Gates(rel)[n].needs => m < n
<1>. DEFINE C == Components(rel)
            G == Gates(rel)
            Of(a) == CHOOSE n \in DOMAIN C : a \in C[n]
            In(n) == {c \in Critics : Of(Target[c]) = n}
            Needs(n) == {Of(e[2]) : e \in {e \in rel : Of(e[1]) = n}} \ {n}
<1>1. /\ rel \in SUBSET (Artifacts \X Artifacts) /\ Target \in [Critics -> Artifacts]
      /\ Condensed(rel, C)
  BY QueryAssumption, ComponentsAssumption
<1>2. /\ C \in Seq(SUBSET Artifacts) /\ DOMAIN C = 1..Len(C) /\ Len(C) \in Nat
  BY <1>1 DEF Condensed
<1>3. ASSUME NEW a \in Artifacts
      PROVE  Of(a) \in DOMAIN C /\ a \in C[Of(a)] /\ \A n \in DOMAIN C : a \in C[n] => n = Of(a)
  <2>1. \E n \in DOMAIN C : a \in C[n]
    BY <1>1 DEF Condensed, Range
  <2>2. Of(a) \in DOMAIN C /\ a \in C[Of(a)]
    BY <2>1
  <2>. HIDE DEF Of
  <2>. QED BY <2>2, <1>1 DEF Condensed
<1>4. G = [n \in DOMAIN C |-> [critics |-> In(n),
             needs |-> {c \in UNION {In(m) : m \in Needs(n)} : Target[c] \notin Basis}]]
  BY DEF Gates, GatesBetween
<1>. HIDE DEF Of, G, C
<1>5. ASSUME NEW a \in Artifacts, NEW b \in Artifacts
      PROVE  (Of(a) = Of(b)) <=> b \in Cycle(rel, a)
  BY <1>1, <1>3, <1>5 DEF Condensed
<1>6. ASSUME NEW e \in rel PROVE e[1] \in Artifacts /\ e[2] \in Artifacts /\ Of(e[2]) <= Of(e[1])
  BY <1>1, <1>3, <1>6 DEF Condensed
<1>7. \A n \in DOMAIN C : G[n].critics = In(n) /\ G[n].needs \subseteq Critics
  BY <1>4
<1>8. ASSUME NEW n \in DOMAIN C, NEW d \in Critics
      PROVE  d \in G[n].needs <=>
               /\ Target[d] \notin Basis /\ Of(Target[d]) # n
               /\ \E e \in rel : Of(e[1]) = n /\ Of(e[2]) = Of(Target[d])
  BY <1>4, <1>8
<1>. HIDE DEF In, Needs
<1>9. ASSUME NEW m \in DOMAIN C, NEW c \in In(m) PROVE G[m].needs = Needed(rel, c)
  <2>1. c \in Critics /\ Of(Target[c]) = m /\ Target[c] \in Artifacts
    BY <1>1, <1>9 DEF In
  <2>2. ASSUME NEW d \in Critics PROVE d \in G[m].needs <=> d \in Needed(rel, c)
    <3>1. Target[d] \in Artifacts
      BY <1>1
    <3>2. Of(Target[d]) # m <=> Target[d] \notin Cycle(rel, Target[c])
      BY <2>1, <3>1, <1>5
    <3>3. \A e \in rel : /\ Of(e[1]) = m <=> e[1] \in Cycle(rel, Target[c])
                         /\ Of(e[2]) = Of(Target[d]) <=> e[2] \in Cycle(rel, Target[d])
      BY <2>1, <3>1, <1>5, <1>6
    <3>. QED BY <3>1, <3>2, <3>3, <1>8 DEF Needed
  <2>. QED BY <2>2, <1>7 DEF Needed
<1>10. ASSUME NEW m \in DOMAIN C, NEW n \in DOMAIN C, NEW c \in In(m)
       PROVE  /\ c \in In(n) => m = n
              /\ c \in G[n].needs => m < n
  <2>1. c \in Critics /\ Of(Target[c]) = m
    BY DEF In
  <2>2. m \in Nat /\ n \in Nat
    BY <1>2
  <2>. QED BY <2>1, <2>2, <1>6, <1>8 DEF In
<1>11. \A c \in Critics : \E n \in DOMAIN C : c \in In(n)
  BY <1>1, <1>3 DEF In
<1>12. DOMAIN G = DOMAIN C /\ Len(G) = Len(C)
  <2>1. DOMAIN G = 1..Len(C)
    BY <1>2, <1>4
  <2>. QED BY <2>1, <1>2, <1>4
<1>13. \A n : In(n) \subseteq Critics
  BY DEF In
<1>. QED BY <1>2, <1>7, <1>9, <1>10, <1>11, <1>12, <1>13 DEF G

-----------------------------------------------------------------------------
\* What a critic may show that nobody executes.
States == {"PASS", "RED", "STALE", "UNREVIEWED", "BLOCKED", "WAIT_DEPENDENCY"}
Statuses == [Critics -> States]

\* What gates have in common: they are a sequence over the critics, and whoever a gate
\* waits for is behind an earlier one.
Ordered(gates) ==
  /\ Len(gates) \in Nat /\ DOMAIN gates = 1..Len(gates)
  /\ \A m, n \in DOMAIN gates : \A c \in gates[m].critics :
       /\ c \in gates[n].critics => m = n
       /\ c \in gates[n].needs => m < n
  /\ \A n \in DOMAIN gates :
       /\ gates[n].critics \subseteq Critics /\ gates[n].needs \subseteq Critics
       /\ \A c \in gates[n].needs : \E m \in DOMAIN gates : c \in gates[m].critics

\* What those a gate waits for show if they have not passed, and what that makes of a critic.
Unmet(status, needs) == {status[d] : d \in needs} \ {"PASS"}
Held(status, needs) ==
  IF Unmet(status, needs) \cap {"RED", "BLOCKED"} # {} THEN "BLOCKED" ELSE "WAIT_DEPENDENCY"

\* What one gate changes.
LEMMA GatedFacts ==
  ASSUME NEW status \in Statuses, NEW gate
  PROVE  /\ Gated(status, gate) \in Statuses
         /\ \A c \in Critics : Gated(status, gate)[c] =
              IF c \in gate.critics /\ Unmet(status, gate.needs) # {}
              THEN Held(status, gate.needs) ELSE status[c]
<1>. DEFINE f == [c \in Critics |-> IF c \in gate.critics THEN Held(status, gate.needs) ELSE status[c]]
<1>1. Gated(status, gate) = IF Unmet(status, gate.needs) = {} THEN status ELSE f
  BY OnceIs DEF Gated, Held, Unmet
<1>2. Held(status, gate.needs) \in States
  <2>1. Held(status, gate.needs) \in {"BLOCKED", "WAIT_DEPENDENCY"}
    BY Zenon DEF Held
  <2>. QED BY <2>1 DEF States
<1>. HIDE DEF Unmet, Held
<1>. QED BY <1>1, <1>2 DEF Statuses

\* The pass over the gates is an iteration.
LEMMA PassedSteps ==
  ASSUME NEW own \in Statuses, NEW gates, Len(gates) \in Nat
  PROVE  \E after \in [0..Len(gates) -> Statuses] :
           /\ after[0] = own /\ after[Len(gates)] = Passed(own, gates)
           /\ \A n \in 1..Len(gates) : after[n] = Gated(after[n - 1], gates[n])
<1>. DEFINE N == Len(gates)
            step == [n \in Nat |-> [s \in Statuses |-> Gated(s, gates[n])]]
            Rec(h) == h = [n \in 0..N |-> IF n = 0 THEN own ELSE Gated(h[n - 1], gates[n])]
            after == CHOOSE h : Rec(h)
<1>1. step \in Steps(Statuses)
  BY GatedFacts DEF Steps
<1>2. PICK f : f \in [Nat -> Statuses] /\ f[0] = own /\ \A n \in Nat : f[n + 1] = step[n + 1][f[n]]
  <2>. HIDE DEF step
  <2>1. PICK f : Iterated(f, Statuses, own, step)
    BY <1>1, Iterates, Zenon
  <2>. QED BY <2>1 DEF Iterated
<1>3. Rec([n \in 0..N |-> f[n]])
  <2>1. ASSUME NEW n \in 0..N, n # 0 PROVE f[n] = Gated(f[n - 1], gates[n])
    <3>1. n - 1 \in Nat /\ (n - 1) + 1 = n
      BY <2>1
    <3>2. f[n - 1] \in Statuses /\ f[n] = step[n][f[n - 1]]
      <4>. HIDE DEF step
      <4>. QED BY <3>1, <1>2
    <3>3. step[n] = [s \in Statuses |-> Gated(s, gates[n])]
      BY <3>1
    <3>. QED BY <3>2, <3>3
  <2>. QED BY <2>1, <1>2
<1>4. Rec(after)
  <2>. HIDE DEF Rec
  <2>. QED BY <1>3
<1>5. Passed(own, gates) = after[N]
  BY DEF Passed
<1>. HIDE DEF after
<1>6. /\ after[0] = own /\ DOMAIN after = 0..N
      /\ \A n \in 1..N : after[n] = Gated(after[n - 1], gates[n])
  BY <1>4
<1>7. after = [n \in 0..N |-> after[n]]
  BY <1>4
<1>8. \A n \in 0..N : after[n] \in Statuses
  <2>. DEFINE T == {n \in Nat : n <= N => after[n] \in Statuses}
  <2>1. 0 \in T
    BY <1>6
  <2>2. ASSUME NEW n \in T PROVE n + 1 \in T
    <3>1. CASE n + 1 <= N
      <4>1. after[n + 1] = Gated(after[n], gates[n + 1]) /\ after[n] \in Statuses
        BY <3>1, <1>6
      <4>. QED BY <4>1, GatedFacts
    <3>. QED BY <3>1
  <2>3. T \in SUBSET Nat
    OBVIOUS
  <2>. HIDE DEF T
  <2>4. T = Nat
    BY <2>1, <2>2, <2>3, NatSet
  <2>. QED BY <2>4 DEF T
<1>. QED BY <1>5, <1>6, <1>7, <1>8

\* One pass is enough: in the end every critic shows what the final states of those it
\* waits for make of its own state.
LEMMA PassedFacts ==
  ASSUME NEW own \in Statuses, NEW gates, Ordered(gates)
  PROVE  /\ Passed(own, gates) \in Statuses
         /\ \A n \in DOMAIN gates : \A c \in gates[n].critics :
              Passed(own, gates)[c] =
                IF Unmet(Passed(own, gates), gates[n].needs) # {}
                THEN Held(Passed(own, gates), gates[n].needs) ELSE own[c]
<1>. DEFINE N == Len(gates)
            final == Passed(own, gates)
<1>1. N \in Nat /\ DOMAIN gates = 1..N
  BY DEF Ordered
<1>2. PICK after \in [0..N -> Statuses] :
        /\ after[0] = own /\ after[N] = final
        /\ \A n \in 1..N : after[n] = Gated(after[n - 1], gates[n])
  BY <1>1, PassedSteps
<1>. HIDE DEF final
<1>3. ASSUME NEW n \in 1..N, NEW c \in Critics
      PROVE  /\ after[n - 1] \in Statuses /\ n - 1 \in 0..N
             /\ after[n][c] = IF c \in gates[n].critics /\ Unmet(after[n - 1], gates[n].needs) # {}
                              THEN Held(after[n - 1], gates[n].needs) ELSE after[n - 1][c]
  <2>1. n - 1 \in 0..N /\ after[n - 1] \in Statuses
    BY <1>1, <1>2
  <2>2. after[n] = Gated(after[n - 1], gates[n])
    BY <1>2
  <2>3. \A d \in Critics : Gated(after[n - 1], gates[n])[d] =
          IF d \in gates[n].critics /\ Unmet(after[n - 1], gates[n].needs) # {}
          THEN Held(after[n - 1], gates[n].needs) ELSE after[n - 1][d]
    BY <2>1, GatedFacts, Zenon
  <2>. QED BY <2>1, <2>2, <2>3
<1>4. ASSUME NEW m \in 1..N, NEW c \in gates[m].critics, NEW n \in 0..N
      PROVE  after[n][c] = IF n < m THEN own[c] ELSE after[m][c]
  <2>. DEFINE T == {k \in Nat : k <= N => after[k][c] = IF k < m THEN own[c] ELSE after[m][c]}
  <2>1. 0 \in T
    BY <1>2
  <2>2. ASSUME NEW k \in T PROVE k + 1 \in T
    <3>. SUFFICES ASSUME k + 1 <= N PROVE after[k + 1][c] = IF k + 1 < m THEN own[c] ELSE after[m][c]
      OBVIOUS
    <3>1. CASE k + 1 = m
      BY <3>1
    <3>2. CASE k + 1 # m
      <4>1. c \notin gates[k + 1].critics
        BY <3>2, <1>1 DEF Ordered
      <4>2. k + 1 \in 1..N /\ (k + 1) - 1 = k /\ c \in Critics
        BY <1>1 DEF Ordered
      <4>3. after[k + 1][c] = after[k][c]
        BY <4>1, <4>2, <1>3
      <4>. QED BY <4>3, <3>2
    <3>. QED BY <3>1, <3>2
  <2>3. T \in SUBSET Nat
    OBVIOUS
  <2>. HIDE DEF T
  <2>4. T = Nat
    BY <2>1, <2>2, <2>3, NatSet
  <2>. QED BY <2>4 DEF T
<1>5. ASSUME NEW n \in DOMAIN gates, NEW c \in gates[n].critics
      PROVE  final[c] = IF Unmet(final, gates[n].needs) # {} THEN Held(final, gates[n].needs) ELSE own[c]
  <2>1. n \in 1..N /\ n - 1 \in 0..N /\ n - 1 < n /\ N \in 0..N /\ ~(N < n)
    BY <1>1
  <2>2. \A d \in gates[n].needs : after[n - 1][d] = final[d]
    <3>. SUFFICES ASSUME NEW d \in gates[n].needs PROVE after[n - 1][d] = final[d]
      OBVIOUS
    <3>1. PICK m \in 1..N : d \in gates[m].critics
      BY <1>1, <2>1 DEF Ordered
    <3>2. m < n
      BY <3>1, <1>1, <2>1 DEF Ordered
    <3>3. after[n - 1][d] = after[m][d] /\ after[N][d] = after[m][d]
      BY <3>1, <3>2, <2>1, <1>1, <1>4
    <3>. QED BY <3>3, <1>2
  <2>3. Unmet(after[n - 1], gates[n].needs) = Unmet(final, gates[n].needs)
    BY <2>2 DEF Unmet
  <2>4. Held(after[n - 1], gates[n].needs) = Held(final, gates[n].needs)
    BY <2>3 DEF Held
  <2>5. c \in Critics
    BY DEF Ordered
  <2>6. after[n][c] = final[c] /\ after[n - 1][c] = own[c]
    BY <2>1, <1>1, <1>2, <1>4
  <2>. QED BY <2>1, <2>3, <2>4, <2>5, <2>6, <1>3
<1>6. final \in Statuses
  BY <1>1, <1>2
<1>. QED BY <1>5, <1>6 DEF final

-----------------------------------------------------------------------------
\* The gates of a project are in order.
LEMMA GatesOrdered ==
  ASSUME NEW rel \in Relations
  PROVE  Ordered(Gates(rel))
<1>. DEFINE G == Gates(rel)
<1>1. /\ Len(G) \in Nat /\ DOMAIN G = 1..Len(G)
      /\ \A n \in DOMAIN G : G[n].critics \subseteq Critics /\ G[n].needs \subseteq Critics
      /\ \A c \in Critics : \E n \in DOMAIN G : c \in G[n].critics
      /\ \A m, n \in DOMAIN G : \A c \in G[m].critics :
           /\ c \in G[n].critics => m = n
           /\ c \in G[n].needs => m < n
  BY GateFacts
<1>. HIDE DEF G
<1>2. Ordered(G)
  BY <1>1 DEF Ordered
<1>. QED BY <1>2 DEF G

\* A set of places that is not empty has a last one.
LEMMA MaxIn ==
  ASSUME NEW N \in Nat, NEW S \in SUBSET (1..N), S # {}
  PROVE  Max(S) \in S
<1>. DEFINE T == {n \in Nat : (\E x \in S : x >= N - n) => \E x \in S : \A y \in S : x >= y}
<1>1. 0 \in T
  OBVIOUS
<1>2. ASSUME NEW n \in T PROVE n + 1 \in T
  <2>. SUFFICES ASSUME NEW x \in S, x >= N - (n + 1) PROVE \E z \in S : \A y \in S : z >= y
    OBVIOUS
  <2>1. CASE \E z \in S : z >= N - n
    BY <2>1
  <2>2. CASE ~ \E z \in S : z >= N - n
    <3>1. \A y \in S : x >= y
      BY <2>2
    <3>. QED BY <3>1
  <2>. QED BY <2>1, <2>2
<1>3. T \in SUBSET Nat
  OBVIOUS
<1>4. N \in T
  <2>. HIDE DEF T
  <2>1. T = Nat
    BY <1>1, <1>2, <1>3, NatSet
  <2>. QED BY <2>1
<1>5. \E x \in S : x >= N - N
  <2>. HIDE DEF T
  <2>1. PICK x \in S : x \in 1..N
    OBVIOUS
  <2>. QED BY <2>1
<1>6. \E x \in S : \A y \in S : x >= y
  BY <1>4, <1>5
<1>. QED BY <1>6 DEF Max

\* SetToSeq lists a finite set.
LEMMA Listed ==
  ASSUME NEW S, IsFiniteSet(S)
  PROVE  \E N \in Nat : /\ SetToSeq(S) \in [1..N -> S]
                        /\ \A x \in S : \E n \in 1..N : SetToSeq(S)[n] = x
<1>. DEFINE N == Cardinality(S)
            f == SetToSeq(S)
<1>1. N \in Nat /\ ExistsBijection(1..N, S)
  BY FS_CardinalityType
<1>2. PICK g : g \in Bijection(1..N, S)
  BY <1>1 DEF ExistsBijection
<1>3. g \in [1..N -> S] /\ IsInjective(g)
  BY <1>2 DEF Bijection, Injection, IsInjective
<1>4. f \in [1..N -> S] /\ IsInjective(f)
  BY <1>3 DEF SetToSeq
<1>. HIDE DEF f
<1>5. f \in Injection(1..N, S)
  BY <1>4 DEF Injection, IsInjective
<1>6. IsFiniteSet(1..N) /\ Cardinality(1..N) = N
  BY <1>1, FS_Interval
<1>7. f \in Surjection(1..N, S)
  BY <1>5, <1>6, FS_Injection
<1>8. \A x \in S : \E n \in 1..N : f[n] = x
  BY <1>7 DEF Surjection
<1>. QED BY <1>1, <1>4, <1>8 DEF f

-----------------------------------------------------------------------------
\* What every step leaves alone, and what the cache has.
PlanInv ==
  /\ \E rel \in Relations, selection \in Selections : asked = Asked(rel, selection)
  /\ version \in [Artifacts -> Nat]
  /\ \A id \in DOMAIN entries : entries[id] \in {"GREEN", "RED"}

\* Planning keeps what was asked for fixed, and the cache has verdicts only.
THEOREM PlanInvariant == Spec => []PlanInv
<1>1. Init => PlanInv
  BY DEF Init, PlanInv
<1>2. PlanInv /\ [Next]_vars => PlanInv'
  <2>. SUFFICES ASSUME PlanInv, [Next]_vars PROVE PlanInv'
    OBVIOUS
  <2>. USE DEF PlanInv
  <2>1. ASSUME NEW c \in Critics, Execute(c) PROVE PlanInv'
    BY <2>1 DEF Execute
  <2>2. ASSUME NEW id \in active, Publish(id) PROVE PlanInv'
    BY <2>2 DEF Publish
  <2>3. ASSUME NEW id \in active, Fail(id) PROVE PlanInv'
    BY <2>3 DEF Fail
  <2>4. ASSUME NEW id \in DOMAIN entries, Evict(id) PROVE PlanInv'
    BY <2>4 DEF Evict
  <2>5. ASSUME NEW a \in Artifacts, Edit(a) PROVE PlanInv'
    BY <2>5 DEF Edit
  <2>6. CASE UNCHANGED vars
    BY <2>6 DEF vars
  <2>. QED BY <2>1, <2>2, <2>3, <2>4, <2>5, <2>6 DEF Next
<1>. QED BY <1>1, <1>2, PTL DEF Spec

\* The present query, and its answer.
CurrentQuery ==
  [gates |-> asked.gates, required |-> asked.required,
   identity |-> [c \in Critics |-> Identity(c)], history |-> CacheEvidence,
   attempt |-> [c \in Critics |-> None], forced |-> {}]

\* The query of Planning without the hint to TLC.
LEMMA CurrentIs == Current = CurrentQuery
BY OnceIs DEF Current, CurrentQuery

\* The evidence of a snapshot is what the cache has for the identities it contains.
LEMMA HistoryFacts ==
  ASSUME PlanInv
  PROVE  \E N \in Nat :
           /\ DOMAIN CacheEvidence = 1..N
           /\ \A n \in 1..N : /\ ~CacheEvidence[n].own /\ CacheEvidence[n].lookup
                              /\ CacheEvidence[n].identity \in DOMAIN entries
                              /\ CacheEvidence[n].verdict = entries[CacheEvidence[n].identity]
           /\ \A c \in Critics : Identity(c) \in DOMAIN entries =>
                \E n \in 1..N : CacheEvidence[n].identity = Identity(c)
<1>. DEFINE K == {c \in Critics : Identity(c) \in DOMAIN entries}
            known == SetToSeq(K)
            Row(c) == [critic |-> c, identity |-> Identity(c), verdict |-> entries[Identity(c)],
                       own |-> FALSE, lookup |-> TRUE]
<1>1. IsFiniteSet(K)
  BY QueryAssumption, FS_Subset
<1>2. PICK N \in Nat : known \in [1..N -> K] /\ \A c \in K : \E n \in 1..N : known[n] = c
  <2>. HIDE DEF K
  <2>. QED BY <1>1, Listed
<1>3. CacheEvidence = [n \in DOMAIN known |-> Row(known[n])]
  BY DEF CacheEvidence
<1>. HIDE DEF known
<1>4. DOMAIN CacheEvidence = 1..N /\ \A n \in 1..N : CacheEvidence[n] = Row(known[n]) /\ known[n] \in K
  <2>. HIDE DEF Row, K
  <2>. QED BY <1>2, <1>3
<1>5. ASSUME NEW n \in 1..N
      PROVE  /\ ~CacheEvidence[n].own /\ CacheEvidence[n].lookup
             /\ CacheEvidence[n].identity = Identity(known[n])
             /\ CacheEvidence[n].verdict = entries[Identity(known[n])]
             /\ Identity(known[n]) \in DOMAIN entries
  BY <1>4
<1>6. ASSUME NEW c \in Critics, Identity(c) \in DOMAIN entries
      PROVE  \E n \in 1..N : CacheEvidence[n].identity = Identity(c)
  BY <1>2, <1>5, <1>6
<1>. HIDE DEF K
<1>. QED BY <1>4, <1>5, <1>6

\* So a critic has the evidence that the cache has for the present identity of its artifact.
LEMMA EvidenceFacts ==
  ASSUME PlanInv, NEW c \in Critics
  PROVE  Evidence(Current, c) = IF Identity(c) \in DOMAIN entries THEN entries[Identity(c)] ELSE None
<1>. DEFINE H == CacheEvidence
            id == Identity(c)
            Here == {n \in DOMAIN H : H[n].lookup /\ H[n].identity = id}
            Own == {n \in DOMAIN H : H[n].own /\ H[n].critic = c}
<1>1. PICK N \in Nat :
        /\ DOMAIN H = 1..N
        /\ \A n \in 1..N : /\ ~H[n].own /\ H[n].lookup
                           /\ H[n].identity \in DOMAIN entries
                           /\ H[n].verdict = entries[H[n].identity]
        /\ \A d \in Critics : Identity(d) \in DOMAIN entries =>
             \E n \in 1..N : H[n].identity = Identity(d)
  BY HistoryFacts
<1>2. id # None
  <2>1. Target[c] \in Artifacts /\ version[Target[c]] \in Nat
    BY QueryAssumption DEF PlanInv
  <2>2. id \in Artifacts \X Nat
    BY <2>1 DEF Identity
  <2>. QED BY <2>2, NoneAssumption
<1>. HIDE DEF H, id
<1>3. Own = {}
  BY <1>1
<1>4. Latest(H, Own) = None
  BY <1>3 DEF Latest
<1>5. Evidence(Current, c) = Latest(H, Here)
  <2>1. Evidence(CurrentQuery, c) =
          IF Latest(H, Own) # None \/ id = None \/ c \in {} THEN Latest(H, Own) ELSE Latest(H, Here)
    BY DEF Evidence, CurrentQuery, H, id
  <2>. QED BY <2>1, <1>2, <1>4, CurrentIs
<1>6. CASE id \in DOMAIN entries
  <2>1. Here \in SUBSET (1..N) /\ Here # {}
    BY <1>1, <1>6 DEF id
  <2>2. Max(Here) \in Here
    <3>. HIDE DEF Here
    <3>. QED BY <2>1, MaxIn
  <2>3. Latest(H, Here) = H[Max(Here)].verdict
    BY <2>1 DEF Latest
  <2>4. H[Max(Here)].verdict = entries[id]
    BY <2>2, <1>1
  <2>. QED BY <2>3, <2>4, <1>5, <1>6 DEF id
<1>7. CASE id \notin DOMAIN entries
  <2>1. Here = {}
    BY <1>1, <1>7
  <2>2. Latest(H, Here) = None
    BY <2>1 DEF Latest
  <2>. QED BY <2>2, <1>5, <1>7 DEF id
<1>. QED BY <1>6, <1>7

\* By itself a critic passes only with GREEN evidence, and is RED only with RED evidence.
LEMMA OwnFacts ==
  ASSUME PlanInv, NEW c \in Critics
  PROVE  /\ OwnStatus(Current, c) \in {"PASS", "RED", "STALE", "UNREVIEWED"}
         /\ OwnStatus(Current, c) = "PASS" <=> Evidence(Current, c) = "GREEN"
         /\ OwnStatus(Current, c) = "RED" <=> Evidence(Current, c) = "RED"
         /\ Evidence(Current, c) \in {"GREEN", "RED", None}
<1>. DEFINE found == Evidence(Current, c)
<1>1. found \in {"GREEN", "RED", None} /\ None \notin {"GREEN", "RED"}
  BY EvidenceFacts, NoneAssumption DEF PlanInv
<1>2. Current.attempt[c] = None
  BY CurrentIs DEF CurrentQuery
<1>3. None \notin Attempting \cup {"ERROR"}
  BY NoneAssumption
<1>. HIDE DEF found
<1>4. OwnStatus(Current, c) =
        IF Current.attempt[c] \in Attempting \cup {"ERROR"} THEN Current.attempt[c]
        ELSE IF found = "GREEN" THEN "PASS"
        ELSE IF found = "RED" THEN "RED"
        ELSE IF \/ c \in Current.forced \/ Current.identity[c] = None
                \/ \E n \in DOMAIN Current.history : Current.history[n].critic = c
             THEN "STALE" ELSE "UNREVIEWED"
  BY DEF OwnStatus, found
<1>5. CASE found = "GREEN"
  <2>1. OwnStatus(Current, c) = "PASS"
    BY <1>2, <1>3, <1>4, <1>5
  <2>. QED BY <2>1, <1>5 DEF found
<1>6. CASE found = "RED"
  <2>1. OwnStatus(Current, c) = "RED"
    BY <1>2, <1>3, <1>4, <1>6
  <2>. QED BY <2>1, <1>6 DEF found
<1>7. CASE found = None
  <2>1. OwnStatus(Current, c) \in {"STALE", "UNREVIEWED"}
    BY <1>1, <1>2, <1>3, <1>4, <1>7
  <2>. QED BY <2>1, <1>1, <1>7 DEF found
<1>. QED BY <1>1, <1>5, <1>6, <1>7

-----------------------------------------------------------------------------
View == Query(Current)

\* What queryProject answers, without the pass that computes it.
LEMMA ViewFacts ==
  ASSUME PlanInv, NEW rel \in Relations, NEW selection \in Selections,
         asked = Asked(rel, selection)
  PROVE  /\ View.status \in Statuses
         /\ \A c \in Critics : View.status[c] =
              IF Unmet(View.status, Needed(rel, c)) # {} THEN Held(View.status, Needed(rel, c))
              ELSE OwnStatus(Current, c)
         /\ View.satisfied = Satisfied(View.status, RequiredArtifacts(rel, selection))
         /\ \A c \in Critics :
              Unmet(View.status, Needed(rel, c)) = {} /\ Evidence(Current, c) = None =>
                c \in View.canExecute /\ View.result[c] = None
<1>. DEFINE own == [c \in Critics |-> OwnStatus(Current, c)]
            G == Gates(rel)
            status == Passed(own, G)
            held == {c \in Critics : \E n \in DOMAIN G :
                       c \in G[n].critics /\ status[c] \in Waiting
                       /\ \E d \in G[n].needs : status[d] # "PASS"}
<1>1. own \in Statuses
  BY OwnFacts DEF Statuses, States
<1>2. /\ Current.gates = G /\ Current.required = RequiredArtifacts(rel, selection)
      /\ \A c \in Critics : Current.attempt[c] = None
  BY CurrentIs DEF CurrentQuery, Asked
<1>3. /\ Ordered(G)
      /\ \A c \in Critics : \E n \in DOMAIN G : c \in G[n].critics
      /\ \A n \in DOMAIN G : \A c \in G[n].critics : G[n].needs = Needed(rel, c)
  BY GatesOrdered, GateFacts
<1>4. View = [status |-> status,
              result |-> [c \in Critics |-> IF c \in held THEN None ELSE Evidence(Current, c)],
              canExecute |-> {c \in Critics \ held : Evidence(Current, c) = None /\ Current.attempt[c] = None},
              satisfied |-> Satisfied(status, Current.required)]
  BY ZenonT(60), <1>2, OnceIs DEF View, Query
<1>. HIDE DEF own, G
<1>5. /\ status \in Statuses
      /\ \A n \in DOMAIN G : \A c \in G[n].critics :
           status[c] = IF Unmet(status, G[n].needs) # {} THEN Held(status, G[n].needs) ELSE own[c]
  BY <1>1, <1>3, PassedFacts
<1>6. \A c \in Critics : own[c] = OwnStatus(Current, c)
  BY DEF own
<1>. HIDE DEF status
<1>7. ASSUME NEW c \in Critics
      PROVE  status[c] = IF Unmet(status, Needed(rel, c)) # {} THEN Held(status, Needed(rel, c))
                         ELSE OwnStatus(Current, c)
  BY <1>3, <1>5, <1>6
<1>8. ASSUME NEW c \in Critics, Unmet(status, Needed(rel, c)) = {} PROVE c \notin held
  BY <1>3, <1>8 DEF Unmet
<1>. HIDE DEF held
<1>9. /\ View.status = status /\ View.satisfied = Satisfied(status, RequiredArtifacts(rel, selection))
      /\ \A c \in Critics \ held : Evidence(Current, c) = None =>
           c \in View.canExecute /\ View.result[c] = None
  BY <1>2, <1>4
<1>. QED BY <1>5, <1>7, <1>8, <1>9

\* Who is held has not passed.
LEMMA HeldIs ==
  ASSUME NEW status, NEW needs
  PROVE  Held(status, needs) \in {"BLOCKED", "WAIT_DEPENDENCY"}
BY Zenon DEF Held

\* The pass agrees with the meaning of the gates.
LEMMA GatesAgreeHolds == PlanInv => GatesAgree
<1>. SUFFICES ASSUME PlanInv PROVE GatesAgree
  OBVIOUS
<1>1. PICK rel \in Relations, selection \in Selections : asked = Asked(rel, selection)
  BY DEF PlanInv
<1>2. asked.rel = rel
  BY <1>1 DEF Asked
<1>. DEFINE S == View.status
<1>3. \A c \in Critics : S[c] = IF Unmet(S, Needed(rel, c)) # {} THEN Held(S, Needed(rel, c))
                                ELSE OwnStatus(Current, c)
  BY <1>1, ViewFacts
<1>. DEFINE cycle == [a \in Artifacts |-> Cycle(rel, a)]
<1>4. \A c \in Critics : Awaited(cycle, c) = Needed(rel, c)
  BY <1>2, QueryAssumption DEF Needed, Awaited
<1>. HIDE DEF S, cycle
<1>5. Agreed(S, cycle)
  <2>. SUFFICES ASSUME NEW c \in Critics
                PROVE  S[c] = IF Unmet(S, Awaited(cycle, c)) = {} THEN OwnStatus(Current, c)
                              ELSE Held(S, Awaited(cycle, c))
    BY DEF Agreed, Unmet, Held
  <2>. QED BY <1>3, <1>4
<1>. QED BY <1>2, <1>5, OnceIs DEF GatesAgree, View, S, cycle

\* What is required refers to nothing that is not.
LEMMA RequiredFacts ==
  ASSUME NEW rel \in Relations, NEW selection \in Selections
  PROVE  /\ RequiredArtifacts(rel, selection) \in SUBSET Artifacts
         /\ Closed(rel, RequiredArtifacts(rel, selection))
         /\ \A a \in RequiredArtifacts(rel, selection) :
              Closure(rel, {a}) \subseteq RequiredArtifacts(rel, selection)
<1>. DEFINE roots == IF selection = Everything THEN Artifacts
                     ELSE selection.artifacts \cup {Target[c] : c \in selection.critics}
<1>1. rel \in SUBSET (Artifacts \X Artifacts) /\ roots \in SUBSET Artifacts
  BY QueryAssumption, PlanningAssumption
<1>2. RequiredArtifacts(rel, selection) = Closure(rel, roots)
  BY DEF RequiredArtifacts
<1>. HIDE DEF roots
<1>3. Closure(rel, roots) \in SUBSET Artifacts /\ Closed(rel, Closure(rel, roots))
  BY <1>1, ClosureFacts
<1>4. ASSUME NEW a \in Closure(rel, roots) PROVE Closure(rel, {a}) \subseteq Closure(rel, roots)
  <2>1. {a} \in SUBSET Artifacts /\ {a} \subseteq Closure(rel, roots)
    BY <1>3
  <2>. QED BY <2>1, <1>1, <1>3, ClosureFacts
<1>. QED BY <1>2, <1>3, <1>4

\* Who passes is not held, so it has GREEN evidence of its own.
LEMMA SatisfiedIsWholeHolds == PlanInv => SatisfiedIsWhole
<1>. SUFFICES ASSUME PlanInv, View.satisfied,
                     NEW a \in Artifacts \ Basis, NEW r \in asked.required, a \in Closure(asked.rel, {r})
              PROVE  /\ CriticsOn(a) # {}
                     /\ <<a, version[a]>> \in DOMAIN entries /\ entries[<<a, version[a]>>] = "GREEN"
  BY DEF SatisfiedIsWhole, View
<1>1. PICK rel \in Relations, selection \in Selections : asked = Asked(rel, selection)
  BY DEF PlanInv
<1>. DEFINE required == RequiredArtifacts(rel, selection)
            S == View.status
<1>2. asked.rel = rel /\ asked.required = required
  BY <1>1 DEF Asked
<1>3. a \in required
  BY <1>2, RequiredFacts
<1>4. /\ Satisfied(S, required)
      /\ \A c \in Critics : S[c] = IF Unmet(S, Needed(rel, c)) # {} THEN Held(S, Needed(rel, c))
                                   ELSE OwnStatus(Current, c)
  BY <1>1, ViewFacts
<1>. HIDE DEF S, required
<1>5. CriticsOn(a) # {} /\ \A c \in CriticsOn(a) : S[c] = "PASS"
  BY <1>3, <1>4 DEF Satisfied
<1>6. PICK c \in Critics : Target[c] = a /\ S[c] = "PASS"
  BY <1>5 DEF CriticsOn
<1>7. OwnStatus(Current, c) = "PASS"
  <2>1. Held(S, Needed(rel, c)) # "PASS"
    BY HeldIs
  <2>. QED BY <2>1, <1>4, <1>6
<1>8. Evidence(Current, c) = "GREEN"
  BY <1>7, OwnFacts
<1>9. Identity(c) \in DOMAIN entries /\ entries[Identity(c)] = "GREEN"
  BY <1>8, EvidenceFacts, NoneAssumption
<1>10. Identity(c) = <<a, version[a]>>
  BY <1>6 DEF Identity
<1>. QED BY <1>5, <1>9, <1>10

\* Who gates a critic of a required artifact reviews a required artifact.
LEMMA NeedsRequired ==
  ASSUME NEW rel \in Relations, NEW selection \in Selections,
         NEW c \in Critics, Target[c] \in RequiredArtifacts(rel, selection),
         NEW d \in Needed(rel, c)
  PROVE  d \in Critics /\ Target[d] \in RequiredArtifacts(rel, selection)
<1>1. PICK e \in rel : e[1] \in Cycle(rel, Target[c]) /\ e[2] \in Cycle(rel, Target[d])
  BY DEF Needed
<1>2. e[1] \in RequiredArtifacts(rel, selection)
  BY <1>1, RequiredFacts DEF Cycle
<1>3. e[2] \in RequiredArtifacts(rel, selection)
  BY <1>2, RequiredFacts DEF Closed
<1>4. Target[d] \in Closure(rel, {e[2]})
  BY <1>1 DEF Cycle
<1>. QED BY <1>3, <1>4, RequiredFacts DEF Needed

\* Of the required critics that have not passed, take one of the first gate: nobody gates it,
\* so without a RED verdict it has no evidence and can be executed.
LEMMA NoDeadEndHolds == PlanInv => NoDeadEnd
<1>. SUFFICES ASSUME PlanInv, ~View.satisfied,
                     \A c \in Critics : OwnStatus(Current, c) # "RED",
                     \A a \in Current.required \ Basis : CriticsOn(a) # {}
              PROVE  {"EXECUTE", "COALESCE"} \cap Range(CurrentPlan) # {}
  BY DEF NoDeadEnd, View
<1>1. PICK rel \in Relations, selection \in Selections : asked = Asked(rel, selection)
  BY DEF PlanInv
<1>. DEFINE required == RequiredArtifacts(rel, selection)
            S == View.status
            G == Gates(rel)
            Open == {c \in Critics : Target[c] \in required /\ S[c] # "PASS"}
            At == {n \in DOMAIN G : \E c \in Open : c \in G[n].critics}
<1>2. /\ asked.included = {c \in Critics : Target[c] \in required}
      /\ Current.required = required
  BY <1>1, CurrentIs DEF Asked, IncludedCritics, CurrentQuery
<1>3. /\ ~Satisfied(S, required)
      /\ \A c \in Critics :
           /\ S[c] = IF Unmet(S, Needed(rel, c)) # {} THEN Held(S, Needed(rel, c))
                     ELSE OwnStatus(Current, c)
           /\ Unmet(S, Needed(rel, c)) = {} /\ Evidence(Current, c) = None =>
                c \in View.canExecute /\ View.result[c] = None
  BY <1>1, ViewFacts
<1>. HIDE DEF S
<1>4. Open # {}
  <2>1. PICK a \in required : a \notin Basis /\ \E c \in CriticsOn(a) : S[c] # "PASS"
    BY <1>2, <1>3 DEF Satisfied
  <2>. QED BY <2>1 DEF CriticsOn
<1>5. /\ DOMAIN G \in SUBSET Nat
      /\ \A c \in Critics : \E n \in DOMAIN G : c \in G[n].critics
      /\ \A m, n \in DOMAIN G : \A c \in G[m].critics :
           G[m].needs = Needed(rel, c) /\ (c \in G[n].needs => m < n)
  <2>1. /\ Len(G) \in Nat /\ DOMAIN G = 1..Len(G)
        /\ \A c \in Critics : \E n \in DOMAIN G : c \in G[n].critics
        /\ \A m, n \in DOMAIN G : \A c \in G[m].critics :
             G[m].needs = Needed(rel, c) /\ (c \in G[n].needs => m < n)
    BY GateFacts
  <2>. QED BY <2>1
<1>. HIDE DEF G, required
<1>6. At \in SUBSET Nat /\ At # {}
  BY <1>4, <1>5
<1>7. PICK n \in At : \A m \in At : n <= m
  <2>. HIDE DEF At
  <2>. QED BY <1>6, LeastNat
<1>8. PICK c \in Open : c \in G[n].critics
  OBVIOUS
<1>9. \A d \in Needed(rel, c) : S[d] = "PASS"
  <2>. SUFFICES ASSUME NEW d \in Needed(rel, c), S[d] # "PASS" PROVE FALSE
    OBVIOUS
  <2>1. d \in Open
    BY <1>8, NeedsRequired DEF required
  <2>2. PICK m \in DOMAIN G : d \in G[m].critics
    BY <2>1, <1>5
  <2>3. m < n
    BY <2>2, <1>5, <1>8
  <2>. QED BY <2>1, <2>2, <2>3, <1>5, <1>7
<1>10. Unmet(S, Needed(rel, c)) = {}
  BY <1>9 DEF Unmet
<1>11. S[c] = OwnStatus(Current, c) /\ S[c] # "PASS" /\ c \in Critics /\ Target[c] \in required
  BY <1>3, <1>8, <1>10
<1>12. Evidence(Current, c) = None /\ S[c] \in {"STALE", "UNREVIEWED"}
  BY <1>11, OwnFacts
<1>13. c \in View.canExecute /\ View.result[c] = None
  BY <1>3, <1>10, <1>11, <1>12
<1>14. Action(Current, View, active, c) \in {"EXECUTE", "COALESCE"}
  BY <1>12, <1>13 DEF Action, Waiting, Attempting, S
<1>15. CurrentPlan = [d \in asked.included |-> Action(Current, View, active, d)]
  BY OnceIs DEF CurrentPlan, Plan, View
<1>16. c \in asked.included
  BY <1>2, <1>11
<1>17. CurrentPlan[c] \in Range(CurrentPlan)
  BY <1>15, <1>16 DEF Range
<1>. QED BY <1>14, <1>15, <1>16, <1>17

\* GatesAgree (queryProject, gates.ts): one pass over the gates in the order of the components
\* decides what the gates mean, whatever the relations and the evidence.
THEOREM GatesAgreed == Spec => []GatesAgree
BY PlanInvariant, GatesAgreeHolds, PTL

\* SatisfiedIsWhole (ownSatisfied, requiredArtifacts): a satisfied selection has a GREEN
\* verdict on the present material of everything it leads to.
THEOREM WholeWhenSatisfied == Spec => []SatisfiedIsWhole
BY PlanInvariant, SatisfiedIsWholeHolds, PTL

\* NoDeadEnd (planProject): a selection that is neither satisfied nor RED nor without a
\* reviewer always has something to execute, in cycles too.
THEOREM NeverADeadEnd == Spec => []NoDeadEnd
BY PlanInvariant, NoDeadEndHolds, PTL
=============================================================================
