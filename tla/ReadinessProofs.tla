-------------------------- MODULE ReadinessProofs --------------------------
(***************************************************************************)
(* The counters of readiness.ts, for every project, any Runs and any       *)
(* order of their transactions: what is kept by differences is what the    *)
(* members say, a Run that is not decided has something to do, and who     *)
(* reads a Run is shown what its members say.  First what iterations,      *)
(* cardinalities and gates are; then what one cascade of propagate does to *)
(* any book whatever; then the transactions; at last the reader's query.   *)
(***************************************************************************)
EXTENDS Readiness, FiniteSetTheorems, WellFoundedInduction, TLAPS

\* A set of numbers has a least one.
LEMMA LeastNat ==
  ASSUME NEW S \in SUBSET Nat, S # {}
  PROVE  \E m \in S : \A n \in S : m <= n
<1>1. PICK m \in S : \A n \in S : ~(<<n, m>> \in OpToRel(<, Nat))
  <2>. DEFINE R == OpToRel(<, Nat)
  <2>1. IsWellFoundedOn(R, Nat)
    BY NatLessThanWellFounded
  <2>. HIDE DEF R
  <2>. QED BY <2>1, WFMin, Zenon DEF R
<1>2. \A n \in S : ~(n < m)
  BY <1>1 DEF OpToRel
<1>. QED BY <1>2

\* Induction, about a set instead of a predicate.
LEMMA NatSet ==
  ASSUME NEW T \in SUBSET Nat, 0 \in T, \A n \in T : n + 1 \in T
  PROVE  T = Nat
<1>. SUFFICES ASSUME Nat \ T # {} PROVE FALSE
  OBVIOUS
<1>1. PICK m \in Nat \ T : \A n \in Nat \ T : m <= n
  BY LeastNat
<1>2. m # 0 /\ m - 1 \in Nat
  OBVIOUS
<1>3. m - 1 \in T
  BY <1>1, <1>2
<1>. QED BY <1>2, <1>3

\* Functions to be applied one after the other, and what results, from x on.
Steps(S) == [Nat -> [S -> S]]
Iterated(f, S, x, step) ==
  f \in [Nat -> S] /\ f[0] = x /\ \A n \in Nat : f[n + 1] = step[n + 1][f[n]]

\* Whatever the steps are, something results of taking one after the other.
LEMMA Iterates ==
  ASSUME NEW S, NEW x, x \in S, NEW step, step \in Steps(S)
  PROVE  \E f : Iterated(f, S, x, step)
<1>. DEFINE Upto(n, p) == /\ p \in [0..n -> S] /\ p[0] = x
                          /\ \A i \in Nat : i < n => p[i + 1] = step[i + 1][p[i]]
<1>. USE DEF Steps
<1>1. \A n \in Nat : \E p : Upto(n, p)
  <2>. DEFINE T == {n \in Nat : \E p : Upto(n, p)}
  <2>1. 0 \in T
    <3>1. Upto(0, [i \in 0..0 |-> x])
      OBVIOUS
    <3>. QED BY <3>1
  <2>2. ASSUME NEW n \in T PROVE n + 1 \in T
    <3>1. PICK p : Upto(n, p)
      OBVIOUS
    <3>. DEFINE q == [i \in 0..(n + 1) |-> IF i = n + 1 THEN step[n + 1][p[n]] ELSE p[i]]
    <3>2. p[n] \in S /\ step[n + 1] \in [S -> S]
      BY <3>1
    <3>3. q \in [0..(n + 1) -> S]
      BY <3>1, <3>2
    <3>4. q[0] = x
      BY <3>1
    <3>5. ASSUME NEW i \in Nat, i < n + 1 PROVE q[i + 1] = step[i + 1][q[i]]
      BY <3>1, <3>5
    <3>6. Upto(n + 1, q)
      BY <3>3, <3>4, <3>5
    <3>. HIDE DEF q
    <3>7. n + 1 \in Nat
      OBVIOUS
    <3>. HIDE DEF Upto
    <3>. QED BY <3>6, <3>7, Zenon
  <2>3. T \in SUBSET Nat
    OBVIOUS
  <2>. HIDE DEF T
  <2>4. T = Nat
    BY <2>1, <2>2, <2>3, NatSet
  <2>. QED BY <2>4 DEF T
<1>2. ASSUME NEW m \in Nat, NEW n \in Nat, NEW p, NEW q, Upto(m, p), Upto(n, q)
      PROVE  \A i \in Nat : i <= m /\ i <= n => p[i] = q[i]
  <2>. DEFINE T == {i \in Nat : i <= m /\ i <= n => p[i] = q[i]}
  <2>1. 0 \in T
    BY <1>2
  <2>2. ASSUME NEW i \in T PROVE i + 1 \in T
    BY <1>2
  <2>. QED BY <2>1, <2>2, NatSet
<1>. DEFINE part(n) == CHOOSE p : Upto(n, p)
            f == [n \in Nat |-> part(n)[n]]
<1>3. \A n \in Nat : Upto(n, part(n))
  BY <1>1
<1>. HIDE DEF part
<1>4. f \in [Nat -> S]
  BY <1>3
<1>5. f[0] = x
  BY <1>3
<1>6. ASSUME NEW n \in Nat PROVE f[n + 1] = step[n + 1][f[n]]
  <2>1. part(n + 1)[n + 1] = step[n + 1][part(n + 1)[n]]
    BY <1>3
  <2>2. part(n + 1)[n] = part(n)[n]
    <3>1. Upto(n, part(n)) /\ Upto(n + 1, part(n + 1))
      BY <1>3
    <3>. HIDE DEF Upto
    <3>. QED BY <3>1, <1>2
  <2>. QED BY <2>1, <2>2
<1>7. Iterated(f, S, x, step)
  BY <1>4, <1>5, <1>6 DEF Iterated
<1>. QED BY <1>7

\* SetToSeq lists a finite set, every element once.
LEMMA Listed ==
  ASSUME NEW S, IsFiniteSet(S)
  PROVE  \E N \in Nat : /\ SetToSeq(S) \in [1..N -> S] /\ Len(SetToSeq(S)) = N
                        /\ \A x \in S : \E n \in 1..N : SetToSeq(S)[n] = x
                        /\ \A m, n \in 1..N : SetToSeq(S)[m] = SetToSeq(S)[n] => m = n
<1>. DEFINE N == Cardinality(S)
            f == SetToSeq(S)
<1>1. N \in Nat /\ ExistsBijection(1..N, S)
  BY FS_CardinalityType
<1>2. PICK g : g \in Bijection(1..N, S)
  BY <1>1 DEF ExistsBijection
<1>3. g \in [1..N -> S] /\ IsInjective(g)
  BY <1>2 DEF Bijection, Injection, IsInjective
<1>4. f \in [1..N -> S] /\ IsInjective(f)
  BY <1>3 DEF SetToSeq
<1>. HIDE DEF f
<1>5. f \in Injection(1..N, S)
  BY <1>4 DEF Injection, IsInjective
<1>6. IsFiniteSet(1..N) /\ Cardinality(1..N) = N
  BY <1>1, FS_Interval
<1>7. f \in Surjection(1..N, S)
  BY <1>5, <1>6, FS_Injection
<1>8. \A x \in S : \E n \in 1..N : f[n] = x
  BY <1>7 DEF Surjection
<1>9. \A m, n \in 1..N : f[m] = f[n] => m = n
  BY <1>4 DEF IsInjective
<1>10. Len(f) = N
  <2>. HIDE DEF N
  <2>. QED BY <1>1, <1>4
<1>. QED BY <1>1, <1>4, <1>8, <1>9, <1>10 DEF f

\* Whatever is kept by each of the steps is kept by all of them.  P relates the number of
\* steps that were taken to what there is after them.
LEMMA FoldFacts ==
  ASSUME NEW S, NEW x \in S, NEW steps, NEW N \in Nat, Len(steps) = N,
         NEW P \in SUBSET (Nat \X S), <<0, x>> \in P,
         \A n \in 1..N, y \in S : <<n - 1, y>> \in P => <<n, steps[n][y]>> \in P
  PROVE  <<N, Folded(steps, x)>> \in P
<1>. DEFINE Goes(n, y) == n \in 1..N /\ <<n - 1, y>> \in P
            step == [n \in Nat |-> [y \in S |-> IF Goes(n, y) THEN steps[n][y] ELSE y]]
            Rec(h) == h = [n \in 0..N |-> IF n = 0 THEN x ELSE steps[n][h[n - 1]]]
            after == CHOOSE h : Rec(h)
<1>1. step \in Steps(S)
  <2>1. ASSUME NEW n \in Nat, NEW y \in S, Goes(n, y) PROVE steps[n][y] \in S
    <3>1. <<n, steps[n][y]>> \in P
      BY <2>1
    <3>. QED BY <3>1
  <2>. HIDE DEF Goes
  <2>. QED BY <2>1 DEF Steps
<1>2. PICK f : f \in [Nat -> S] /\ f[0] = x /\ \A n \in Nat : f[n + 1] = step[n + 1][f[n]]
  <2>. HIDE DEF step
  <2>1. PICK f : Iterated(f, S, x, step)
    BY <1>1, Iterates, Zenon
  <2>. QED BY <2>1 DEF Iterated
<1>3. \A n \in 0..N : f[n] \in S /\ <<n, f[n]>> \in P
  <2>. DEFINE T == {n \in Nat : n <= N => <<n, f[n]>> \in P}
  <2>1. 0 \in T
    BY <1>2
  <2>2. ASSUME NEW n \in T PROVE n + 1 \in T
    <3>. SUFFICES ASSUME n + 1 <= N PROVE <<n + 1, f[n + 1]>> \in P
      OBVIOUS
    <3>1. n \in Nat /\ n + 1 \in Nat /\ n + 1 \in 1..N /\ (n + 1) - 1 = n /\ <<n, f[n]>> \in P
      OBVIOUS
    <3>2. f[n] \in S /\ f[n + 1] = step[n + 1][f[n]]
      <4>. HIDE DEF step
      <4>. QED BY <3>1, <1>2
    <3>3. f[n + 1] = steps[n + 1][f[n]]
      BY <3>1, <3>2
    <3>. QED BY <3>1, <3>2, <3>3
  <2>3. T \in SUBSET Nat
    OBVIOUS
  <2>. HIDE DEF T
  <2>4. T = Nat
    BY <2>1, <2>2, <2>3, NatSet
  <2>5. \A n \in 0..N : <<n, f[n]>> \in P
    BY <2>4 DEF T
  <2>. QED BY <2>5, <1>2
<1>4. \A n \in 1..N : f[n] = steps[n][f[n - 1]] /\ n - 1 \in 0..N
  <2>. SUFFICES ASSUME NEW n \in 1..N PROVE f[n] = steps[n][f[n - 1]] /\ n - 1 \in 0..N
    OBVIOUS
  <2>1. n - 1 \in Nat /\ (n - 1) + 1 = n /\ n - 1 \in 0..N /\ n \in Nat
    OBVIOUS
  <2>2. f[n - 1] \in S /\ <<n - 1, f[n - 1]>> \in P
    BY <2>1, <1>3
  <2>3. f[n] = step[n][f[n - 1]]
    <3>. HIDE DEF step
    <3>. QED BY <2>1, <1>2
  <2>. QED BY <2>1, <2>2, <2>3
<1>5. Rec([n \in 0..N |-> f[n]])
  <2>1. ASSUME NEW n \in 0..N, n # 0 PROVE f[n] = steps[n][f[n - 1]] /\ n - 1 \in 0..N
    <3>1. n \in 1..N
      BY <2>1
    <3>. QED BY <3>1, <1>4
  <2>. QED BY <2>1, <1>2
<1>6. Rec(after)
  <2>. HIDE DEF Rec
  <2>. QED BY <1>5
<1>7. Folded(steps, x) = after[N]
  BY DEF Folded
<1>. HIDE DEF after
<1>8. after[0] = x /\ \A n \in 1..N : after[n] = steps[n][after[n - 1]]
  BY <1>6
<1>9. after[N] = f[N]
  <2>. DEFINE T == {n \in Nat : n <= N => after[n] = f[n]}
  <2>1. 0 \in T
    BY <1>2, <1>8
  <2>2. ASSUME NEW n \in T PROVE n + 1 \in T
    <3>1. CASE n + 1 <= N
      <4>1. n + 1 \in 1..N /\ (n + 1) - 1 = n /\ after[n] = f[n]
        BY <3>1
      <4>. QED BY <4>1, <1>4, <1>8
    <3>. QED BY <3>1
  <2>3. T \in SUBSET Nat
    OBVIOUS
  <2>. HIDE DEF T, step
  <2>4. T = Nat
    BY <2>1, <2>2, <2>3, NatSet
  <2>. QED BY <2>4 DEF T
<1>. QED BY <1>3, <1>7, <1>9

\* If only the membership of c may differ, the cardinalities differ by that.
LEMMA CountFacts ==
  ASSUME NEW S, IsFiniteSet(S), NEW A \in SUBSET S, NEW B \in SUBSET S, NEW c,
         \A x \in S : x # c => (x \in A <=> x \in B)
  PROVE  /\ Cardinality(A) \in Nat /\ Cardinality(B) \in Nat
         /\ Cardinality(B) = Cardinality(A) + Bit(c \in B) - Bit(c \in A)
<1>1. IsFiniteSet(A) /\ IsFiniteSet(B)
  BY FS_Subset
<1>2. Cardinality(A) \in Nat /\ Cardinality(B) \in Nat
  BY <1>1, FS_CardinalityType
<1>3. CASE c \in A <=> c \in B
  <2>1. A = B
    BY <1>3
  <2>. QED BY <2>1, <1>2 DEF Bit
<1>4. CASE c \in A /\ c \notin B
  <2>1. A = B \cup {c}
    BY <1>4
  <2>2. Cardinality(A) = Cardinality(B) + 1
    BY <2>1, <1>1, <1>4, FS_AddElement
  <2>. QED BY <2>2, <1>2, <1>4 DEF Bit
<1>5. CASE c \notin A /\ c \in B
  <2>1. B = A \cup {c}
    BY <1>5
  <2>2. Cardinality(B) = Cardinality(A) + 1
    BY <2>1, <1>1, <1>5, FS_AddElement
  <2>. QED BY <2>2, <1>2, <1>5 DEF Bit
<1>. QED BY <1>3, <1>4, <1>5

\* Once is only about how TLC evaluates.
LEMMA OnceIs == \A v : Once(v) = v
BY DEF Once

-----------------------------------------------------------------------------
\* The closure is the least closed set with the roots.
LEMMA ClosureFacts ==
  ASSUME NEW rel \in SUBSET (Artifacts \X Artifacts), NEW roots \in SUBSET Artifacts
  PROVE  /\ Closure(rel, roots) \in SUBSET Artifacts
         /\ roots \subseteq Closure(rel, roots)
         /\ Closed(rel, Closure(rel, roots))
         /\ \A S \in SUBSET Artifacts :
              roots \subseteq S /\ Closed(rel, S) => Closure(rel, roots) \subseteq S
<1>1. Closed(rel, Closure(rel, roots))
  <2>. SUFFICES ASSUME NEW e \in rel, e[1] \in Closure(rel, roots),
                       NEW S \in SUBSET Artifacts, roots \subseteq S, Closed(rel, S)
                PROVE  e[2] \in Artifacts /\ e[2] \in S
    BY DEF Closed, Closure
  <2>. QED BY DEF Closed, Closure
<1>. QED BY <1>1 DEF Closure

\* Those that must have passed before c is reviewed.
Needed(rel, c) ==
  {d \in Critics : Target[d] \notin Basis \cup Cycle(rel, Target[c]) /\
     \E e \in rel : e[1] \in Cycle(rel, Target[c]) /\ e[2] \in Cycle(rel, Target[d])}

\* criticGates: every critic is in exactly one gate, which waits for those that review what
\* its artifact refers to outside of its cycle, and they are all in earlier gates.
LEMMA GateFacts ==
  ASSUME NEW rel \in Relations
  PROVE  /\ Len(Gates(rel)) \in Nat /\ DOMAIN Gates(rel) = 1..Len(Gates(rel))
         /\ \A n \in DOMAIN Gates(rel) : Gates(rel)[n].critics \subseteq Critics /\ Gates(rel)[n].needs \subseteq Critics
         /\ \A c \in Critics : \E n \in DOMAIN Gates(rel) : c \in Gates(rel)[n].critics
         /\ \A m, n \in DOMAIN Gates(rel) : \A c \in Gates(rel)[m].critics :
              /\ Gates(rel)[m].needs = Needed(rel, c)
              /\ c \in Gates(rel)[n].critics => m = n
              /\ c \in Gates(rel)[n].needs => m < n
<1>. DEFINE C == Components(rel)
            G == Gates(rel)
            Place(a) == CHOOSE n \in DOMAIN C : a \in C[n]
            In(n) == {c \in Critics : Place(Target[c]) = n}
            Needs(n) == {Place(e[2]) : e \in {e \in rel : Place(e[1]) = n}} \ {n}
<1>1. /\ rel \in SUBSET (Artifacts \X Artifacts) /\ Target \in [Critics -> Artifacts]
      /\ Condensed(rel, C)
  BY QueryAssumption, ComponentsAssumption
<1>2. /\ C \in Seq(SUBSET Artifacts) /\ DOMAIN C = 1..Len(C) /\ Len(C) \in Nat
  BY <1>1 DEF Condensed
<1>3. ASSUME NEW a \in Artifacts
      PROVE  Place(a) \in DOMAIN C /\ a \in C[Place(a)] /\ \A n \in DOMAIN C : a \in C[n] => n = Place(a)
  <2>1. \E n \in DOMAIN C : a \in C[n]
    BY <1>1 DEF Condensed, Range
  <2>2. Place(a) \in DOMAIN C /\ a \in C[Place(a)]
    BY <2>1
  <2>. HIDE DEF Place
  <2>. QED BY <2>2, <1>1 DEF Condensed
<1>4. G = [n \in DOMAIN C |-> [critics |-> In(n),
             needs |-> {c \in UNION {In(m) : m \in Needs(n)} : Target[c] \notin Basis}]]
  BY DEF Gates, GatesBetween
<1>. HIDE DEF Place, G, C
<1>5. ASSUME NEW a \in Artifacts, NEW b \in Artifacts
      PROVE  (Place(a) = Place(b)) <=> b \in Cycle(rel, a)
  BY <1>1, <1>3, <1>5 DEF Condensed
<1>6. ASSUME NEW e \in rel PROVE e[1] \in Artifacts /\ e[2] \in Artifacts /\ Place(e[2]) <= Place(e[1])
  BY <1>1, <1>3, <1>6 DEF Condensed
<1>7. \A n \in DOMAIN C : G[n].critics = In(n) /\ G[n].needs \subseteq Critics
  BY <1>4
<1>8. ASSUME NEW n \in DOMAIN C, NEW d \in Critics
      PROVE  d \in G[n].needs <=>
               /\ Target[d] \notin Basis /\ Place(Target[d]) # n
               /\ \E e \in rel : Place(e[1]) = n /\ Place(e[2]) = Place(Target[d])
  BY <1>4, <1>8
<1>. HIDE DEF In, Needs
<1>9. ASSUME NEW m \in DOMAIN C, NEW c \in In(m) PROVE G[m].needs = Needed(rel, c)
  <2>1. c \in Critics /\ Place(Target[c]) = m /\ Target[c] \in Artifacts
    BY <1>1, <1>9 DEF In
  <2>2. ASSUME NEW d \in Critics PROVE d \in G[m].needs <=> d \in Needed(rel, c)
    <3>1. Target[d] \in Artifacts
      BY <1>1
    <3>2. Place(Target[d]) # m <=> Target[d] \notin Cycle(rel, Target[c])
      BY <2>1, <3>1, <1>5
    <3>3. \A e \in rel : /\ Place(e[1]) = m <=> e[1] \in Cycle(rel, Target[c])
                         /\ Place(e[2]) = Place(Target[d]) <=> e[2] \in Cycle(rel, Target[d])
      BY <2>1, <3>1, <1>5, <1>6
    <3>. QED BY <3>1, <3>2, <3>3, <1>8 DEF Needed
  <2>. QED BY <2>2, <1>7 DEF Needed
<1>10. ASSUME NEW m \in DOMAIN C, NEW n \in DOMAIN C, NEW c \in In(m)
       PROVE  /\ c \in In(n) => m = n
              /\ c \in G[n].needs => m < n
  <2>1. c \in Critics /\ Place(Target[c]) = m
    BY DEF In
  <2>2. m \in Nat /\ n \in Nat
    BY <1>2
  <2>. QED BY <2>1, <2>2, <1>6, <1>8 DEF In
<1>11. \A c \in Critics : \E n \in DOMAIN C : c \in In(n)
  BY <1>1, <1>3 DEF In
<1>12. DOMAIN G = DOMAIN C /\ Len(G) = Len(C)
  <2>1. DOMAIN G = 1..Len(C)
    BY <1>2, <1>4
  <2>. QED BY <2>1, <1>2, <1>4
<1>13. \A n : In(n) \subseteq Critics
  BY DEF In
<1>. QED BY <1>2, <1>7, <1>9, <1>10, <1>11, <1>12, <1>13 DEF G

\* What Runs may ask for.
Selected == [artifacts : SUBSET Artifacts, critics : SUBSET Critics]

\* What is required refers to nothing that is not.
LEMMA RequiredFacts ==
  ASSUME NEW rel \in Relations, NEW selection \in Selected
  PROVE  /\ RequiredArtifacts(rel, selection) \in SUBSET Artifacts
         /\ Closed(rel, RequiredArtifacts(rel, selection))
         /\ \A a \in RequiredArtifacts(rel, selection) :
              Closure(rel, {a}) \subseteq RequiredArtifacts(rel, selection)
<1>. DEFINE roots == IF selection = Everything THEN Artifacts
                     ELSE selection.artifacts \cup {Target[c] : c \in selection.critics}
<1>1. rel \in SUBSET (Artifacts \X Artifacts) /\ roots \in SUBSET Artifacts
  BY QueryAssumption DEF Selected
<1>2. RequiredArtifacts(rel, selection) = Closure(rel, roots)
  BY DEF RequiredArtifacts
<1>. HIDE DEF roots
<1>3. Closure(rel, roots) \in SUBSET Artifacts /\ Closed(rel, Closure(rel, roots))
  BY <1>1, ClosureFacts
<1>4. ASSUME NEW a \in Closure(rel, roots) PROVE Closure(rel, {a}) \subseteq Closure(rel, roots)
  <2>1. {a} \in SUBSET Artifacts /\ {a} \subseteq Closure(rel, roots)
    BY <1>3
  <2>. QED BY <2>1, <1>1, <1>3, ClosureFacts
<1>. QED BY <1>2, <1>3, <1>4

\* Who gates a critic of a required artifact reviews a required artifact.
LEMMA NeedsRequired ==
  ASSUME NEW rel \in Relations, NEW selection \in Selected,
         NEW c \in Critics, Target[c] \in RequiredArtifacts(rel, selection),
         NEW d \in Needed(rel, c)
  PROVE  d \in Critics /\ Target[d] \in RequiredArtifacts(rel, selection)
<1>1. PICK e \in rel : e[1] \in Cycle(rel, Target[c]) /\ e[2] \in Cycle(rel, Target[d])
  BY DEF Needed
<1>2. e[1] \in RequiredArtifacts(rel, selection)
  BY <1>1, RequiredFacts DEF Cycle
<1>3. e[2] \in RequiredArtifacts(rel, selection)
  BY <1>2, RequiredFacts DEF Closed
<1>4. Target[d] \in Closure(rel, {e[2]})
  BY <1>1 DEF Cycle
<1>. QED BY <1>3, <1>4, RequiredFacts DEF Needed

\* The gates of a Run are in an order: a critic is behind one of them, and those it waits
\* for are behind earlier ones, and members too.
Tiered(k) ==
  LET gates == plan[k].gates
  IN  /\ plan[k].required \in SUBSET Artifacts /\ plan[k].included \in SUBSET Critics
      /\ Members(k) = {c \in Critics : Target[c] \in plan[k].required}
      /\ Len(gates) \in Nat /\ DOMAIN gates = 1..Len(gates)
      /\ \A c \in Critics : Gating(k, c) \in SUBSET Critics
      /\ \A c \in Members(k) : Gating(k, c) \subseteq Members(k)
      /\ \E rank \in [Critics -> 0..Len(gates)] :
           /\ \A c \in Critics : \A n \in DOMAIN gates : c \in gates[n].critics <=> rank[c] = n
           /\ \A c \in Critics : rank[c] # 0 => Gating(k, c) = gates[rank[c]].needs
           /\ \A c \in Critics : rank[c] = 0 => Gating(k, c) = {}
           /\ \A c \in Critics : \A e \in Gating(k, c) : rank[e] < rank[c]

LEMMA TieredHolds ==
  ASSUME NEW k \in Runs, plan = [j \in Runs |-> AsSubmitted(j)]
  PROVE  Tiered(k)
<1>. DEFINE sel == Asks[k].selection
            required == RequiredArtifacts(Rel, sel)
            given == IF k \in Ungated THEN <<>> ELSE Gates(Rel)
            gating == [c \in Critics |->
                         UNION {given[n].needs : n \in {n \in DOMAIN given : c \in given[n].critics}}]
<1>1. /\ sel \in Selected /\ Rel \in Relations /\ sel.critics \subseteq Critics
      /\ Target \in [Critics -> Artifacts]
  BY ReadinessAssumption, QueryAssumption DEF Selected
<1>2. /\ plan[k].required = required /\ plan[k].gates = given /\ plan[k].gating = gating
      /\ Members(k) = {c \in Critics : Target[c] \in required}
      /\ plan[k].included = IncludedCritics(Rel, sel, Asks[k].recursive)
  <2>1. plan[k] = AsSubmitted(k)
    OBVIOUS
  <2>2. Once(given) = given
    BY OnceIs
  <2>. HIDE DEF given, required, sel
  <2>3. AsSubmitted(k).gates = given
    BY <2>2 DEF AsSubmitted, given
  <2>4. AsSubmitted(k).gating = gating
    BY <2>2 DEF AsSubmitted, given
  <2>5. /\ AsSubmitted(k).required = required
        /\ AsSubmitted(k).members = {c \in Critics : Target[c] \in required}
        /\ AsSubmitted(k).included = IncludedCritics(Rel, sel, Asks[k].recursive)
    BY DEF AsSubmitted, required, sel
  <2>. QED BY <2>1, <2>3, <2>4, <2>5 DEF Members
<1>3. required \in SUBSET Artifacts
  BY <1>1, RequiredFacts
<1>. HIDE DEF sel
<1>4. plan[k].included \in SUBSET Critics
  BY <1>1, <1>2 DEF IncludedCritics, SelectedCritics
<1>. HIDE DEF required, gating
<1>5. CASE k \in Ungated
  <2>1. given = <<>> /\ Len(given) = 0 /\ DOMAIN given = 1..0 /\ 1..0 = {}
    BY <1>5
  <2>. HIDE DEF given
  <2>2. \A c \in Critics : Gating(k, c) = {}
    BY <1>2, <2>1 DEF Gating, gating
  <2>. DEFINE rank == [c \in Critics |-> 0]
  <2>3. rank \in [Critics -> 0..0] /\ 0 \in Nat
    OBVIOUS
  <2>4. \E r \in [Critics -> 0..Len(given)] :
           /\ \A c \in Critics : \A n \in DOMAIN given : c \in given[n].critics <=> r[c] = n
           /\ \A c \in Critics : r[c] # 0 => Gating(k, c) = given[r[c]].needs
           /\ \A c \in Critics : r[c] = 0 => Gating(k, c) = {}
           /\ \A c \in Critics : \A e \in Gating(k, c) : r[e] < r[c]
    <3>. WITNESS rank \in [Critics -> 0..Len(given)]
    <3>. QED BY <2>1, <2>2
  <2>. QED BY <1>2, <1>3, <1>4, <2>1, <2>2, <2>4 DEF Tiered
<1>6. CASE k \notin Ungated
  <2>1. given = Gates(Rel)
    BY <1>6
  <2>. HIDE DEF given
  <2>2. /\ Len(given) \in Nat /\ DOMAIN given = 1..Len(given)
        /\ \A n \in DOMAIN given : given[n].critics \subseteq Critics /\ given[n].needs \subseteq Critics
        /\ \A c \in Critics : \E n \in DOMAIN given : c \in given[n].critics
        /\ \A m, n \in DOMAIN given : \A c \in given[m].critics :
             /\ given[m].needs = Needed(Rel, c)
             /\ c \in given[n].critics => m = n
             /\ c \in given[n].needs => m < n
    BY <1>1, <2>1, GateFacts
  <2>. DEFINE rank == [c \in Critics |-> CHOOSE n \in DOMAIN given : c \in given[n].critics]
  <2>3. \A c \in Critics : rank[c] \in DOMAIN given /\ c \in given[rank[c]].critics
    BY <2>2
  <2>4. rank \in [Critics -> 0..Len(given)] /\ \A c \in Critics : rank[c] # 0
    BY <2>2, <2>3
  <2>. HIDE DEF rank
  <2>5. \A c \in Critics : \A n \in DOMAIN given : c \in given[n].critics <=> rank[c] = n
    BY <2>2, <2>3
  <2>6. ASSUME NEW c \in Critics PROVE Gating(k, c) = given[rank[c]].needs
    <3>1. {n \in DOMAIN given : c \in given[n].critics} = {rank[c]}
      BY <2>3, <2>5
    <3>2. Gating(k, c) = UNION {given[n].needs : n \in {n \in DOMAIN given : c \in given[n].critics}}
      BY <1>2 DEF Gating, gating
    <3>. QED BY <3>1, <3>2
  <2>7. ASSUME NEW c \in Critics PROVE Gating(k, c) = Needed(Rel, c) /\ Gating(k, c) \in SUBSET Critics
    BY <2>2, <2>3, <2>6
  <2>8. ASSUME NEW c \in Critics, NEW e \in Gating(k, c) PROVE rank[e] < rank[c]
    <3>1. e \in Critics /\ e \in given[rank[c]].needs
      BY <2>6, <2>7
    <3>. QED BY <3>1, <2>2, <2>3
  <2>9. ASSUME NEW c \in Members(k) PROVE Gating(k, c) \subseteq Members(k)
    <3>1. c \in Critics /\ Target[c] \in required
      BY <1>2
    <3>2. \A e \in Needed(Rel, c) : e \in Critics /\ Target[e] \in required
      BY <1>1, <3>1, NeedsRequired DEF required
    <3>. QED BY <1>2, <2>7, <3>1, <3>2
  <2>10. \E r \in [Critics -> 0..Len(given)] :
           /\ \A c \in Critics : \A n \in DOMAIN given : c \in given[n].critics <=> r[c] = n
           /\ \A c \in Critics : r[c] # 0 => Gating(k, c) = given[r[c]].needs
           /\ \A c \in Critics : r[c] = 0 => Gating(k, c) = {}
           /\ \A c \in Critics : \A e \in Gating(k, c) : r[e] < r[c]
    <3>. USE <2>4
    <3>. WITNESS rank \in [Critics -> 0..Len(given)]
    <3>. QED BY <2>4, <2>5, <2>6, <2>8
  <2>11. /\ Len(given) \in Nat /\ DOMAIN given = 1..Len(given)
         /\ \A c \in Critics : Gating(k, c) \in SUBSET Critics
    BY <2>2, <2>7
  <2>. HIDE DEF given
  <2>. QED BY <1>2, <1>3, <1>4, <2>9, <2>10, <2>11 DEF Tiered
<1>. QED BY <1>5, <1>6

-----------------------------------------------------------------------------
\* r is b with another member c and another request for it, and the counts moved for that.
Touch(b, r, c) ==
  /\ r \in Books /\ r.run = b.run /\ r.worker = b.worker /\ r.unmet = b.unmet /\ r.red = b.red
  /\ \A e \in Critics : e # c => r.member[e] = b.member[e] /\ r.request[e] = b.request[e]
  /\ \A n \in Buckets : r.counts[n] = b.counts[n] + Bit(Bucket(r.member[c].state) = n)
                                                  - Bit(Bucket(b.member[c].state) = n)

LEMMA BucketIs == \A state : Bucket(state) \in Buckets
BY DEF Bucket, Buckets

\* changeCount moves two counts, or none.
LEMMA CountedFacts ==
  ASSUME NEW b \in Books, NEW was, NEW next
  PROVE  /\ Counted(b, was, next) \in Books
         /\ Counted(b, was, next) = [b EXCEPT !.counts = Counted(b, was, next).counts]
         /\ \A n \in Buckets : Counted(b, was, next).counts[n] =
              b.counts[n] + Bit(Bucket(next) = n) - Bit(Bucket(was) = n)
<1>. DEFINE f == [n \in Buckets |-> b.counts[n] - Bit(Bucket(was) = n) + Bit(Bucket(next) = n)]
<1>1. b.counts \in [Buckets -> Int] /\ \A x : Bit(x) \in Int
  BY DEF Books, Bit
<1>2. f \in [Buckets -> Int]
  BY <1>1
<1>3. Counted(b, was, next) = [b EXCEPT !.counts = f]
  BY DEF Counted, Books
<1>4. \A n \in Buckets : f[n] = b.counts[n] + Bit(Bucket(next) = n) - Bit(Bucket(was) = n)
  BY <1>1
<1>. HIDE DEF f
<1>5. [b EXCEPT !.counts = f] \in Books /\ [b EXCEPT !.counts = f].counts = f
  BY <1>2 DEF Books
<1>. QED BY <1>3, <1>4, <1>5

LEMMA StateSetFacts ==
  ASSUME NEW b \in Books, NEW c \in Critics, NEW state \in States
  PROVE  /\ Touch(b, StateSet(b, c, state), c)
         /\ StateSet(b, c, state).request = b.request
         /\ StateSet(b, c, state).served = b.served
         /\ StateSet(b, c, state).member[c] =
              [state |-> state, request |-> b.member[c].request, evidence |-> b.member[c].evidence]
<1>. DEFINE k == Counted(b, b.member[c].state, state)
            r == StateSet(b, c, state)
<1>1. /\ k \in Books /\ k = [b EXCEPT !.counts = k.counts]
      /\ \A n \in Buckets : k.counts[n] =
           b.counts[n] + Bit(Bucket(state) = n) - Bit(Bucket(b.member[c].state) = n)
  BY CountedFacts
<1>2. r = [k EXCEPT !.member[c].state = state]
  BY DEF StateSet
<1>. HIDE DEF k
<1>3. k.member = b.member /\ k.request = b.request /\ k.run = b.run /\ k.worker = b.worker
      /\ k.unmet = b.unmet /\ k.red = b.red /\ k.served = b.served
  BY <1>1 DEF Books
<1>. DEFINE m == [b.member EXCEPT ![c].state = state]
<1>4. r = [k EXCEPT !.member = m]
  BY <1>1, <1>2, <1>3 DEF Books
<1>5. m \in [Critics -> [state : States, request : {None} \cup Requests, evidence : {None} \cup Requests]]
  BY DEF Books
<1>6. m[c] = [state |-> state, request |-> b.member[c].request, evidence |-> b.member[c].evidence]
  BY DEF Books
<1>7. \A e \in Critics : e # c => m[e] = b.member[e]
  BY DEF Books
<1>. HIDE DEF m
<1>8. r \in Books
  BY <1>1, <1>4, <1>5 DEF Books
<1>9. /\ r.run = b.run /\ r.worker = b.worker /\ r.unmet = b.unmet /\ r.red = b.red
      /\ r.request = b.request /\ r.served = b.served /\ r.counts = k.counts /\ r.member = m
  BY <1>1, <1>3, <1>4 DEF Books
<1>10. r.member[c].state = state
  BY <1>6, <1>9
<1>11. Touch(b, r, c)
  BY <1>1, <1>7, <1>8, <1>9, <1>10 DEF Touch
<1>. QED BY <1>6, <1>9, <1>11

LEMMA TouchTrans ==
  ASSUME NEW b \in Books, NEW c \in Critics, NEW x, NEW r, Touch(b, x, c), Touch(x, r, c)
  PROVE  Touch(b, r, c)
<1>1. x \in Books /\ b.counts \in [Buckets -> Int] /\ x.counts \in [Buckets -> Int]
  BY DEF Touch, Books
<1>2. \A y : Bit(y) \in Int
  BY DEF Bit
<1>3. ASSUME NEW n \in Buckets
      PROVE  r.counts[n] = b.counts[n] + Bit(Bucket(r.member[c].state) = n) - Bit(Bucket(b.member[c].state) = n)
  <2>1. /\ x.counts[n] = b.counts[n] + Bit(Bucket(x.member[c].state) = n) - Bit(Bucket(b.member[c].state) = n)
        /\ r.counts[n] = x.counts[n] + Bit(Bucket(r.member[c].state) = n) - Bit(Bucket(x.member[c].state) = n)
        /\ b.counts[n] \in Int /\ x.counts[n] \in Int
    BY <1>1 DEF Touch
  <2>. QED BY <2>1, <1>2
<1>. QED BY <1>3 DEF Touch

\* A request is given a state.
LEMMA RequestFacts ==
  ASSUME NEW b \in Books, NEW c \in Critics, NEW s \in States
  PROVE  LET r == [b EXCEPT !.request[c] = s]
         IN  /\ Touch(b, r, c)
             /\ r.member = b.member /\ r.served = b.served /\ r.request[c] = s
<1>. DEFINE r == [b EXCEPT !.request[c] = s]
            f == [b.request EXCEPT ![c] = s]
<1>1. r = [b EXCEPT !.request = f]
  BY DEF Books
<1>2. f \in [Critics -> States] /\ f[c] = s /\ \A e \in Critics : e # c => f[e] = b.request[e]
  BY DEF Books
<1>. HIDE DEF f
<1>3. r \in Books
  BY <1>1, <1>2 DEF Books
<1>4. /\ r.run = b.run /\ r.worker = b.worker /\ r.unmet = b.unmet /\ r.red = b.red
      /\ r.request = f /\ r.served = b.served /\ r.counts = b.counts /\ r.member = b.member
  BY <1>1 DEF Books
<1>. HIDE DEF r
<1>5. \A n \in Buckets : b.counts[n] \in Int
  BY DEF Books
<1>6. \A y : Bit(y) \in Int
  BY DEF Bit
<1>7. Touch(b, r, c)
  BY <1>2, <1>3, <1>4, <1>5, <1>6 DEF Touch
<1>. QED BY <1>2, <1>4, <1>7 DEF r

\* A member is given a request and evidence.
LEMMA ShownFacts ==
  ASSUME NEW b \in Books, NEW c \in Critics, NEW q \in {None} \cup Requests, NEW v \in {None} \cup Requests
  PROVE  LET r == [b EXCEPT !.member[c] = [state |-> @.state, request |-> q, evidence |-> v]]
         IN  /\ Touch(b, r, c)
             /\ r.request = b.request /\ r.served = b.served
             /\ r.member[c] = [state |-> b.member[c].state, request |-> q, evidence |-> v]
<1>. DEFINE r == [b EXCEPT !.member[c] = [state |-> @.state, request |-> q, evidence |-> v]]
            m == [state |-> b.member[c].state, request |-> q, evidence |-> v]
            f == [b.member EXCEPT ![c] = m]
            M == [state : States, request : {None} \cup Requests, evidence : {None} \cup Requests]
<1>1. b.member \in [Critics -> M] /\ b.member[c].state \in States
  BY DEF Books
<1>2. m \in M
  BY <1>1
<1>3. r = [b EXCEPT !.member = f]
  BY DEF Books
<1>. HIDE DEF m, M
<1>4. f \in [Critics -> M] /\ f[c] = m /\ \A e \in Critics : e # c => f[e] = b.member[e]
  BY <1>1, <1>2
<1>. HIDE DEF f
<1>5. r \in Books
  BY <1>3, <1>4 DEF Books, M
<1>6. /\ r.run = b.run /\ r.worker = b.worker /\ r.unmet = b.unmet /\ r.red = b.red
      /\ r.request = b.request /\ r.served = b.served /\ r.counts = b.counts /\ r.member = f
  BY <1>3 DEF Books
<1>. HIDE DEF r
<1>7. \A n \in Buckets : b.counts[n] \in Int
  BY DEF Books
<1>8. \A y : Bit(y) \in Int
  BY DEF Bit
<1>9. r.member[c].state = b.member[c].state
  BY <1>4, <1>6 DEF m
<1>10. Touch(b, r, c)
  BY <1>4, <1>5, <1>6, <1>7, <1>8, <1>9 DEF Touch
<1>. QED BY <1>4, <1>6, <1>10 DEF m, r

LEMMA GateStateIs == \A b, c : GateState(b, c) \in Waiting /\ GateState(b, c) \in States
BY DEF GateState, Waiting, States, Open

\* A member shows its request, or waits.
LEMMA SetMemberFacts ==
  ASSUME NEW b \in Books, NEW k \in Runs, NEW c \in Critics
  PROVE  LET q == <<k, c>>
             r == SetMember(b, k, c)
         IN  /\ Touch(b, r, c)
             /\ r.request = b.request /\ r.served = b.served
             /\ r.member[c] = [state |-> Effective(b, k, c, q, b.request[c]), request |-> q,
                               evidence |-> IF b.request[c] \in Verdicts THEN q ELSE None]
<1>. DEFINE q == <<k, c>>
            r == SetMember(b, k, c)
            s == Effective(b, k, c, q, b.request[c])
            v == IF b.request[c] \in Verdicts THEN q ELSE None
            x == StateSet(b, c, s)
<1>1. q \in {None} \cup Requests /\ v \in {None} \cup Requests
  BY DEF Requests
<1>2. s \in States
  <2>1. b.request[c] \in States
    BY DEF Books
  <2>. QED BY <2>1, GateStateIs DEF Effective
<1>3. r = [x EXCEPT !.member[c] = [state |-> @.state, request |-> q, evidence |-> v]]
  BY DEF SetMember
<1>. HIDE DEF s, v, q, r
<1>4. /\ Touch(b, x, c) /\ x.request = b.request /\ x.served = b.served
      /\ x.member[c] = [state |-> s, request |-> b.member[c].request, evidence |-> b.member[c].evidence]
  BY <1>2, StateSetFacts
<1>. HIDE DEF x
<1>5. x \in Books
  BY <1>4 DEF Touch
<1>6. /\ Touch(x, r, c) /\ r.request = x.request /\ r.served = x.served
      /\ r.member[c] = [state |-> x.member[c].state, request |-> q, evidence |-> v]
  BY <1>1, <1>3, <1>5, ShownFacts
<1>7. Touch(b, r, c)
  BY <1>4, <1>6, TouchTrans
<1>8. r.member[c] = [state |-> s, request |-> q, evidence |-> v]
  BY <1>4, <1>6
<1>. QED BY <1>4, <1>6, <1>7, <1>8 DEF s, v, q, r

LEMMA CreatedFacts ==
  ASSUME NEW b \in Books, NEW c \in Critics
  PROVE  LET r == Created(b, c)
         IN  /\ Touch(b, r, c)
             /\ r.member = b.member /\ r.served = b.served
             /\ r.request[c] = IF b.unmet[c] > 0 THEN GateState(b, c) ELSE "QUEUED"
<1>1. "QUEUED" \in States
  BY DEF States, Open
<1>. QED BY <1>1, GateStateIs, RequestFacts DEF Created

\* A member goes where its gates send it, and its request with it if that has no verdict.
LEMMA GateMemberFacts ==
  ASSUME NEW b \in Books, NEW k \in Runs, NEW c \in Critics, NEW s \in States
  PROVE  LET r == GateMember(b, k, c, s)
         IN  /\ Touch(b, r, c)
             /\ r.served = b.served
             /\ r.request[c] = IF b.member[c].request = <<k, c>> /\ b.request[c] \notin Verdicts
                               THEN s ELSE b.request[c]
             /\ r.member[c] = [state |-> s, request |-> b.member[c].request,
                               evidence |-> b.member[c].evidence]
<1>. DEFINE r == GateMember(b, k, c, s)
            t == IF b.member[c].request = <<k, c>> /\ b.request[c] \notin Verdicts
                 THEN s ELSE b.request[c]
            x == StateSet(b, c, s)
<1>1. t \in States
  BY DEF Books
<1>2. /\ Touch(b, x, c) /\ x.request = b.request /\ x.served = b.served
      /\ x.member[c] = [state |-> s, request |-> b.member[c].request, evidence |-> b.member[c].evidence]
  BY StateSetFacts
<1>. HIDE DEF x
<1>3. x \in Books
  BY <1>2 DEF Touch
<1>4. r = [x EXCEPT !.request[c] = t]
  BY <1>2 DEF GateMember, x
<1>. HIDE DEF t, r
<1>5. Touch(x, r, c) /\ r.member = x.member /\ r.served = x.served /\ r.request[c] = t
  BY <1>1, <1>3, <1>4, RequestFacts
<1>6. Touch(b, r, c)
  BY <1>2, <1>5, TouchTrans
<1>. QED BY <1>2, <1>5, <1>6 DEF t, r

-----------------------------------------------------------------------------
\* What holds of a member and its request, whatever the counters are: only a request that
\* was created is shown, its evidence is its own verdict, and who is in the queue or runs
\* has a request that does.
SaneAt(k, b, c) ==
  LET m == b.member[c]
  IN  /\ m.request \in {None, <<k, c>>}
      /\ m.request = None <=> b.request[c] = "absent"
      /\ m.request # None => (m.evidence # None <=> b.request[c] \in Verdicts)
      /\ m.state \in {"QUEUED", "RUNNING"} => m.request # None /\ b.request[c] = m.state
      /\ b.request[c] # "absent" => c \in Members(k)

\* Evidence is a request with a verdict.
Witnessed(d, b, c) ==
  b.member[c].evidence # None => Verdict(d, b.member[c].evidence) \in Verdicts

LEMMA VerdictIs == \A d \in Stores, q \in Requests : Verdict(d, q) \in States
BY DEF Stores, Books, Requests, Verdict, Home, Of

\* No request is None.
LEMMA NoRequest == \A q \in Requests : q # None
BY ReadinessAssumption DEF Requests

LEMMA RegatedTouches ==
  ASSUME NEW d \in Stores, NEW k \in Runs, NEW b \in Books, NEW c \in Critics
  PROVE  Touch(b, Regated(d, k, b, c), c)
<1>. DEFINE m == b.member[c]
            r == Regated(d, k, b, c)
<1>1. Touch(b, b, c)
  BY DEF Touch, Books, Bit
<1>2. m.evidence \in {None} \cup Requests
  BY DEF Books
<1>3. m.evidence # None => Verdict(d, m.evidence) \in States
  BY <1>2, VerdictIs
<1>4. "QUEUED" \in States
  BY DEF States, Open
<1>5. \A s \in States : Touch(b, GateMember(b, k, c, s), c)
  BY GateMemberFacts
<1>6. Touch(b, SetMember(Once(Created(b, c)), k, c), c)
  <2>. DEFINE x == Created(b, c)
  <2>1. Touch(b, x, c) /\ Once(x) = x
    BY CreatedFacts, OnceIs
  <2>. HIDE DEF x
  <2>2. x \in Books
    BY <2>1 DEF Touch
  <2>3. Touch(x, SetMember(x, k, c), c)
    BY <2>2, SetMemberFacts
  <2>. QED BY <2>1, <2>3, TouchTrans DEF x
<1>7. r = IF m.state \notin Waiting \/ (b.unmet[c] > 0 /\ m.state = GateState(b, c)) THEN b
          ELSE IF b.unmet[c] > 0 THEN GateMember(b, k, c, GateState(b, c))
          ELSE IF m.evidence # None THEN GateMember(b, k, c, Verdict(d, m.evidence))
          ELSE IF m.request # None THEN GateMember(b, k, c, "QUEUED")
          ELSE IF c \in plan[k].included THEN SetMember(Once(Created(b, c)), k, c) ELSE b
  BY DEF Regated
<1>. HIDE DEF r, m
<1>8. r \in {b, SetMember(Once(Created(b, c)), k, c)} \/ \E s \in States : r = GateMember(b, k, c, s)
  BY <1>3, <1>4, <1>7, GateStateIs
<1>. QED BY <1>1, <1>5, <1>6, <1>8 DEF r

\* The words for states that differ.
LEMMA Words ==
  /\ Verdicts \cap Waiting = {} /\ "QUEUED" \notin Verdicts \cup Waiting
  /\ "RUNNING" \notin Verdicts \cup Waiting /\ "absent" \notin Verdicts \cup Waiting \cup {"QUEUED", "RUNNING"}
  /\ "MISSING" \notin Verdicts \cup Waiting \cup {"QUEUED", "RUNNING"}
  /\ "ERROR" \notin Verdicts \cup Waiting \cup {"QUEUED", "RUNNING", "absent"}
  /\ Verdicts \subseteq States /\ Waiting \subseteq States
BY DEF Verdicts, Waiting, States, Open

\* Only a member that waits is moved; evidence and verdicts stay as they are.
LEMMA RegatedFacts ==
  ASSUME NEW d \in Stores, NEW k \in Runs, NEW b \in Books, NEW c \in Critics, c \in Members(k),
         SaneAt(k, b, c), Witnessed(d, b, c)
  PROVE  LET r == Regated(d, k, b, c)
         IN  /\ SaneAt(k, r, c)
             /\ r.served = b.served
             /\ r.member[c].evidence = b.member[c].evidence
             /\ b.request[c] \in Verdicts => r.request[c] = b.request[c]
             /\ b.member[c].state \notin Waiting => r.member[c].state = b.member[c].state
<1>. DEFINE m == b.member[c]
            r == Regated(d, k, b, c)
            Goal == /\ SaneAt(k, r, c)
                    /\ r.served = b.served
                    /\ r.member[c].evidence = b.member[c].evidence
                    /\ b.request[c] \in Verdicts => r.request[c] = b.request[c]
                    /\ b.member[c].state \notin Waiting => r.member[c].state = b.member[c].state
<1>1. r = IF m.state \notin Waiting \/ (b.unmet[c] > 0 /\ m.state = GateState(b, c)) THEN b
          ELSE IF b.unmet[c] > 0 THEN GateMember(b, k, c, GateState(b, c))
          ELSE IF m.evidence # None THEN GateMember(b, k, c, Verdict(d, m.evidence))
          ELSE IF m.request # None THEN GateMember(b, k, c, "QUEUED")
          ELSE IF c \in plan[k].included THEN SetMember(Once(Created(b, c)), k, c) ELSE b
  BY DEF Regated
<1>2. /\ m.request \in {None, <<k, c>>} /\ None # <<k, c>>
      /\ m.request = None <=> b.request[c] = "absent"
      /\ m.request # None => (m.evidence # None <=> b.request[c] \in Verdicts)
      /\ m.evidence # None => Verdict(d, m.evidence) \in Verdicts
  BY NoRequest DEF SaneAt, Witnessed, Requests
<1>. HIDE DEF r
<1>3. ASSUME r = b PROVE Goal
  BY <1>3
<1>4. ASSUME NEW s \in States, r = GateMember(b, k, c, s), m.state \in Waiting,
             \/ s \in Waiting
             \/ s \in Verdicts /\ m.evidence # None
             \/ s = "QUEUED" /\ m.request # None /\ m.evidence = None
      PROVE  Goal
  <2>1. /\ r.served = b.served
        /\ r.request[c] = IF m.request = <<k, c>> /\ b.request[c] \notin Verdicts THEN s ELSE b.request[c]
        /\ r.member[c] = [state |-> s, request |-> m.request, evidence |-> m.evidence]
    BY <1>4, GateMemberFacts
  <2>2. r.member[c].state = s /\ r.member[c].request = m.request /\ r.member[c].evidence = m.evidence
    BY <2>1
  <2>. HIDE DEF m
  <2>3. s \in Waiting \/ s = "QUEUED" => s \notin Verdicts /\ s # "absent"
    BY Words
  <2>4. s \in {"QUEUED", "RUNNING"} => s = "QUEUED" /\ m.request # None /\ m.evidence = None
    BY <1>4, Words
  <2>5. SaneAt(k, r, c)
    BY <1>2, <1>4, <2>1, <2>2, <2>3, <2>4 DEF SaneAt, m
  <2>. QED BY <1>2, <1>4, <2>1, <2>2, <2>5 DEF m
<1>5. ASSUME r = SetMember(Created(b, c), k, c), m.state \in Waiting, ~(b.unmet[c] > 0),
             m.request = None, m.evidence = None
      PROVE  Goal
  <2>. DEFINE x == Created(b, c)
              s == Effective(x, k, c, <<k, c>>, x.request[c])
  <2>1. Touch(b, x, c) /\ x.served = b.served /\ x.member = b.member /\ x.request[c] = "QUEUED"
    BY <1>5, CreatedFacts
  <2>2. r = SetMember(x, k, c)
    BY <1>5
  <2>. HIDE DEF x
  <2>3. x \in Books /\ x.unmet = b.unmet
    BY <2>1 DEF Touch
  <2>4. s = "QUEUED"
    BY <1>5, <2>1, <2>3 DEF Effective
  <2>5. /\ r.request = x.request /\ r.served = x.served
        /\ r.member[c] = [state |-> s, request |-> <<k, c>>,
                          evidence |-> IF x.request[c] \in Verdicts THEN <<k, c>> ELSE None]
    BY <2>2, <2>3, SetMemberFacts
  <2>. HIDE DEF s
  <2>6. /\ r.member[c].state = "QUEUED" /\ r.member[c].request = <<k, c>>
        /\ r.member[c].evidence = None /\ r.request[c] = "QUEUED"
    BY <2>1, <2>4, <2>5, Words
  <2>7. SaneAt(k, r, c)
    BY <2>6, <1>2, Words DEF SaneAt
  <2>. QED BY <1>2, <1>5, <2>1, <2>5, <2>6, <2>7, Words
<1>6. Once(Created(b, c)) = Created(b, c)
  BY OnceIs
<1>. HIDE DEF Goal, m
<1>7. ASSUME r = b PROVE Goal
  BY <1>3, <1>7
<1>8. ASSUME r # b, b.unmet[c] > 0 PROVE Goal
  <2>1. m.state \in Waiting /\ r = GateMember(b, k, c, GateState(b, c))
    BY <1>1, <1>8
  <2>. QED BY <2>1, <1>4, GateStateIs
<1>9. ASSUME r # b, ~(b.unmet[c] > 0), m.evidence # None PROVE Goal
  <2>1. m.state \in Waiting /\ r = GateMember(b, k, c, Verdict(d, m.evidence))
    BY <1>1, <1>9
  <2>. QED BY <2>1, <1>2, <1>4, <1>9, Words
<1>10. ASSUME r # b, ~(b.unmet[c] > 0), m.evidence = None, m.request # None PROVE Goal
  <2>1. m.state \in Waiting /\ r = GateMember(b, k, c, "QUEUED") /\ "QUEUED" \in States
    BY <1>1, <1>10 DEF States, Open
  <2>. QED BY <2>1, <1>4, <1>10
<1>11. ASSUME r # b, ~(b.unmet[c] > 0), m.evidence = None, m.request = None PROVE Goal
  <2>1. m.state \in Waiting /\ r = SetMember(Created(b, c), k, c)
    BY <1>1, <1>6, <1>11
  <2>. QED BY <2>1, <1>5, <1>11
<1>12. Goal
  BY <1>7, <1>8, <1>9, <1>10, <1>11
<1>. QED BY <1>12 DEF Goal, r

-----------------------------------------------------------------------------
\* By how much the counters of a book are ahead of what its members say.
Off(k, b, e) ==
  b.unmet[e] - Cardinality({f \in Gating(k, e) : b.member[f].state # "GREEN"})
OffRed(k, b, e) ==
  b.red[e] - Cardinality({f \in Gating(k, e) : Red(b.member[f].state)})
OffCount(k, b, n) ==
  b.counts[n] - Cardinality({f \in Members(k) : Bucket(b.member[f].state) = n})

\* What a member makes of the counters of those behind it when it goes from was to next.
Undone(was, next) == Bit(next # "GREEN") - Bit(was # "GREEN")
Reddened(was, next) == Bit(Red(next)) - Bit(Red(was))

\* What the graph of a Run is like: gates are among the members, and acyclic.
Framed(k) ==
  /\ Members(k) \subseteq Critics /\ Len(plan[k].gates) \in Nat
  /\ \A c \in Members(k) : Gating(k, c) \subseteq Members(k)
  /\ \E rank \in [Critics -> Nat] : \A c \in Members(k) :
       /\ rank[c] <= Len(plan[k].gates)
       /\ \A e \in Gating(k, c) : rank[e] < rank[c]

LEMMA BitIs == \A y : Bit(y) \in {0, 1}
BY DEF Bit

LEMMA OffInt ==
  ASSUME NEW k \in Runs, Framed(k), NEW b \in Books
  PROVE  /\ \A e \in Members(k) : Off(k, b, e) \in Int /\ OffRed(k, b, e) \in Int
         /\ \A n \in Buckets : OffCount(k, b, n) \in Int
<1>1. IsFiniteSet(Critics) /\ Members(k) \subseteq Critics
  BY QueryAssumption DEF Framed
<1>2. \A A \in SUBSET Critics : Cardinality(A) \in Nat
  BY <1>1, FS_Subset, FS_CardinalityType
<1>3. ASSUME NEW e \in Members(k) PROVE Off(k, b, e) \in Int /\ OffRed(k, b, e) \in Int
  <2>. DEFINE A == {f \in Gating(k, e) : b.member[f].state # "GREEN"}
              B == {f \in Gating(k, e) : Red(b.member[f].state)}
  <2>1. A \in SUBSET Critics /\ B \in SUBSET Critics
    BY <1>1 DEF Framed
  <2>2. Cardinality(A) \in Nat /\ Cardinality(B) \in Nat
    <3>. HIDE DEF A, B
    <3>. QED BY <2>1, <1>2
  <2>3. b.unmet[e] \in Int /\ b.red[e] \in Int
    BY <1>1 DEF Books
  <2>4. Off(k, b, e) = b.unmet[e] - Cardinality(A) /\ OffRed(k, b, e) = b.red[e] - Cardinality(B)
    BY DEF Off, OffRed
  <2>. HIDE DEF A, B
  <2>. QED BY <2>2, <2>3, <2>4
<1>4. ASSUME NEW n \in Buckets PROVE OffCount(k, b, n) \in Int
  <2>. DEFINE A == {f \in Members(k) : Bucket(b.member[f].state) = n}
  <2>1. A \in SUBSET Critics
    BY <1>1
  <2>2. Cardinality(A) \in Nat
    <3>. HIDE DEF A
    <3>. QED BY <2>1, <1>2
  <2>3. b.counts[n] \in Int
    BY DEF Books
  <2>4. OffCount(k, b, n) = b.counts[n] - Cardinality(A)
    BY DEF OffCount
  <2>. HIDE DEF A
  <2>. QED BY <2>2, <2>3, <2>4
<1>. QED BY <1>3, <1>4

\* When a member is moved, the counters of those behind it are off by that, until they are
\* told; those of the Run are not.
LEMMA TouchOff ==
  ASSUME NEW k \in Runs, Framed(k), NEW b \in Books, NEW c \in Members(k), NEW r, Touch(b, r, c)
  PROVE  /\ \A e \in Members(k) :
              /\ Off(k, r, e) = Off(k, b, e) -
                   (IF c \in Gating(k, e) THEN Undone(b.member[c].state, r.member[c].state) ELSE 0)
              /\ OffRed(k, r, e) = OffRed(k, b, e) -
                   (IF c \in Gating(k, e) THEN Reddened(b.member[c].state, r.member[c].state) ELSE 0)
         /\ \A n \in Buckets : OffCount(k, r, n) = OffCount(k, b, n)
<1>. DEFINE was == b.member[c].state
            next == r.member[c].state
<1>1. /\ IsFiniteSet(Critics) /\ Members(k) \subseteq Critics /\ c \in Critics
      /\ r \in Books /\ r.unmet = b.unmet /\ r.red = b.red
      /\ \A e \in Critics : e # c => r.member[e] = b.member[e]
      /\ \A n \in Buckets : r.counts[n] = b.counts[n] + Bit(Bucket(next) = n) - Bit(Bucket(was) = n)
  BY QueryAssumption DEF Framed, Touch
<1>. HIDE DEF was, next
<1>2. ASSUME NEW e \in Members(k)
      PROVE  Off(k, r, e) = Off(k, b, e) - (IF c \in Gating(k, e) THEN Undone(was, next) ELSE 0)
  <2>. DEFINE A == {f \in Gating(k, e) : b.member[f].state # "GREEN"}
              B == {f \in Gating(k, e) : r.member[f].state # "GREEN"}
  <2>1. Gating(k, e) \subseteq Critics /\ A \in SUBSET Critics /\ B \in SUBSET Critics
    BY <1>1 DEF Framed
  <2>2. \A x \in Critics : x # c => (x \in A <=> x \in B)
    BY <1>1
  <2>3. c \in A <=> c \in Gating(k, e) /\ was # "GREEN"
    BY DEF was
  <2>4. c \in B <=> c \in Gating(k, e) /\ next # "GREEN"
    BY DEF next
  <2>5. Off(k, b, e) = b.unmet[e] - Cardinality(A) /\ Off(k, r, e) = b.unmet[e] - Cardinality(B)
    BY <1>1 DEF Off
  <2>6. b.unmet[e] \in Int
    BY <1>1 DEF Books
  <2>. HIDE DEF A, B
  <2>7. /\ Cardinality(A) \in Nat /\ Cardinality(B) \in Nat
        /\ Cardinality(B) = Cardinality(A) + Bit(c \in B) - Bit(c \in A)
    BY <1>1, <2>1, <2>2, CountFacts
  <2>. QED BY <2>3, <2>4, <2>5, <2>6, <2>7 DEF Undone, Bit
<1>3. ASSUME NEW e \in Members(k)
      PROVE  OffRed(k, r, e) = OffRed(k, b, e) - (IF c \in Gating(k, e) THEN Reddened(was, next) ELSE 0)
  <2>. DEFINE A == {f \in Gating(k, e) : Red(b.member[f].state)}
              B == {f \in Gating(k, e) : Red(r.member[f].state)}
  <2>1. Gating(k, e) \subseteq Critics /\ A \in SUBSET Critics /\ B \in SUBSET Critics
    BY <1>1 DEF Framed
  <2>2. \A x \in Critics : x # c => (x \in A <=> x \in B)
    BY <1>1
  <2>3. c \in A <=> c \in Gating(k, e) /\ Red(was)
    BY DEF was
  <2>4. c \in B <=> c \in Gating(k, e) /\ Red(next)
    BY DEF next
  <2>5. OffRed(k, b, e) = b.red[e] - Cardinality(A) /\ OffRed(k, r, e) = b.red[e] - Cardinality(B)
    BY <1>1 DEF OffRed
  <2>6. b.red[e] \in Int
    BY <1>1 DEF Books
  <2>. HIDE DEF A, B
  <2>7. /\ Cardinality(A) \in Nat /\ Cardinality(B) \in Nat
        /\ Cardinality(B) = Cardinality(A) + Bit(c \in B) - Bit(c \in A)
    BY <1>1, <2>1, <2>2, CountFacts
  <2>. QED BY <2>3, <2>4, <2>5, <2>6, <2>7 DEF Reddened, Bit
<1>4. ASSUME NEW n \in Buckets PROVE OffCount(k, r, n) = OffCount(k, b, n)
  <2>. DEFINE A == {f \in Members(k) : Bucket(b.member[f].state) = n}
              B == {f \in Members(k) : Bucket(r.member[f].state) = n}
  <2>1. A \in SUBSET Critics /\ B \in SUBSET Critics
    BY <1>1
  <2>2. \A x \in Critics : x # c => (x \in A <=> x \in B)
    BY <1>1
  <2>3. (c \in A <=> Bucket(was) = n) /\ (c \in B <=> Bucket(next) = n)
    BY DEF was, next
  <2>5. /\ OffCount(k, b, n) = b.counts[n] - Cardinality(A)
        /\ OffCount(k, r, n) = r.counts[n] - Cardinality(B)
    BY DEF OffCount
  <2>6. b.counts[n] \in Int
    BY DEF Books
  <2>. HIDE DEF A, B
  <2>7. /\ Cardinality(A) \in Nat /\ Cardinality(B) \in Nat
        /\ Cardinality(B) = Cardinality(A) + Bit(c \in B) - Bit(c \in A)
    BY <1>1, <2>1, <2>2, CountFacts
  <2>8. r.counts[n] = b.counts[n] + Bit(c \in B) - Bit(c \in A)
    BY <1>1, <2>3
  <2>. QED BY <2>5, <2>6, <2>7, <2>8, BitIs
<1>. QED BY <1>2, <1>3, <1>4 DEF was, next

-----------------------------------------------------------------------------
\* A book that a cascade may begin with.
Fit(d, k, b) ==
  b \in Books /\ \A e \in Critics : SaneAt(k, b, e) /\ Witnessed(d, b, e)

\* What every part of a cascade leaves alone.
Kept(k, b, r) ==
  /\ r \in Books /\ r.run = b.run /\ r.worker = b.worker /\ r.served = b.served
  /\ \A e \in Critics :
       /\ SaneAt(k, r, e)
       /\ r.member[e].evidence = b.member[e].evidence
       /\ b.request[e] \in Verdicts => r.request[e] = b.request[e]
       /\ b.member[e].state \notin Waiting => r.member[e].state = b.member[e].state
  /\ \A n \in Buckets : OffCount(k, r, n) = OffCount(k, b, n)

\* A verdict stays.
Keeps(b, r) == \A e \in Critics : b.request[e] \in Verdicts => r.request[e] = b.request[e]

\* What a member shows is what came of its own request, if its gates let it; and only who is
\* let by them is in the queue or runs.
Showing(b, c) ==
  /\ b.request[c] \in {"QUEUED", "RUNNING"} => b.unmet[c] <= 0
  /\ b.member[c].state = "GREEN" <=> b.request[c] = "GREEN" /\ b.unmet[c] <= 0
  /\ b.request[c] = "GREEN" /\ b.unmet[c] > 0 => b.member[c].state \in Waiting

\* A Run without verdicts of others; with them a GREEN member may have to wait again.
Plain(k, b) == \A c \in Members(k) : b.member[c].evidence \in {None, <<k, c>>}
Shows(k, b) == Plain(k, b) => \A c \in Members(k) : Showing(b, c)

\* The same inside of a transaction, in which the verdicts of the Run are those in d.
Tidy(d, k, b) == Keeps(d[k], b) /\ Plain(k, b) /\ \A c \in Members(k) : Showing(b, c)
Calm(was, next) == was = "GREEN" => next = "GREEN"

\* What the cascade is for: those behind c are told that it went from was to next, and who
\* is told puts right what it changes by that.  Unless GREEN is lost, what is shown is kept.
Cascade(d, k, b, c, was, next, r) ==
  /\ Kept(k, b, r)
  /\ Calm(was, next) /\ Tidy(d, k, b) => Tidy(d, k, r)
  /\ \A e \in Members(k) :
       /\ Off(k, r, e) = Off(k, b, e) + (IF c \in Gating(k, e) THEN Undone(was, next) ELSE 0)
       /\ OffRed(k, r, e) >= OffRed(k, b, e) + (IF c \in Gating(k, e) THEN Reddened(was, next) ELSE 0)

LEMMA KeptTrans ==
  ASSUME NEW k, NEW b, NEW x, NEW r, Kept(k, b, x), Kept(k, x, r)
  PROVE  Kept(k, b, r)
BY DEF Kept

LEMMA KeptFit ==
  ASSUME NEW d, NEW k, NEW b, NEW r, Fit(d, k, b), Kept(k, b, r)
  PROVE  Fit(d, k, r)
BY DEF Kept, Fit, Witnessed

LEMMA FitKept ==
  ASSUME NEW d, NEW k, NEW b, Fit(d, k, b)
  PROVE  Kept(k, b, b)
BY DEF Kept, Fit

\* A member that is gated anew.
LEMMA RegatedKept ==
  ASSUME NEW d \in Stores, NEW k \in Runs, Framed(k), NEW b, Fit(d, k, b), NEW c \in Members(k)
  PROVE  LET r == Regated(d, k, b, c)
         IN  /\ Touch(b, r, c) /\ Kept(k, b, r)
             /\ r.member[c].state # b.member[c].state => b.member[c].state \in Waiting
<1>. DEFINE r == Regated(d, k, b, c)
<1>1. b \in Books /\ c \in Critics /\ SaneAt(k, b, c) /\ Witnessed(d, b, c)
  BY DEF Fit, Framed
<1>2. Touch(b, r, c)
  BY <1>1, RegatedTouches
<1>3. /\ SaneAt(k, r, c) /\ r.served = b.served
      /\ r.member[c].evidence = b.member[c].evidence
      /\ b.request[c] \in Verdicts => r.request[c] = b.request[c]
      /\ b.member[c].state \notin Waiting => r.member[c].state = b.member[c].state
  BY <1>1, RegatedFacts
<1>. HIDE DEF r
<1>4. \A n \in Buckets : OffCount(k, r, n) = OffCount(k, b, n)
  BY <1>1, <1>2, TouchOff
<1>5. ASSUME NEW e \in Critics, e # c
      PROVE  SaneAt(k, r, e) /\ r.member[e] = b.member[e] /\ r.request[e] = b.request[e]
  BY <1>2, <1>5 DEF Touch, Fit, SaneAt
<1>6. Kept(k, b, r)
  BY <1>2, <1>3, <1>4, <1>5 DEF Kept, Touch
<1>. QED BY <1>2, <1>3, <1>6 DEF r

\* The counters of one member are moved.
Shifted(b, e, u, v) == [b EXCEPT !.unmet[e] = @ + u, !.red[e] = @ + v]
Ahead(k, b, e, u, v, x) ==
  /\ x.member = b.member
  /\ \A f \in Members(k) :
       /\ Off(k, x, f) = Off(k, b, f) + (IF f = e THEN u ELSE 0)
       /\ OffRed(k, x, f) = OffRed(k, b, f) + (IF f = e THEN v ELSE 0)
LEMMA MovedCounters ==
  ASSUME NEW d, NEW k \in Runs, Framed(k), NEW b, Fit(d, k, b), NEW e \in Members(k),
         NEW u \in Int, NEW v \in Int, NEW x, x = Shifted(b, e, u, v)
  PROVE  Fit(d, k, x) /\ Kept(k, b, x) /\ Ahead(k, b, e, u, v, x)
<1>. DEFINE g == [b.unmet EXCEPT ![e] = @ + u]
            h == [b.red EXCEPT ![e] = @ + v]
<1>1. /\ b \in Books /\ e \in Critics /\ Members(k) \subseteq Critics
      /\ b.unmet \in [Critics -> Int] /\ b.red \in [Critics -> Int]
  BY DEF Fit, Framed, Books
<1>2. /\ g \in [Critics -> Int] /\ h \in [Critics -> Int]
      /\ \A f \in Critics : /\ g[f] = b.unmet[f] + (IF f = e THEN u ELSE 0)
                            /\ h[f] = b.red[f] + (IF f = e THEN v ELSE 0)
  BY <1>1
<1>3. x = [b EXCEPT !.unmet = g, !.red = h]
  BY <1>1 DEF Books, Shifted
<1>. HIDE DEF g, h
<1>4. x \in Books
  BY <1>1, <1>2, <1>3 DEF Books
<1>5. /\ x.run = b.run /\ x.worker = b.worker /\ x.served = b.served /\ x.request = b.request
      /\ x.member = b.member /\ x.counts = b.counts /\ x.unmet = g /\ x.red = h
  BY <1>1, <1>3 DEF Books
<1>6. \A f \in Critics : SaneAt(k, x, f) /\ Witnessed(d, x, f)
  BY <1>5 DEF Fit, SaneAt, Witnessed
<1>7. \A n \in Buckets : OffCount(k, x, n) = OffCount(k, b, n)
  BY <1>5 DEF OffCount
<1>8. Kept(k, b, x)
  BY <1>4, <1>5, <1>6, <1>7 DEF Kept
<1>9. ASSUME NEW f \in Members(k)
      PROVE  /\ Off(k, x, f) = Off(k, b, f) + (IF f = e THEN u ELSE 0)
             /\ OffRed(k, x, f) = OffRed(k, b, f) + (IF f = e THEN v ELSE 0)
  <2>. DEFINE A == Cardinality({z \in Gating(k, f) : b.member[z].state # "GREEN"})
              B == Cardinality({z \in Gating(k, f) : Red(b.member[z].state)})
  <2>1. /\ Off(k, b, f) = b.unmet[f] - A /\ Off(k, x, f) = g[f] - A
        /\ OffRed(k, b, f) = b.red[f] - B /\ OffRed(k, x, f) = h[f] - B
    BY <1>5 DEF Off, OffRed
  <2>2. Off(k, b, f) \in Int /\ OffRed(k, b, f) \in Int
    BY <1>1, OffInt
  <2>3. A \in Int /\ B \in Int
    <3>1. IsFiniteSet(Critics) /\ Gating(k, f) \subseteq Critics
      BY QueryAssumption DEF Framed
    <3>2. IsFiniteSet({z \in Gating(k, f) : b.member[z].state # "GREEN"})
      BY <3>1, FS_Subset
    <3>3. IsFiniteSet({z \in Gating(k, f) : Red(b.member[z].state)})
      BY <3>1, FS_Subset
    <3>. QED BY <3>2, <3>3, FS_CardinalityType
  <2>4. b.unmet[f] \in Int /\ b.red[f] \in Int /\ f \in Critics
    BY <1>1
  <2>. HIDE DEF A, B
  <2>. QED BY <1>2, <2>1, <2>3, <2>4
<1>10. Fit(d, k, x)
  BY <1>4, <1>6 DEF Fit
<1>. QED BY <1>5, <1>8, <1>9, <1>10 DEF Ahead

LEMMA ShiftedIs ==
  ASSUME NEW b \in Books, NEW e \in Critics, NEW u \in Int, NEW v \in Int, NEW x, x = Shifted(b, e, u, v)
  PROVE  /\ x.member = b.member /\ x.request = b.request
         /\ \A f \in Critics : x.unmet[f] = b.unmet[f] + (IF f = e THEN u ELSE 0)
<1>1. b.unmet \in [Critics -> Int]
  BY DEF Books
<1>2. x.member = b.member /\ x.request = b.request /\ x.unmet = [b.unmet EXCEPT ![e] = @ + u]
  BY DEF Shifted, Books
<1>. QED BY <1>1, <1>2

\* A member of which fewer are unmet than before shows its result, or still waits.
LEMMA RegatedShows ==
  ASSUME NEW d \in Stores, NEW k \in Runs, NEW b \in Books, NEW x \in Books, NEW c \in Critics,
         x.member = b.member, x.request = b.request, x.unmet[c] <= b.unmet[c],
         SaneAt(k, b, c), Witnessed(d, b, c), Showing(b, c), Keeps(d[k], b),
         b.member[c].evidence \in {None, <<k, c>>}
  PROVE  Showing(Regated(d, k, x, c), c)
<1>. DEFINE m == b.member[c]
            y == Regated(d, k, x, c)
            t == b.request[c]
<1>1. y = IF m.state \notin Waiting \/ (x.unmet[c] > 0 /\ m.state = GateState(x, c)) THEN x
          ELSE IF x.unmet[c] > 0 THEN GateMember(x, k, c, GateState(x, c))
          ELSE IF m.evidence # None THEN GateMember(x, k, c, Verdict(d, m.evidence))
          ELSE IF m.request # None THEN GateMember(x, k, c, "QUEUED")
          ELSE IF c \in plan[k].included THEN SetMember(Once(Created(x, c)), k, c) ELSE x
  BY DEF Regated
<1>2. /\ m.request \in {None, <<k, c>>} /\ None # <<k, c>>
      /\ m.request = None <=> t = "absent"
      /\ m.request # None => (m.evidence # None <=> t \in Verdicts)
      /\ b.unmet[c] \in Int /\ x.unmet[c] \in Int /\ t \in States
  BY NoRequest DEF SaneAt, Requests, Books
<1>3. /\ t \in {"QUEUED", "RUNNING"} => b.unmet[c] <= 0
      /\ m.state = "GREEN" <=> t = "GREEN" /\ b.unmet[c] <= 0
      /\ t = "GREEN" /\ b.unmet[c] > 0 => m.state \in Waiting
  BY DEF Showing
<1>4. m.evidence # None => Verdict(d, m.evidence) \in Verdicts /\ Verdict(d, m.evidence) = t
  <2>. SUFFICES ASSUME m.evidence # None PROVE Verdict(d, m.evidence) \in Verdicts /\ Verdict(d, m.evidence) = t
    OBVIOUS
  <2>1. Verdict(d, m.evidence) \in Verdicts /\ m.evidence = <<k, c>>
    BY DEF Witnessed
  <2>2. Verdict(d, m.evidence) = d[k].request[c]
    BY <2>1 DEF Verdict, Home, Of
  <2>. QED BY <2>1, <2>2 DEF Keeps
<1>5. ASSUME NEW s \in States, y = GateMember(x, k, c, s)
      PROVE  /\ y.unmet[c] = x.unmet[c] /\ y.member[c].state = s
             /\ y.request[c] = IF m.request = <<k, c>> /\ t \notin Verdicts THEN s ELSE t
  <2>. HIDE DEF y
  <2>1. /\ Touch(x, y, c)
        /\ y.request[c] = IF x.member[c].request = <<k, c>> /\ x.request[c] \notin Verdicts THEN s ELSE x.request[c]
        /\ y.member[c] = [state |-> s, request |-> x.member[c].request, evidence |-> x.member[c].evidence]
    BY <1>5, GateMemberFacts
  <2>2. y.member[c].state = s
    BY <2>1
  <2>. QED BY <2>1, <2>2 DEF Touch
<1>. HIDE DEF m, y, t
<1>6. "GREEN" \in Verdicts /\ "GREEN" \notin Waiting /\ "GREEN" # "absent"
  BY Words DEF Verdicts
<1>7. ASSUME y = x, m.state \notin Waiting \/ x.unmet[c] > 0 \/ t \notin {"QUEUED", "RUNNING", "GREEN"} PROVE Showing(y, c)
  <2>1. y.unmet[c] = x.unmet[c] /\ y.request[c] = t /\ y.member[c].state = m.state
    BY <1>7 DEF t, m
  <2>2. t \in {"QUEUED", "RUNNING"} => x.unmet[c] <= 0
    BY <1>2, <1>3
  <2>3. CASE m.state \notin Waiting
    BY <2>1, <2>2, <2>3, <1>2, <1>3 DEF Showing
  <2>4. CASE m.state \in Waiting /\ x.unmet[c] > 0
    BY <2>1, <2>2, <2>4, <1>2, <1>3, <1>6 DEF Showing
  <2>5. CASE m.state \in Waiting /\ t \notin {"QUEUED", "RUNNING", "GREEN"}
    BY <2>1, <2>5, <1>6 DEF Showing
  <2>. QED BY <1>7, <2>3, <2>4, <2>5
<1>8. ASSUME m.state \in Waiting, x.unmet[c] > 0, y = GateMember(x, k, c, GateState(x, c)) PROVE Showing(y, c)
  <2>1. GateState(x, c) \in Waiting /\ GateState(x, c) \in States
    BY GateStateIs
  <2>2. /\ y.unmet[c] = x.unmet[c] /\ y.member[c].state \in Waiting
        /\ y.request[c] \in Waiting \/ y.request[c] = t
    BY <1>5, <1>8, <2>1
  <2>3. t \notin {"QUEUED", "RUNNING"}
    BY <1>2, <1>3, <1>8
  <2>. QED BY <1>2, <1>6, <1>8, <2>2, <2>3, Words DEF Showing
<1>9. ASSUME ~(x.unmet[c] > 0), m.evidence # None, y = GateMember(x, k, c, Verdict(d, m.evidence)) PROVE Showing(y, c)
  <2>1. t \in Verdicts /\ t \in States /\ y = GateMember(x, k, c, t)
    BY <1>2, <1>4, <1>9
  <2>2. y.unmet[c] = x.unmet[c] /\ y.member[c].state = t /\ y.request[c] = t
    BY <1>5, <2>1
  <2>3. t \notin {"QUEUED", "RUNNING"} /\ y.unmet[c] <= 0 /\ ~(y.unmet[c] > 0)
    BY <2>1, <2>2, <1>2, <1>9, Words
  <2>. QED BY <2>2, <2>3 DEF Showing
<1>10. ASSUME ~(x.unmet[c] > 0), m.evidence = None, m.request # None, y = GateMember(x, k, c, "QUEUED") PROVE Showing(y, c)
  <2>1. "QUEUED" \in States
    BY DEF States, Open
  <2>2. y.unmet[c] = x.unmet[c] /\ y.member[c].state = "QUEUED" /\ y.request[c] = "QUEUED"
    BY <1>2, <1>5, <1>10, <2>1
  <2>. QED BY <2>2, <1>2, <1>10 DEF Showing
<1>11. ASSUME ~(x.unmet[c] > 0), y = SetMember(Created(x, c), k, c) PROVE Showing(y, c)
  <2>. DEFINE z == Created(x, c)
              s == Effective(z, k, c, <<k, c>>, z.request[c])
  <2>1. Touch(x, z, c) /\ z.request[c] = "QUEUED"
    BY <1>11, CreatedFacts
  <2>2. y = SetMember(z, k, c)
    BY <1>11
  <2>. HIDE DEF z
  <2>3. z \in Books /\ z.unmet = x.unmet
    BY <2>1 DEF Touch
  <2>4. s = "QUEUED"
    BY <1>11, <2>1, <2>3 DEF Effective
  <2>5. /\ Touch(z, y, c) /\ y.request = z.request
        /\ y.member[c] = [state |-> s, request |-> <<k, c>>,
                          evidence |-> IF z.request[c] \in Verdicts THEN <<k, c>> ELSE None]
    BY <2>2, <2>3, SetMemberFacts
  <2>. HIDE DEF s
  <2>6. y.unmet[c] = x.unmet[c] /\ y.member[c].state = "QUEUED" /\ y.request[c] = "QUEUED"
    BY <2>1, <2>3, <2>4, <2>5 DEF Touch
  <2>. QED BY <2>6, <1>2, <1>11 DEF Showing
<1>12. ASSUME y = x, m.evidence = None, m.request = None PROVE Showing(y, c)
  <2>1. t = "absent" /\ t \notin {"QUEUED", "RUNNING", "GREEN"}
    BY <1>2, <1>12
  <2>. QED BY <2>1, <1>7, <1>12
<1>13. Once(Created(x, c)) = Created(x, c)
  BY OnceIs
<1>14. Showing(y, c)
  <2>1. CASE m.state \notin Waiting
    BY <2>1, <1>1, <1>7
  <2>2. CASE m.state \in Waiting /\ x.unmet[c] > 0
    BY <2>2, <1>1, <1>7, <1>8
  <2>3. CASE m.state \in Waiting /\ ~(x.unmet[c] > 0) /\ m.evidence # None
    BY <2>3, <1>1, <1>9
  <2>4. CASE m.state \in Waiting /\ ~(x.unmet[c] > 0) /\ m.evidence = None /\ m.request # None
    BY <2>4, <1>1, <1>10
  <2>5. CASE m.state \in Waiting /\ ~(x.unmet[c] > 0) /\ m.evidence = None /\ m.request = None
    BY <2>5, <1>1, <1>11, <1>12, <1>13
  <2>. QED BY <2>1, <2>2, <2>3, <2>4, <2>5
<1>. QED BY <1>14 DEF y

\* By that nobody else shows anything else.
LEMMA RegatedTidy ==
  ASSUME NEW d \in Stores, NEW k \in Runs, Framed(k), NEW b, Fit(d, k, b), Tidy(d, k, b),
         NEW c \in Members(k), NEW u \in Int, NEW v \in Int, u <= 0
  PROVE  Tidy(d, k, Regated(d, k, Shifted(b, c, u, v), c))
<1>. DEFINE x == Shifted(b, c, u, v)
            y == Regated(d, k, x, c)
<1>1. b \in Books /\ c \in Critics /\ Members(k) \subseteq Critics
  BY DEF Fit, Framed
<1>2. /\ x.member = b.member /\ x.request = b.request
      /\ \A f \in Critics : x.unmet[f] = b.unmet[f] + (IF f = c THEN u ELSE 0)
  BY <1>1, ShiftedIs
<1>3. Fit(d, k, x) /\ Kept(k, b, x)
  BY MovedCounters
<1>. HIDE DEF x
<1>4. Touch(x, y, c) /\ Kept(k, x, y) /\ x \in Books
  BY <1>3, RegatedKept DEF Fit
<1>5. \A f \in Critics : b.unmet[f] \in Int
  BY <1>1 DEF Books
<1>6. Showing(y, c)
  <2>1. x.unmet[c] <= b.unmet[c]
    BY <1>1, <1>2, <1>5
  <2>2. /\ SaneAt(k, b, c) /\ Witnessed(d, b, c) /\ Showing(b, c) /\ Keeps(d[k], b)
        /\ b.member[c].evidence \in {None, <<k, c>>}
    BY <1>1 DEF Fit, Tidy, Plain
  <2>. HIDE DEF y
  <2>. QED BY <1>1, <1>2, <1>4, <2>1, <2>2, RegatedShows DEF y
<1>. HIDE DEF y
<1>7. ASSUME NEW f \in Members(k), f # c PROVE Showing(y, f)
  <2>1. y.unmet[f] = b.unmet[f] /\ y.member[f] = b.member[f] /\ y.request[f] = b.request[f]
    BY <1>1, <1>2, <1>4, <1>5, <1>7 DEF Touch
  <2>. QED BY <2>1 DEF Tidy, Showing
<1>8. Keeps(d[k], y) /\ Plain(k, y)
  BY <1>1, <1>3, <1>4 DEF Tidy, Keeps, Plain, Kept
<1>9. Tidy(d, k, y)
  BY <1>6, <1>7, <1>8 DEF Tidy
<1>. QED BY <1>9 DEF x, y

-----------------------------------------------------------------------------
\* What a member was and is, and whom it is to tell.
News == Books \X Critics \X States \X States

\* That tell gets it right for the dependents of e.
Right(tell, d, k, e) ==
  \A x \in Books, p, q \in States : Fit(d, k, x) => Cascade(d, k, x, e, p, q, tell[<<x, e, p, q>>])

\* A dependent is told, and tells its own.
LEMMA ToldFacts ==
  ASSUME NEW d \in Stores, NEW k \in Runs, Framed(k), NEW b, Fit(d, k, b), NEW e \in Members(k),
         NEW was \in States, NEW next \in States, NEW tell, Right(tell, d, k, e)
  PROVE  LET r == Told(tell, d, k, b, e, was, next)
         IN  /\ Kept(k, b, r)
             /\ Calm(was, next) /\ Tidy(d, k, b) => Tidy(d, k, r)
             /\ \A f \in Members(k) :
                  /\ Off(k, r, f) = Off(k, b, f) + (IF f = e THEN Undone(was, next) ELSE 0)
                  /\ OffRed(k, r, f) >= OffRed(k, b, f) + (IF f = e THEN Reddened(was, next) ELSE 0)
<1>. DEFINE u == Undone(was, next)
            v == Reddened(was, next)
            x == Shifted(b, e, u, v)
            y == Regated(d, k, x, e)
            r == Told(tell, d, k, b, e, was, next)
            p == x.member[e].state
            q == y.member[e].state
<1>1. u \in Int /\ v \in Int /\ b \in Books /\ (Calm(was, next) => u <= 0)
  BY BitIs DEF Undone, Reddened, Fit, Calm, Bit
<1>2. x = [b EXCEPT !.unmet[e] = @ + Bit(next # "GREEN") - Bit(was # "GREEN"),
                    !.red[e] = @ + Bit(Red(next)) - Bit(Red(was))]
  <2>1. e \in Critics /\ b.unmet[e] \in Int /\ b.red[e] \in Int
    BY <1>1 DEF Framed, Books
  <2>2. /\ b.unmet[e] + u = b.unmet[e] + Bit(next # "GREEN") - Bit(was # "GREEN")
        /\ b.red[e] + v = b.red[e] + Bit(Red(next)) - Bit(Red(was))
    BY <2>1, BitIs DEF Undone, Reddened
  <2>. HIDE DEF u, v
  <2>. QED BY <2>2 DEF Shifted
<1>3. r = IF q \in {b.member[e].state, "QUEUED"} THEN y ELSE tell[<<y, e, b.member[e].state, q>>]
  BY <1>2, OnceIs DEF Told
<1>. HIDE DEF u, v
<1>4. /\ Fit(d, k, x) /\ Kept(k, b, x)
      /\ x.member = b.member
      /\ \A f \in Members(k) :
           /\ Off(k, x, f) = Off(k, b, f) + (IF f = e THEN u ELSE 0)
           /\ OffRed(k, x, f) = OffRed(k, b, f) + (IF f = e THEN v ELSE 0)
  <2>. HIDE DEF x
  <2>1. x = Shifted(b, e, u, v)
    BY DEF x
  <2>2. Fit(d, k, b) /\ Framed(k)
    OBVIOUS
  <2>3. u \in Int /\ v \in Int
    BY <1>1
  <2>. HIDE DEF u, v
  <2>4. Fit(d, k, x) /\ Kept(k, b, x) /\ Ahead(k, b, e, u, v, x)
    BY <2>1, <2>2, <2>3, MovedCounters
  <2>. QED BY <2>4 DEF Ahead
<1>5. Calm(was, next) /\ Tidy(d, k, b) => Tidy(d, k, y)
  <2>. HIDE DEF u, v
  <2>. QED BY <1>1, RegatedTidy
<1>. HIDE DEF x
<1>6. Touch(x, y, e) /\ Kept(k, x, y) /\ (q # p => p \in Waiting)
  BY <1>4, RegatedKept
<1>. HIDE DEF y
<1>7. x \in Books /\ y \in Books /\ Fit(d, k, y) /\ Kept(k, b, y)
  <2>1. Fit(d, k, y)
    BY <1>4, <1>6, KeptFit
  <2>. QED BY <1>4, <1>6, <2>1, KeptTrans DEF Fit
<1>8. \A f \in Members(k) :
        /\ Off(k, y, f) = Off(k, x, f) - (IF e \in Gating(k, f) THEN Undone(p, q) ELSE 0)
        /\ OffRed(k, y, f) = OffRed(k, x, f) - (IF e \in Gating(k, f) THEN Reddened(p, q) ELSE 0)
  BY <1>6, <1>7, TouchOff
<1>9. p \in States /\ q \in States /\ p = b.member[e].state /\ e \in Critics
  BY <1>4, <1>7 DEF Books, Framed
<1>10. /\ Undone(p, q) \in Int /\ Reddened(p, q) \in Int
      /\ \A f \in Members(k) : /\ Off(k, b, f) \in Int /\ OffRed(k, b, f) \in Int
                               /\ Off(k, x, f) \in Int /\ OffRed(k, x, f) \in Int
                               /\ Off(k, y, f) \in Int /\ OffRed(k, y, f) \in Int
  <2>1. Undone(p, q) \in Int /\ Reddened(p, q) \in Int
    BY BitIs DEF Undone, Reddened
  <2>. QED BY <2>1, <1>1, <1>7, OffInt
<1>. HIDE DEF r, p, q
<1>11. CASE q = p
  <2>1. r = y /\ Undone(p, q) = 0 /\ Reddened(p, q) = 0
    BY <1>3, <1>9, <1>11, BitIs DEF Undone, Reddened
  <2>2. \A f \in Members(k) :
          /\ Off(k, r, f) = Off(k, b, f) + (IF f = e THEN u ELSE 0)
          /\ OffRed(k, r, f) = OffRed(k, b, f) + (IF f = e THEN v ELSE 0)
    BY <2>1, <1>4, <1>8, <1>10
  <2>. QED BY <1>1, <1>5, <1>7, <1>10, <2>1, <2>2 DEF r, u, v
<1>12. CASE q # p /\ q = "QUEUED"
  <2>1. r = y /\ Undone(p, q) = 0 /\ Reddened(p, q) <= 0
    <3>1. r = y
      BY <1>3, <1>12
    <3>2. p # "GREEN" /\ ~Red(q)
      BY <1>6, <1>12 DEF Waiting, Red
    <3>3. Undone(p, q) = 0
      BY <1>12, <3>2 DEF Undone, Bit
    <3>. QED BY <3>1, <3>2, <3>3 DEF Reddened, Bit
  <2>2. \A f \in Members(k) :
          /\ Off(k, r, f) = Off(k, b, f) + (IF f = e THEN u ELSE 0)
          /\ OffRed(k, r, f) >= OffRed(k, b, f) + (IF f = e THEN v ELSE 0)
    BY <2>1, <1>1, <1>4, <1>8, <1>10
  <2>. QED BY <1>5, <1>7, <2>1, <2>2 DEF r, u, v
<1>13. CASE q # p /\ q # "QUEUED"
  <2>1. r = tell[<<y, e, p, q>>]
    BY <1>3, <1>9, <1>13
  <2>2. Cascade(d, k, y, e, p, q, r) /\ Calm(p, q)
    <3>1. p # "GREEN"
      BY <1>6, <1>13, Words DEF Verdicts
    <3>. QED BY <2>1, <3>1, <1>7, <1>9 DEF Right, Calm
  <2>3. Kept(k, b, r) /\ r \in Books
    BY <1>7, <2>2, KeptTrans DEF Cascade, Kept
  <2>4. \A f \in Members(k) : Off(k, r, f) \in Int /\ OffRed(k, r, f) \in Int
    BY <2>3, OffInt
  <2>5. ASSUME NEW f \in Members(k)
        PROVE  /\ Off(k, r, f) = Off(k, b, f) + (IF f = e THEN u ELSE 0)
               /\ OffRed(k, r, f) >= OffRed(k, b, f) + (IF f = e THEN v ELSE 0)
    <3>1. /\ Off(k, r, f) = Off(k, y, f) + (IF e \in Gating(k, f) THEN Undone(p, q) ELSE 0)
          /\ OffRed(k, r, f) >= OffRed(k, y, f) + (IF e \in Gating(k, f) THEN Reddened(p, q) ELSE 0)
      BY <2>2 DEF Cascade
    <3>2. Off(k, r, f) = Off(k, x, f) /\ OffRed(k, r, f) >= OffRed(k, x, f)
      BY <3>1, <2>4, <1>8, <1>10
    <3>. QED BY <3>2, <1>1, <2>4, <1>4, <1>10
  <2>6. Calm(was, next) /\ Tidy(d, k, b) => Tidy(d, k, r)
    BY <1>5, <2>2 DEF Cascade
  <2>. QED BY <2>3, <2>5, <2>6 DEF r, u, v
<1>. QED BY <1>11, <1>12, <1>13

\* What is told remains a book, whatever is in it.
LEMMA ToldTypes ==
  ASSUME NEW d \in Stores, NEW k \in Runs, NEW b \in Books, NEW e \in Critics,
         NEW was \in States, NEW next \in States, NEW tell \in [News -> Books]
  PROVE  Told(tell, d, k, b, e, was, next) \in Books
<1>. DEFINE x == [b EXCEPT !.unmet[e] = @ + Bit(next # "GREEN") - Bit(was # "GREEN"),
                           !.red[e] = @ + Bit(Red(next)) - Bit(Red(was))]
            y == Regated(d, k, x, e)
            g == [b.unmet EXCEPT ![e] = @ + Bit(next # "GREEN") - Bit(was # "GREEN")]
            h == [b.red EXCEPT ![e] = @ + Bit(Red(next)) - Bit(Red(was))]
<1>1. g \in [Critics -> Int] /\ h \in [Critics -> Int]
  <2>1. b.unmet \in [Critics -> Int] /\ b.red \in [Critics -> Int]
    BY DEF Books
  <2>2. /\ b.unmet[e] + Bit(next # "GREEN") - Bit(was # "GREEN") \in Int
        /\ b.red[e] + Bit(Red(next)) - Bit(Red(was)) \in Int
    BY <2>1, BitIs
  <2>. QED BY <2>1, <2>2
<1>2. x = [b EXCEPT !.unmet = g, !.red = h]
  BY DEF Books
<1>. HIDE DEF g, h
<1>3. x \in Books
  BY <1>1, <1>2 DEF Books
<1>4. Told(tell, d, k, b, e, was, next) =
        IF y.member[e].state \in {b.member[e].state, "QUEUED"} THEN y
        ELSE tell[<<y, e, b.member[e].state, y.member[e].state>>]
  BY OnceIs DEF Told
<1>. HIDE DEF x
<1>5. y \in Books
  BY <1>3, RegatedTouches DEF Touch
<1>. HIDE DEF y
<1>6. b.member[e].state \in States /\ y.member[e].state \in States
  BY <1>5 DEF Books
<1>7. <<y, e, b.member[e].state, y.member[e].state>> \in News
  BY <1>5, <1>6 DEF News
<1>. HIDE DEF News
<1>8. tell[<<y, e, b.member[e].state, y.member[e].state>>] \in Books
  BY <1>7
<1>. QED BY <1>4, <1>5, <1>8

\* Those in done have been told.
Partly(k, b, done, u, v, x) ==
  /\ Kept(k, b, x)
  /\ \A f \in Members(k) :
       /\ Off(k, x, f) = Off(k, b, f) + (IF f \in done THEN u ELSE 0)
       /\ OffRed(k, x, f) >= OffRed(k, b, f) + (IF f \in done THEN v ELSE 0)

\* One more is told.
LEMMA ToldPartly ==
  ASSUME NEW d \in Stores, NEW k \in Runs, Framed(k), NEW b, Fit(d, k, b), NEW e \in Members(k),
         NEW was \in States, NEW next \in States, NEW tell, Right(tell, d, k, e),
         NEW done, e \notin done,
         NEW x \in Books, Partly(k, b, done, Undone(was, next), Reddened(was, next), x)
  PROVE  Partly(k, b, done \cup {e}, Undone(was, next), Reddened(was, next),
                Told(tell, d, k, x, e, was, next))
<1>. DEFINE u == Undone(was, next)
            v == Reddened(was, next)
            r == Told(tell, d, k, x, e, was, next)
<1>1. u \in Int /\ v \in Int /\ b \in Books
  BY BitIs DEF Undone, Reddened, Fit
<1>2. Kept(k, b, x) /\ Fit(d, k, x)
  BY KeptFit DEF Partly
<1>3. /\ Kept(k, x, r)
      /\ \A f \in Members(k) :
           /\ Off(k, r, f) = Off(k, x, f) + (IF f = e THEN u ELSE 0)
           /\ OffRed(k, r, f) >= OffRed(k, x, f) + (IF f = e THEN v ELSE 0)
  BY <1>2, ToldFacts
<1>. HIDE DEF r
<1>4. \A f \in Members(k) :
        /\ Off(k, x, f) = Off(k, b, f) + (IF f \in done THEN u ELSE 0)
        /\ OffRed(k, x, f) >= OffRed(k, b, f) + (IF f \in done THEN v ELSE 0)
  BY DEF Partly
<1>. HIDE DEF u, v
<1>5. Kept(k, b, r) /\ r \in Books
  BY <1>2, <1>3, KeptTrans DEF Kept
<1>6. \A f \in Members(k) : /\ Off(k, b, f) \in Int /\ OffRed(k, b, f) \in Int
                            /\ Off(k, x, f) \in Int /\ OffRed(k, x, f) \in Int
                            /\ Off(k, r, f) \in Int /\ OffRed(k, r, f) \in Int
  BY <1>1, <1>5, OffInt
<1>7. ASSUME NEW f \in Members(k)
      PROVE  /\ Off(k, r, f) = Off(k, b, f) + (IF f \in done \cup {e} THEN u ELSE 0)
             /\ OffRed(k, r, f) >= OffRed(k, b, f) + (IF f \in done \cup {e} THEN v ELSE 0)
  <2>1. CASE f = e
    BY <1>1, <1>3, <1>4, <1>6, <2>1
  <2>2. CASE f # e
    BY <1>1, <1>3, <1>4, <1>6, <2>2
  <2>. QED BY <2>1, <2>2
<1>8. Partly(k, b, done \cup {e}, u, v, r)
  BY <1>5, <1>7 DEF Partly
<1>. QED BY <1>8 DEF u, v, r

\* All dependents are told, whatever the book is like.
LEMMA AllToldTypes ==
  ASSUME NEW d \in Stores, NEW k \in Runs, Framed(k), NEW b \in Books, NEW c \in Critics,
         NEW was \in States, NEW next \in States, NEW tell \in [News -> Books]
  PROVE  AllTold(tell, d, k, b, c, was, next) \in Books
<1>. DEFINE D == Dependents(k, c)
            order == SetToSeq(D)
            steps == [n \in DOMAIN order |-> [x \in Books |-> Told(tell, d, k, x, order[n], was, next)]]
<1>1. D \subseteq Critics /\ IsFiniteSet(D)
  BY QueryAssumption, FS_Subset DEF Dependents, Framed
<1>. HIDE DEF D
<1>2. PICK N \in Nat : order \in [1..N -> D] /\ Len(order) = N
  BY <1>1, Listed
<1>3. AllTold(tell, d, k, b, c, was, next) = Folded(steps, b)
  BY DEF AllTold, D
<1>. HIDE DEF order
<1>4. \A n \in 1..N : steps[n] \in [Books -> Books]
  BY <1>1, <1>2, ToldTypes
<1>5. Len(steps) = N
  BY <1>2
<1>. HIDE DEF steps
<1>6. \A n \in 1..N, y \in Books : steps[n][y] \in Books
  BY <1>4
<1>. DEFINE P == Nat \X Books
<1>7. /\ <<0, b>> \in P /\ P \in SUBSET (Nat \X Books)
      /\ \A n \in 1..N, y \in Books : <<n - 1, y>> \in P => <<n, steps[n][y]>> \in P
  BY <1>6
<1>. HIDE DEF P
<1>8. <<N, Folded(steps, b)>> \in P
  BY <1>4, <1>5, <1>7, FoldFacts
<1>. QED BY <1>3, <1>8 DEF P

\* If every dependent tells its own correctly, the cascade is right.
LEMMA AllToldFacts ==
  ASSUME NEW d \in Stores, NEW k \in Runs, Framed(k), NEW b, Fit(d, k, b), NEW c \in Critics,
         NEW was \in States, NEW next \in States, NEW tell \in [News -> Books],
         \A e \in Dependents(k, c) : Right(tell, d, k, e)
  PROVE  Cascade(d, k, b, c, was, next, AllTold(tell, d, k, b, c, was, next))
<1>. DEFINE D == Dependents(k, c)
            order == SetToSeq(D)
            steps == [n \in DOMAIN order |-> [x \in Books |-> Told(tell, d, k, x, order[n], was, next)]]
            u == Undone(was, next)
            v == Reddened(was, next)
            First(n) == {order[i] : i \in 1..n}
            StillTidy(x) == Calm(was, next) /\ Tidy(d, k, b) => Tidy(d, k, x)
            P == {p \in Nat \X Books : Partly(k, b, First(p[1]), u, v, p[2]) /\ StillTidy(p[2])}
            r == Folded(steps, b)
<1>1. /\ D \subseteq Members(k) /\ D \subseteq Critics /\ IsFiniteSet(D) /\ b \in Books
      /\ \A e \in D : Right(tell, d, k, e)
      /\ \A f \in Members(k) : f \in D <=> c \in Gating(k, f)
  BY QueryAssumption, FS_Subset DEF Dependents, Framed, Fit
<1>. HIDE DEF D
<1>2. PICK N \in Nat : /\ order \in [1..N -> D] /\ Len(order) = N
                       /\ \A x \in D : \E n \in 1..N : order[n] = x
                       /\ \A m, n \in 1..N : order[m] = order[n] => m = n
  BY <1>1, Listed
<1>3. AllTold(tell, d, k, b, c, was, next) = r
  BY DEF AllTold, D
<1>. HIDE DEF order
<1>4. \A n \in 1..N : steps[n] \in [Books -> Books] /\ \A y \in Books : steps[n][y] = Told(tell, d, k, y, order[n], was, next)
  BY <1>1, <1>2, ToldTypes
<1>5. Len(steps) = N
  BY <1>2
<1>. HIDE DEF steps
<1>6. u \in Int /\ v \in Int
  BY BitIs DEF Undone, Reddened
<1>7. <<0, b>> \in P
  <2>1. First(0) = {}
    OBVIOUS
  <2>2. Kept(k, b, b)
    BY FitKept
  <2>. HIDE DEF u, v
  <2>3. \A f \in Members(k) : Off(k, b, f) + 0 = Off(k, b, f) /\ OffRed(k, b, f) >= OffRed(k, b, f) + 0
    BY <1>1, OffInt
  <2>4. Partly(k, b, {}, u, v, b)
    BY <2>2, <2>3 DEF Partly
  <2>. QED BY <1>1, <2>1, <2>4
<1>8. ASSUME NEW n \in 1..N, NEW y \in Books, <<n - 1, y>> \in P
      PROVE  <<n, steps[n][y]>> \in P
  <2>. HIDE DEF First, u, v
  <2>1. n - 1 \in Nat /\ n \in Nat /\ Partly(k, b, First(n - 1), u, v, y) /\ StillTidy(y)
    BY <1>8
  <2>2. order[n] \in D /\ order[n] \notin First(n - 1) /\ First(n) = First(n - 1) \cup {order[n]}
    <3>1. order[n] \in D
      BY <1>2
    <3>2. \A i \in 1..(n - 1) : i \in 1..N /\ i # n
      OBVIOUS
    <3>3. order[n] \notin First(n - 1)
      BY <1>2, <3>2 DEF First
    <3>4. 1..n = 1..(n - 1) \cup {n}
      OBVIOUS
    <3>. QED BY <3>1, <3>3, <3>4 DEF First
  <2>3. Partly(k, b, First(n - 1) \cup {order[n]}, u, v, Told(tell, d, k, y, order[n], was, next))
    BY <2>1, <2>2, <1>1, ToldPartly DEF u, v
  <2>4. Partly(k, b, First(n), u, v, steps[n][y]) /\ steps[n][y] \in Books
    BY <2>2, <2>3, <1>4
  <2>5. StillTidy(steps[n][y])
    <3>1. Fit(d, k, y)
      BY <2>1, KeptFit DEF Partly
    <3>2. Calm(was, next) /\ Tidy(d, k, y) => Tidy(d, k, Told(tell, d, k, y, order[n], was, next))
      BY <3>1, <2>2, <1>1, ToldFacts
    <3>. QED BY <2>1, <3>2, <1>4
  <2>. QED BY <2>1, <2>4, <2>5
<1>9. <<N, r>> \in P
  <2>1. P \in SUBSET (Nat \X Books)
    OBVIOUS
  <2>. HIDE DEF P
  <2>. QED BY <2>1, <1>1, <1>4, <1>5, <1>7, <1>8, FoldFacts
<1>10. Partly(k, b, First(N), u, v, r) /\ StillTidy(r)
  BY <1>9
<1>11. First(N) = D
  BY <1>2
<1>. HIDE DEF First, u, v, r
<1>12. Cascade(d, k, b, c, was, next, r)
  BY <1>1, <1>10, <1>11 DEF Partly, Cascade, u, v
<1>. QED BY <1>3, <1>12

\* A cascade is right: its depth is bounded by the gates, because those who are told are
\* behind a later gate.
LEMMA PropagatedFacts ==
  ASSUME NEW d \in Stores, NEW k \in Runs, Framed(k), NEW b, Fit(d, k, b), NEW c \in Critics,
         NEW was \in States, NEW next \in States
  PROVE  Cascade(d, k, b, c, was, next, Propagated(d, k, b, c, was, next))
<1>. DEFINE S == [News -> Books]
            zero == [x \in News |-> x[1]]
            Again(t) == [x \in News |-> AllTold(t, d, k, x[1], x[2], x[3], x[4])]
            step == [n \in Nat |-> [t \in S |-> Again(t)]]
            Rec(h) == h = [n \in Nat |-> [x \in Books \X Critics \X States \X States |->
                             IF n = 0 THEN x[1] ELSE AllTold(h[n - 1], d, k, x[1], x[2], x[3], x[4])]]
            tell == CHOOSE h : Rec(h)
            N == Len(plan[k].gates)
<1>1. \A x \in News : x[1] \in Books /\ x[2] \in Critics /\ x[3] \in States /\ x[4] \in States
  BY DEF News
<1>2. zero \in S
  BY <1>1
<1>3. \A t \in S : Again(t) \in S
  <2>. SUFFICES ASSUME NEW t \in S, NEW x \in News
                PROVE  AllTold(t, d, k, x[1], x[2], x[3], x[4]) \in Books
    OBVIOUS
  <2>. QED BY <1>1, AllToldTypes
<1>. HIDE DEF Again
<1>4. step \in Steps(S)
  BY <1>3 DEF Steps
<1>5. PICK loop : loop \in [Nat -> S] /\ loop[0] = zero /\ \A n \in Nat : loop[n + 1] = step[n + 1][loop[n]]
  <2>. HIDE DEF step, S, zero
  <2>1. PICK loop : Iterated(loop, S, zero, step)
    BY <1>2, <1>4, Iterates, Zenon
  <2>. QED BY <2>1 DEF Iterated
<1>6. \A n \in Nat : loop[n] \in S /\ loop[n + 1] = Again(loop[n])
  <2>1. \A n \in Nat : loop[n] \in S /\ loop[n + 1] = step[n + 1][loop[n]] /\ n + 1 \in Nat
    <3>. HIDE DEF S, step, zero
    <3>. QED BY <1>5
  <2>2. \A n \in Nat, t \in S : step[n][t] = Again(t)
    OBVIOUS
  <2>. HIDE DEF S, step
  <2>. QED BY <2>1, <2>2
<1>7. Rec(loop)
  <2>1. ASSUME NEW n \in Nat
        PROVE  loop[n] = [x \in News |-> IF n = 0 THEN x[1] ELSE AllTold(loop[n - 1], d, k, x[1], x[2], x[3], x[4])]
    <3>1. CASE n = 0
      BY <3>1, <1>5
    <3>2. CASE n # 0
      <4>1. n - 1 \in Nat /\ (n - 1) + 1 = n
        BY <3>2
      <4>2. loop[n] = Again(loop[n - 1])
        BY <4>1, <1>6
      <4>. QED BY <4>2, <3>2 DEF Again
    <3>. QED BY <3>1, <3>2
  <2>2. loop = [n \in Nat |-> loop[n]]
    BY <1>5
  <2>. HIDE DEF S, zero, step
  <2>. QED BY <2>1, <2>2 DEF News
<1>8. Rec(tell)
  <2>. HIDE DEF Rec
  <2>. QED BY <1>7
<1>9. Propagated(d, k, b, c, was, next) = tell[N][<<b, c, was, next>>]
  BY DEF Propagated
<1>. HIDE DEF tell
<1>10. /\ tell[0] = zero
       /\ \A n \in Nat : tell[n + 1] = Again(tell[n])
  <2>1. \A n \in Nat : tell[n] = [x \in News |-> IF n = 0 THEN x[1] ELSE AllTold(tell[n - 1], d, k, x[1], x[2], x[3], x[4])]
    BY <1>8 DEF News
  <2>2. tell[0] = zero
    BY <2>1
  <2>3. ASSUME NEW n \in Nat PROVE tell[n + 1] = Again(tell[n])
    <3>1. n + 1 \in Nat /\ n + 1 # 0 /\ (n + 1) - 1 = n
      OBVIOUS
    <3>. QED BY <2>1, <3>1 DEF Again
  <2>. QED BY <2>2, <2>3
<1>. HIDE DEF zero, S
<1>11. PICK rank \in [Critics -> Nat] : \A e \in Members(k) :
         /\ rank[e] <= N
         /\ \A f \in Gating(k, e) : rank[f] < rank[e]
  BY DEF Framed
<1>. DEFINE T == {n \in Nat : tell[n] \in S /\ \A e \in Critics : rank[e] + n >= N => Right(tell[n], d, k, e)}
<1>12. Members(k) \subseteq Critics /\ N \in Nat
  BY DEF Framed
<1>. HIDE DEF N
<1>13. 0 \in T
  <2>. SUFFICES ASSUME NEW e \in Critics, rank[e] >= N, NEW x \in Books, Fit(d, k, x),
                       NEW p \in States, NEW q \in States
                PROVE  Cascade(d, k, x, e, p, q, zero[<<x, e, p, q>>])
    BY <1>2, <1>10, <1>11 DEF Right
  <2>1. zero[<<x, e, p, q>>] = x
    BY DEF zero, News
  <2>2. \A f \in Members(k) : e \notin Gating(k, f)
    BY <1>11, <1>12
  <2>3. Kept(k, x, x)
    BY FitKept
  <2>4. \A f \in Members(k) : Off(k, x, f) \in Int /\ OffRed(k, x, f) \in Int
    BY OffInt
  <2>. QED BY <2>1, <2>2, <2>3, <2>4 DEF Cascade
<1>14. ASSUME NEW n \in T PROVE n + 1 \in T
  <2>1. n \in Nat /\ n + 1 \in Nat /\ tell[n] \in S /\ tell[n + 1] = Again(tell[n])
    BY <1>10
  <2>2. tell[n + 1] \in S
    BY <2>1, <1>3
  <2>3. ASSUME NEW e \in Critics, rank[e] + (n + 1) >= N PROVE Right(tell[n + 1], d, k, e)
    <3>. SUFFICES ASSUME NEW x \in Books, Fit(d, k, x), NEW p \in States, NEW q \in States
                  PROVE  Cascade(d, k, x, e, p, q, tell[n + 1][<<x, e, p, q>>])
      BY DEF Right
    <3>1. tell[n + 1][<<x, e, p, q>>] = AllTold(tell[n], d, k, x, e, p, q)
      BY <2>1 DEF Again, News
    <3>2. ASSUME NEW g \in Dependents(k, e) PROVE Right(tell[n], d, k, g)
      <4>1. g \in Members(k) /\ e \in Gating(k, g) /\ g \in Critics
        BY <1>12 DEF Dependents
      <4>2. rank[e] < rank[g] /\ rank[e] \in Nat /\ rank[g] \in Nat
        BY <4>1, <1>11
      <4>3. rank[g] + n >= N
        BY <2>1, <2>3, <4>2, <1>12
      <4>. QED BY <4>1, <4>3
    <3>3. Cascade(d, k, x, e, p, q, AllTold(tell[n], d, k, x, e, p, q))
      BY <2>1, <3>2, AllToldFacts DEF S
    <3>. QED BY <3>1, <3>3
  <2>. QED BY <2>1, <2>2, <2>3
<1>15. T \in SUBSET Nat
  OBVIOUS
<1>16. T = Nat
  <2>. HIDE DEF T
  <2>. QED BY <1>13, <1>14, <1>15, NatSet
<1>17. Right(tell[N], d, k, c)
  <2>1. N \in T /\ rank[c] \in Nat
    BY <1>11, <1>12, <1>16
  <2>. QED BY <2>1, <1>12
<1>18. b \in Books
  BY DEF Fit
<1>. QED BY <1>9, <1>17, <1>18 DEF Right

-----------------------------------------------------------------------------
\* The counters of a Run are what its members say, but red may be too high.
Exact(k, b) ==
  /\ \A e \in Members(k) : Off(k, b, e) = 0 /\ OffRed(k, b, e) >= 0
  /\ \A n \in Buckets : OffCount(k, b, n) = IF n = "missing" THEN Cardinality(Unreviewed(k)) ELSE 0

\* A Run that is not decided has a member in the queue or running.
Work(k, b) == {e \in Members(k) : b.member[e].state \in {"QUEUED", "RUNNING"}}
Busy(k, b) == Live(b) => Work(k, b) # {}

\* The book of a Run between two transactions on the store d.
Settled(d, k, b) ==
  /\ Fit(d, k, b) /\ Busy(k, b) /\ Shows(k, b)
  /\ b.run = "absent" => b = NoBook
  /\ b.run # "absent" => Exact(k, b)
Good(d) == d \in Stores /\ \A k \in Runs : Settled(d, k, d[k])

\* A member is moved and those behind it are told: the counters are exact again.
LEMMA MovedFacts ==
  ASSUME NEW d \in Stores, NEW k \in Runs, Framed(k), NEW b \in Books, Exact(k, b), NEW c \in Members(k),
         NEW after, Touch(b, after, c), Fit(d, k, after)
  PROVE  LET r == Moved(d, k, b, after, c)
         IN  /\ Kept(k, after, r) /\ Exact(k, r)
             /\ Calm(b.member[c].state, after.member[c].state) /\ Tidy(d, k, after) => Tidy(d, k, r)
<1>. DEFINE r == Moved(d, k, b, after, c)
            p == b.member[c].state
            q == after.member[c].state
<1>1. c \in Critics /\ after \in Books /\ p \in States /\ q \in States
  BY DEF Framed, Fit, Books
<1>2. r = IF p = q THEN after ELSE Propagated(d, k, after, c, p, q)
  BY DEF Moved
<1>3. /\ \A e \in Members(k) :
           /\ Off(k, after, e) = Off(k, b, e) - (IF c \in Gating(k, e) THEN Undone(p, q) ELSE 0)
           /\ OffRed(k, after, e) = OffRed(k, b, e) - (IF c \in Gating(k, e) THEN Reddened(p, q) ELSE 0)
      /\ \A n \in Buckets : OffCount(k, after, n) = OffCount(k, b, n)
  BY TouchOff
<1>. HIDE DEF p, q, r
<1>4. Undone(p, q) \in Int /\ Reddened(p, q) \in Int /\ (p = q => Undone(p, q) = 0 /\ Reddened(p, q) = 0)
  BY BitIs DEF Undone, Reddened
<1>5. Cascade(d, k, after, c, p, q, r)
  <2>1. CASE p = q
    <3>1. r = after /\ Kept(k, after, r)
      BY <1>2, <2>1, FitKept
    <3>2. \A e \in Members(k) : Off(k, r, e) \in Int /\ OffRed(k, r, e) \in Int
      BY <1>1, <3>1, OffInt
    <3>. QED BY <3>1, <3>2, <1>4, <2>1 DEF Cascade
  <2>2. CASE p # q
    <3>1. Cascade(d, k, after, c, p, q, Propagated(d, k, after, c, p, q))
      BY <1>1, PropagatedFacts
    <3>. QED BY <3>1, <1>2, <2>2
  <2>. QED BY <2>1, <2>2
<1>6. Kept(k, after, r) /\ r \in Books
  BY <1>5 DEF Cascade, Kept
<1>7. \A e \in Members(k) :
        /\ Off(k, r, e) = Off(k, after, e) + (IF c \in Gating(k, e) THEN Undone(p, q) ELSE 0)
        /\ OffRed(k, r, e) >= OffRed(k, after, e) + (IF c \in Gating(k, e) THEN Reddened(p, q) ELSE 0)
  BY <1>5 DEF Cascade
<1>8. \A e \in Members(k) : /\ Off(k, b, e) \in Int /\ OffRed(k, b, e) \in Int
                            /\ Off(k, after, e) \in Int /\ OffRed(k, after, e) \in Int
                            /\ Off(k, r, e) \in Int /\ OffRed(k, r, e) \in Int
  BY <1>1, <1>6, OffInt
<1>9. \A e \in Members(k) : Off(k, r, e) = Off(k, b, e) /\ OffRed(k, r, e) >= OffRed(k, b, e)
  BY <1>3, <1>4, <1>7, <1>8
<1>10. \A n \in Buckets : OffCount(k, r, n) = OffCount(k, b, n)
  BY <1>3, <1>6 DEF Kept
<1>11. Exact(k, r)
  BY <1>8, <1>9, <1>10 DEF Exact
<1>12. Calm(p, q) /\ Tidy(d, k, after) => Tidy(d, k, r)
  BY <1>5 DEF Cascade
<1>. QED BY <1>6, <1>11, <1>12 DEF p, q, r

\* The status of a Run that its counters leave undecided comes from a member with work.
LEMMA RunUpdatedFacts ==
  ASSUME NEW k \in Runs, Framed(k), NEW b \in Books, Exact(k, b), b.run # "absent"
  PROVE  LET r == RunUpdated(b)
         IN  /\ r \in Books /\ r.run # "absent" /\ Exact(k, r) /\ Busy(k, r)
             /\ r.member = b.member /\ r.request = b.request /\ r.unmet = b.unmet
<1>. DEFINE r == RunUpdated(b)
            s == RunStatus(b.counts)
<1>1. s \in Final \cup {"QUEUED", "RUNNING"} /\ "absent" \notin Final \cup {"QUEUED", "RUNNING"}
  BY DEF RunStatus, Final, Verdicts
<1>2. CASE ~Live(b)
  <2>1. r = b
    BY <1>2 DEF RunUpdated
  <2>. QED BY <2>1, <1>2 DEF Busy
<1>3. CASE Live(b)
  <2>1. r = [b EXCEPT !.run = s]
    BY <1>3 DEF RunUpdated
  <2>. HIDE DEF s
  <2>2. r \in Books
    BY <1>1, <2>1 DEF Books
  <2>3. /\ r.run = s /\ r.member = b.member /\ r.request = b.request
        /\ r.unmet = b.unmet /\ r.red = b.red /\ r.counts = b.counts
    BY <2>1 DEF Books
  <2>. HIDE DEF r
  <2>4. Exact(k, r)
    BY <2>3 DEF Exact, Off, OffRed, OffCount
  <2>5. ASSUME Live(r) PROVE Work(k, r) # {}
    <3>1. b.counts["running"] > 0 \/ b.counts["queued"] > 0
      BY <2>3, <2>5 DEF s, RunStatus, Live, Final, Verdicts
    <3>2. PICK n \in {"running", "queued"} : b.counts[n] > 0
      BY <3>1
    <3>. DEFINE A == {f \in Members(k) : Bucket(b.member[f].state) = n}
    <3>3. OffCount(k, b, n) = 0 /\ OffCount(k, b, n) = b.counts[n] - Cardinality(A)
      BY <3>2 DEF Exact, OffCount, Buckets
    <3>4. A # {}
      <4>1. A = {} => Cardinality(A) = 0
        BY FS_EmptySet
      <4>2. b.counts[n] \in Int
        BY DEF Books, Buckets
      <4>. HIDE DEF A
      <4>. QED BY <3>2, <3>3, <4>1, <4>2
    <3>5. PICK f \in Members(k) : Bucket(b.member[f].state) = n
      BY <3>4
    <3>6. b.member[f].state \in {"QUEUED", "RUNNING"}
      BY <3>2, <3>5 DEF Bucket
    <3>. QED BY <3>6, <2>3 DEF Work
  <2>. QED BY <1>1, <2>2, <2>3, <2>4, <2>5 DEF Busy, r
<1>. QED BY <1>2, <1>3

\* If every book is settled and no verdict is lost, the store is good.
LEMMA SettledTogether ==
  ASSUME NEW d \in Stores, NEW e \in [Runs -> Books],
         \A j \in Runs : Settled(d, j, e[j]) /\ Keeps(d[j], e[j])
  PROVE  /\ Good(e)
         /\ \A q \in Requests : Verdict(d, q) \in Verdicts => Verdict(e, q) = Verdict(d, q)
<1>1. \A q \in Requests : Verdict(d, q) \in Verdicts => Verdict(e, q) = Verdict(d, q)
  BY DEF Keeps, Verdict, Requests, Home, Of
<1>2. ASSUME NEW j \in Runs, NEW c \in Critics PROVE Witnessed(e, e[j], c)
  <2>1. Witnessed(d, e[j], c) /\ e[j] \in Books
    BY DEF Settled, Fit
  <2>2. e[j].member[c].evidence \in {None} \cup Requests
    BY <2>1 DEF Books
  <2>. QED BY <1>1, <2>1, <2>2 DEF Witnessed
<1>3. \A j \in Runs : Settled(e, j, e[j])
  BY <1>2 DEF Settled, Fit
<1>. QED BY <1>1, <1>3 DEF Good, Stores

-----------------------------------------------------------------------------
\* What is shown depends on members, requests and their counters only.
LEMMA SameShows ==
  ASSUME NEW k, NEW b, NEW r, r.member = b.member, r.request = b.request, r.unmet = b.unmet, Shows(k, b)
  PROVE  Shows(k, r)
BY DEF Shows, Plain, Showing

\* A request may be in the queue, run or be GREEN only if its member is not held.
Admits(k, b, c, status) ==
  Plain(k, b) /\ status \in {"QUEUED", "RUNNING", "GREEN"} => b.unmet[c] <= 0

\* A request has been given such a status, and its member does not show it yet.
Due(k, b, c) ==
  /\ b.member[c].evidence = None /\ Admits(k, b, c, b.request[c])
  /\ Plain(k, b) => /\ \A e \in Members(k) : e # c => Showing(b, e)
                    /\ b.member[c].state # "GREEN"

\* The member shows it, and those behind it are told.
LEMMA DueFacts ==
  ASSUME NEW d \in Stores, NEW k \in Runs, Framed(k), NEW c \in Members(k), Exact(k, d[k]), Due(k, d[k], c),
         Fit(d, k, SetMember(d[k], k, c))
  PROVE  Shows(k, Moved(d, k, d[k], SetMember(d[k], k, c), c))
<1>. DEFINE b == d[k]
            after == SetMember(b, k, c)
            r == Moved(d, k, b, after, c)
            s == Effective(b, k, c, <<k, c>>, b.request[c])
<1>1. c \in Critics /\ b \in Books /\ Members(k) \subseteq Critics
  BY DEF Framed, Stores
<1>2. /\ Touch(b, after, c) /\ after.request = b.request
      /\ after.member[c] = [state |-> s, request |-> <<k, c>>,
                            evidence |-> IF b.request[c] \in Verdicts THEN <<k, c>> ELSE None]
  BY <1>1, SetMemberFacts
<1>3. s = IF c \in b.served /\ b.unmet[c] > 0 THEN GateState(b, c) ELSE b.request[c]
  BY DEF Effective, Home
<1>. HIDE DEF after, s, r
<1>4. after.member[c].state = s /\ after.member[c].evidence \in {None, <<k, c>>} /\ after.unmet = b.unmet
  BY <1>2 DEF Touch
<1>5. \A e \in Critics : e # c => after.member[e] = b.member[e]
  BY <1>2 DEF Touch
<1>6. Kept(k, after, r) /\ (Calm(b.member[c].state, after.member[c].state) /\ Tidy(d, k, after) => Tidy(d, k, r))
  <2>1. Fit(d, k, after)
    BY DEF after, b
  <2>2. Exact(k, b)
    BY DEF b
  <2>. HIDE DEF b
  <2>. QED BY <1>1, <1>2, <2>1, <2>2, MovedFacts DEF r
<1>7. ASSUME Plain(k, r) PROVE Tidy(d, k, r)
  <2>1. Plain(k, b)
    <3>. SUFFICES ASSUME NEW e \in Members(k) PROVE b.member[e].evidence \in {None, <<k, e>>}
      BY DEF Plain
    <3>1. e = c => b.member[e].evidence = None
      BY DEF Due
    <3>2. e # c => b.member[e].evidence = r.member[e].evidence
      BY <1>1, <1>5, <1>6 DEF Kept
    <3>. QED BY <3>1, <3>2, <1>7 DEF Plain
  <2>2. /\ \A e \in Members(k) : e # c => Showing(b, e)
        /\ b.member[c].state # "GREEN"
        /\ b.request[c] \in {"QUEUED", "RUNNING", "GREEN"} => b.unmet[c] <= 0
    BY <2>1 DEF Due, Admits
  <2>3. Plain(k, after) /\ Keeps(d[k], after)
    BY <1>1, <1>2, <1>4, <1>5, <2>1 DEF Plain, Keeps
  <2>4. \A e \in Members(k) : e # c => Showing(after, e)
    BY <1>1, <1>2, <1>4, <1>5, <2>2 DEF Showing
  <2>5. Showing(after, c)
    <3>1. b.unmet[c] \in Int /\ GateState(b, c) \in Waiting
      BY <1>1, GateStateIs DEF Books
    <3>2. after.request[c] = b.request[c] /\ after.unmet[c] = b.unmet[c] /\ after.member[c].state = s
      BY <1>2, <1>4
    <3>3. "GREEN" \notin Waiting
      BY DEF Waiting
    <3>. QED BY <3>1, <3>2, <3>3, <1>3, <2>2 DEF Showing
  <2>6. Tidy(d, k, after) /\ Calm(b.member[c].state, after.member[c].state)
    BY <2>2, <2>3, <2>4, <2>5 DEF Tidy, Calm
  <2>. QED BY <2>6, <1>6
<1>8. Shows(k, r)
  BY <1>7 DEF Tidy, Shows
<1>. QED BY <1>8 DEF r, after, b

\* Every part of a cascade keeps verdicts and those in the queue, and what is fit.
LEMMA KeptKeeps ==
  ASSUME NEW k, NEW b, NEW r, Kept(k, b, r)
  PROVE  /\ r \in Books /\ r.run = b.run /\ r.worker = b.worker /\ r.served = b.served
         /\ Keeps(b, r)
         /\ \A e \in Critics : b.member[e].state \notin Waiting => r.member[e].state = b.member[e].state
BY DEF Kept, Keeps

\* The member of a request that has a new status.
LEMMA OwnFacts ==
  ASSUME NEW d \in Stores, NEW k \in Runs, Framed(k), NEW c \in Members(k),
         Exact(k, d[k]), d[k].run # "absent",
         \A e \in Critics : e # c => SaneAt(k, d[k], e) /\ Witnessed(d, d[k], e),
         d[k].request[c] # "absent", Due(k, d[k], c)
  PROVE  LET r == RunUpdated(Once(Moved(d, k, d[k], Once(SetMember(d[k], k, c)), c)))
         IN  Settled(d, k, r) /\ Keeps(d[k], r)
<1>. DEFINE b == d[k]
            q == <<k, c>>
            after == SetMember(b, k, c)
            x == Moved(d, k, b, after, c)
            r == RunUpdated(x)
            s == Effective(b, k, c, q, b.request[c])
<1>1. c \in Critics /\ b \in Books /\ q \in Requests /\ q # None /\ Verdict(d, q) = b.request[c]
  BY NoRequest DEF Framed, Stores, Requests, Verdict, Home, Of
<1>2. /\ Touch(b, after, c) /\ after.request = b.request
      /\ after.member[c] = [state |-> s, request |-> q, evidence |-> IF b.request[c] \in Verdicts THEN q ELSE None]
  BY <1>1, SetMemberFacts
<1>3. s = b.request[c] \/ s \in Waiting
  BY GateStateIs DEF Effective
<1>. HIDE DEF after, s
<1>4. after.member[c].state = s /\ after.member[c].request = q
      /\ after.member[c].evidence = IF b.request[c] \in Verdicts THEN q ELSE None
  BY <1>2
<1>. HIDE DEF q, b
<1>5. SaneAt(k, after, c) /\ Witnessed(d, after, c)
  <2>1. s \in {"QUEUED", "RUNNING"} => b.request[c] = s
    BY <1>3, Words
  <2>2. b.request[c] # "absent"
    BY DEF b
  <2>. QED BY <1>1, <1>2, <1>4, <2>1, <2>2 DEF SaneAt, Witnessed, q
<1>6. ASSUME NEW e \in Critics, e # c PROVE SaneAt(k, after, e) /\ Witnessed(d, after, e)
  <2>1. SaneAt(k, b, e) /\ Witnessed(d, b, e)
    BY <1>6 DEF b
  <2>2. after.member[e] = b.member[e] /\ after.request[e] = b.request[e]
    BY <1>2, <1>6 DEF Touch
  <2>. QED BY <2>1, <2>2 DEF SaneAt, Witnessed
<1>7. Fit(d, k, after) /\ after.run = b.run
  BY <1>2, <1>5, <1>6 DEF Fit, Touch
<1>8. Exact(k, b) /\ b.run # "absent"
  BY DEF b
<1>9. Kept(k, after, x) /\ Exact(k, x)
  BY <1>1, <1>2, <1>7, <1>8, MovedFacts
<1>10. Shows(k, x)
  <2>1. Fit(d, k, SetMember(d[k], k, c))
    BY <1>7 DEF after, b
  <2>. HIDE DEF x
  <2>. QED BY <2>1, DueFacts DEF x, after, b
<1>. HIDE DEF x
<1>11. /\ x \in Books /\ x.run = b.run /\ Fit(d, k, x)
       /\ Keeps(after, x)
  BY <1>7, <1>9, KeptKeeps, KeptFit
<1>12. /\ r \in Books /\ r.run # "absent" /\ Exact(k, r) /\ Busy(k, r)
       /\ r.member = x.member /\ r.request = x.request /\ r.unmet = x.unmet
  BY <1>8, <1>9, <1>11, RunUpdatedFacts
<1>13. Keeps(b, r)
  BY <1>2, <1>11, <1>12 DEF Keeps
<1>14. Fit(d, k, r)
  BY <1>11, <1>12 DEF Fit, SaneAt, Witnessed
<1>15. Settled(d, k, r)
  BY <1>10, <1>12, <1>14, SameShows DEF Settled
<1>16. r = RunUpdated(Once(Moved(d, k, d[k], Once(SetMember(d[k], k, c)), c)))
  BY OnceIs DEF r, x, after, b
<1>. QED BY <1>13, <1>15, <1>16 DEF b

\* A member without a request that takes over a verdict.
LEMMA ImportFacts ==
  ASSUME NEW d \in Stores, NEW k \in Runs, Framed(k), NEW b, Settled(d, k, b), b.run # "absent",
         NEW c \in Members(k), b.member[c].request = None,
         NEW q \in Requests, Verdict(d, q) \in Verdicts, q # <<k, c>>
  PROVE  LET r == Import(d, k, b, c, q)
         IN  /\ Settled(d, k, r) /\ Keeps(b, r)
             /\ Settled(d, k, RunUpdated(r)) /\ Keeps(b, RunUpdated(r))
<1>. DEFINE s == Effective(b, k, c, q, Verdict(d, q))
            x == StateSet(b, c, s)
            after == [x EXCEPT !.member[c].evidence = q]
            r == Import(d, k, b, c, q)
            t == RunUpdated(r)
<1>1. /\ b \in Books /\ c \in Critics /\ s \in States /\ s \in Verdicts \cup Waiting
      /\ SaneAt(k, b, c) /\ Exact(k, b) /\ Fit(d, k, b)
  BY GateStateIs, Words DEF Effective, Framed, Fit, Settled
<1>2. /\ Touch(b, x, c) /\ x.request = b.request
      /\ x.member[c] = [state |-> s, request |-> None, evidence |-> b.member[c].evidence]
  BY <1>1, StateSetFacts
<1>3. r = Moved(d, k, b, after, c)
  BY OnceIs DEF Import
<1>. HIDE DEF x, s
<1>4. x \in Books
  BY <1>2 DEF Touch
<1>5. after = [x EXCEPT !.member[c] = [state |-> @.state, request |-> None, evidence |-> q]]
  <2>. DEFINE M == [state : States, request : {None} \cup Requests, evidence : {None} \cup Requests]
  <2>1. ASSUME NEW m \in M
        PROVE  [m EXCEPT !.evidence = q] = [state |-> m.state, request |-> m.request, evidence |-> q]
    OBVIOUS
  <2>2. x.member[c] \in M
    BY <1>1, <1>4 DEF Books
  <2>. HIDE DEF M
  <2>3. [x.member[c] EXCEPT !.evidence = q] = [state |-> x.member[c].state, request |-> x.member[c].request, evidence |-> q]
    BY <2>1, <2>2
  <2>4. x.member[c].request = None
    BY <1>2
  <2>. QED BY <2>3, <2>4
<1>6. x.member[c].state = s /\ None \in {None} \cup Requests /\ q \in {None} \cup Requests
  BY <1>2
<1>7. /\ Touch(x, after, c) /\ after.request = x.request
      /\ after.member[c] = [state |-> s, request |-> None, evidence |-> q]
  <2>. HIDE DEF after
  <2>1. /\ Touch(x, after, c) /\ after.request = x.request
        /\ after.member[c] = [state |-> x.member[c].state, request |-> None, evidence |-> q]
    BY <1>1, <1>4, <1>5, <1>6, ShownFacts
  <2>. QED BY <2>1, <1>6
<1>. HIDE DEF after
<1>8. after.member[c].state = s /\ after.member[c].request = None /\ after.member[c].evidence = q
  BY <1>7
<1>9. Touch(b, after, c)
  BY <1>1, <1>2, <1>7, TouchTrans
<1>10. SaneAt(k, after, c) /\ Witnessed(d, after, c)
  <2>1. s \notin {"QUEUED", "RUNNING"}
    BY <1>1, Words
  <2>. QED BY <1>1, <1>2, <1>7, <1>8, <2>1 DEF SaneAt, Witnessed
<1>11. ASSUME NEW e \in Critics, e # c
       PROVE  SaneAt(k, after, e) /\ Witnessed(d, after, e) /\ after.member[e] = b.member[e]
  <2>1. SaneAt(k, b, e) /\ Witnessed(d, b, e)
    BY <1>1 DEF Fit
  <2>2. after.member[e] = b.member[e] /\ after.request[e] = b.request[e]
    BY <1>9, <1>11 DEF Touch
  <2>. QED BY <2>1, <2>2 DEF SaneAt, Witnessed
<1>12. Fit(d, k, after) /\ after.run = b.run
  BY <1>9, <1>10, <1>11 DEF Fit, Touch
<1>13. Kept(k, after, r) /\ Exact(k, r)
  BY <1>1, <1>3, <1>9, <1>12, MovedFacts
<1>. HIDE DEF r
<1>14. /\ r \in Books /\ r.run = b.run /\ Fit(d, k, r) /\ Keeps(after, r)
       /\ \A e \in Critics : after.member[e].state \notin Waiting => r.member[e].state = after.member[e].state
  BY <1>12, <1>13, KeptKeeps, KeptFit
<1>15. Work(k, b) \subseteq Work(k, r)
  <2>. SUFFICES ASSUME NEW e \in Members(k), b.member[e].state \in {"QUEUED", "RUNNING"}
                PROVE  r.member[e].state = b.member[e].state
    BY DEF Work
  <2>1. e # c
    BY <1>1 DEF SaneAt
  <2>2. e \in Critics /\ b.member[e].state \notin Waiting
    BY Words DEF Framed
  <2>. QED BY <2>1, <2>2, <1>11, <1>14
<1>16. Busy(k, r)
  BY <1>14, <1>15 DEF Busy, Live, Settled
<1>17. Keeps(b, r)
  BY <1>2, <1>7, <1>14 DEF Keeps
<1>18. ~Plain(k, r)
  <2>1. r.member[c].evidence = q
    BY <1>1, <1>8, <1>13 DEF Kept
  <2>. QED BY <1>1, <2>1, NoRequest DEF Plain
<1>19. Settled(d, k, r)
  BY <1>13, <1>14, <1>16, <1>18 DEF Settled, Shows
<1>20. /\ t \in Books /\ t.run # "absent" /\ Exact(k, t) /\ Busy(k, t)
       /\ t.member = r.member /\ t.request = r.request /\ t.unmet = r.unmet
  BY <1>13, <1>14, RunUpdatedFacts
<1>21. Keeps(b, t)
  BY <1>17, <1>20 DEF Keeps
<1>22. Fit(d, k, t)
  BY <1>14, <1>20 DEF Fit, SaneAt, Witnessed
<1>23. Settled(d, k, t)
  BY <1>19, <1>20, <1>22, SameShows DEF Settled
<1>. QED BY <1>17, <1>19, <1>21, <1>23 DEF r, t

-----------------------------------------------------------------------------
\* The plan of every Run is as it was submitted, so that gates are acyclic.
AllFramed == \A k \in Runs : Framed(k)

\* What a transaction that ends with e has kept of d.
Remembers(d, e) == \A q \in Requests : Verdict(d, q) \in Verdicts => Verdict(e, q) = Verdict(d, q)

\* A request has just been given a status.
Pending(d, k, c) ==
  /\ d \in Stores /\ c \in Members(k)
  /\ d[k].run # "absent" /\ d[k].request[c] # "absent" /\ Exact(k, d[k]) /\ Due(k, d[k], c)
  /\ \A e \in Critics : e # c => SaneAt(k, d[k], e) /\ Witnessed(d, d[k], e)
  /\ \A j \in Runs : j # k => Settled(d, j, d[j])

\* transition: the member of the request, and those of other Runs that take over its verdict.
LEMMA TransitionFacts ==
  ASSUME AllFramed, NEW d, NEW k \in Runs, NEW c, Pending(d, k, c)
  PROVE  Good(Transition(d, <<k, c>>)) /\ Remembers(d, Transition(d, <<k, c>>))
<1>. DEFINE q == <<k, c>>
            missing == IF Verdict(d, q) \notin Verdicts \/ Target[c] \notin Reusable THEN {}
                       ELSE {j \in Runs \ {k} : Live(d[j]) /\ c \in Members(j) /\ d[j].member[c].request = None}
            Changed(j) == IF j = k THEN Moved(d, k, d[k], Once(SetMember(d[k], k, c)), c)
                          ELSE IF j \in missing THEN Import(d, j, d[j], c, q) ELSE d[j]
            e == Transition(d, q)
<1>1. /\ d \in Stores /\ c \in Members(k) /\ c \in Critics /\ \A j \in Runs : Framed(j) /\ d[j] \in Books
      /\ q \in Requests
  BY DEF Pending, AllFramed, Framed, Stores, Requests
<1>2. e = [j \in Runs |-> IF j = k \/ (j \in missing /\ Changed(j).worker # "none")
                          THEN RunUpdated(Once(Changed(j))) ELSE Changed(j)]
  <2>1. Home(q) = k /\ Of(q) = c
    BY DEF Home, Of
  <2>2. \A j : Once(Changed(j)) = Changed(j)
    BY OnceIs
  <2>. HIDE DEF q
  <2>. QED BY <2>1, <2>2 DEF Transition
<1>3. \A j : Once(Changed(j)) = Changed(j)
  BY OnceIs
<1>4. Settled(d, k, e[k]) /\ Keeps(d[k], e[k])
  <2>1. e[k] = RunUpdated(Once(Moved(d, k, d[k], Once(SetMember(d[k], k, c)), c)))
    BY <1>2
  <2>2. /\ Exact(k, d[k]) /\ d[k].run # "absent" /\ d[k].request[c] # "absent" /\ Due(k, d[k], c)
        /\ \A f \in Critics : f # c => SaneAt(k, d[k], f) /\ Witnessed(d, d[k], f)
    BY DEF Pending
  <2>3. LET r == RunUpdated(Once(Moved(d, k, d[k], Once(SetMember(d[k], k, c)), c)))
        IN  Settled(d, k, r) /\ Keeps(d[k], r)
    BY <1>1, <2>2, OwnFacts
  <2>. HIDE DEF e
  <2>. QED BY <2>1, <2>3
<1>5. ASSUME NEW j \in Runs, j # k, j \in missing PROVE Settled(d, j, e[j]) /\ Keeps(d[j], e[j])
  <2>. DEFINE r == Import(d, j, d[j], c, q)
  <2>1. /\ Settled(d, j, d[j]) /\ c \in Members(j) /\ d[j].member[c].request = None
        /\ Verdict(d, q) \in Verdicts /\ Live(d[j])
    BY <1>5 DEF Pending
  <2>2. Changed(j) = r
    BY <1>5
  <2>3. e[j] \in {r, RunUpdated(r)}
    <3>. HIDE DEF Changed, r, e, missing
    <3>. QED BY <1>2, <1>3, <1>5, <2>2
  <2>4. d[j].run # "absent" /\ q # <<j, c>>
    BY <1>5, <2>1 DEF Live
  <2>. HIDE DEF q, missing, e, Changed
  <2>5. /\ Settled(d, j, r) /\ Keeps(d[j], r)
        /\ Settled(d, j, RunUpdated(r)) /\ Keeps(d[j], RunUpdated(r))
    BY <1>1, <2>1, <2>4, ImportFacts
  <2>. HIDE DEF r
  <2>. QED BY <2>3, <2>5
<1>6. ASSUME NEW j \in Runs, j # k, j \notin missing PROVE Settled(d, j, e[j]) /\ Keeps(d[j], e[j])
  <2>1. e[j] = d[j]
    BY <1>2, <1>6
  <2>2. Settled(d, j, d[j])
    BY <1>6 DEF Pending
  <2>. HIDE DEF e
  <2>. QED BY <2>1, <2>2 DEF Keeps
<1>7. DOMAIN e = Runs /\ e = [j \in Runs |-> e[j]]
  BY <1>2
<1>. HIDE DEF e, missing, q, Changed
<1>8. \A j \in Runs : Settled(d, j, e[j]) /\ Keeps(d[j], e[j])
  BY <1>4, <1>5, <1>6
<1>9. e \in [Runs -> Books]
  BY <1>7, <1>8 DEF Settled, Fit
<1>10. Good(e) /\ Remembers(d, e)
  BY <1>1, <1>8, <1>9, SettledTogether DEF Remembers
<1>. QED BY <1>10 DEF e, q

\* A store in which the Run k may be about to have something to do again.
GoodBut(d, k) ==
  /\ d \in Stores /\ Fit(d, k, d[k]) /\ Exact(k, d[k]) /\ Shows(k, d[k]) /\ d[k].run # "absent"
  /\ \A j \in Runs : j # k => Settled(d, j, d[j])

\* A request without a verdict gets another status.
LEMMA SavedFacts ==
  ASSUME AllFramed, NEW d, NEW k \in Runs, GoodBut(d, k), NEW c \in Critics,
         d[k].request[c] \notin Verdicts \cup {"absent"},
         NEW status \in States, status # "absent", Admits(k, d[k], c, status)
  PROVE  Good(Saved(d, <<k, c>>, status)) /\ Remembers(d, Saved(d, <<k, c>>, status))
<1>. DEFINE q == <<k, c>>
            b == d[k]
            y == [b EXCEPT !.request[c] = status]
            x == [d EXCEPT ![k] = y]
<1>1. d \in Stores /\ b \in Books /\ Fit(d, k, b) /\ Exact(k, b) /\ b.run # "absent"
  BY DEF GoodBut, Fit
<1>2. Touch(b, y, c) /\ y.member = b.member /\ y.request[c] = status
  BY <1>1, RequestFacts
<1>3. Saved(d, q, status) = Transition(x, q)
  <2>1. [d EXCEPT ![Home(q)].request[Of(q)] = status] = x
    BY <1>1 DEF Home, Of, Stores
  <2>. QED BY <2>1, OnceIs DEF Saved
<1>. HIDE DEF y
<1>4. /\ x \in Stores /\ x[k] = y /\ \A j \in Runs : j # k => x[j] = d[j]
  BY <1>1, <1>2 DEF Stores, Touch
<1>. HIDE DEF x
<1>5. ASSUME NEW p \in Requests, Verdict(d, p) \in Verdicts PROVE Verdict(x, p) = Verdict(d, p)
  <2>1. PICK j \in Runs, f \in Critics : p = <<j, f>>
    BY DEF Requests
  <2>2. Verdict(x, p) = x[j].request[f] /\ Verdict(d, p) = d[j].request[f]
    BY <2>1 DEF Verdict, Home, Of
  <2>3. CASE j # k
    BY <2>2, <2>3, <1>4
  <2>4. CASE j = k
    <3>1. f # c
      BY <1>5, <2>2, <2>4
    <3>. QED BY <2>2, <2>4, <3>1, <1>2, <1>4 DEF Touch
  <2>. QED BY <2>3, <2>4
<1>6. ASSUME NEW z \in Books, NEW f \in Critics, Witnessed(d, z, f) PROVE Witnessed(x, z, f)
  <2>1. z.member[f].evidence \in {None} \cup Requests
    BY DEF Books
  <2>. QED BY <1>5, <1>6, <2>1 DEF Witnessed
<1>7. ASSUME NEW j \in Runs, j # k PROVE Settled(x, j, x[j])
  <2>1. Settled(d, j, d[j]) /\ x[j] = d[j] /\ d[j] \in Books
    BY <1>4, <1>7 DEF GoodBut, Settled, Fit
  <2>2. Fit(x, j, d[j])
    BY <1>6, <2>1 DEF Settled, Fit
  <2>. QED BY <2>1, <2>2 DEF Settled
<1>8. ASSUME NEW f \in Critics, f # c PROVE SaneAt(k, x[k], f) /\ Witnessed(x, x[k], f)
  <2>1. SaneAt(k, b, f) /\ Witnessed(d, b, f)
    BY <1>1 DEF Fit
  <2>2. y.request[f] = b.request[f] /\ y.member = b.member
    BY <1>2, <1>8 DEF Touch
  <2>3. Witnessed(x, b, f)
    BY <1>1, <1>6, <2>1
  <2>. QED BY <2>1, <2>2, <2>3, <1>4 DEF SaneAt, Witnessed
<1>9. Exact(k, x[k]) /\ x[k].run # "absent" /\ x[k].request[c] # "absent"
  <2>1. y.unmet = b.unmet /\ y.red = b.red /\ y.member = b.member /\ y.run = b.run
    BY <1>2 DEF Touch
  <2>2. \A n \in Buckets : y.counts[n] = b.counts[n]
    <3>1. \A n \in Buckets : b.counts[n] \in Int
      BY <1>1 DEF Books
    <3>. QED BY <1>2, <3>1, BitIs DEF Touch
  <2>3. Exact(k, y)
    BY <1>1, <2>1, <2>2 DEF Exact, Off, OffRed, OffCount
  <2>. QED BY <2>1, <2>3, <1>1, <1>2, <1>4
<1>10. c \in Members(k)
  BY <1>1 DEF Fit, SaneAt
<1>11. Due(k, y, c)
  <2>1. /\ y.unmet = b.unmet /\ y.member = b.member /\ y.request[c] = status
        /\ \A e \in Critics : e # c => y.request[e] = b.request[e]
    BY <1>2 DEF Touch
  <2>2. b.member[c].evidence = None
    <3>1. SaneAt(k, b, c) /\ b.request[c] \notin Verdicts \cup {"absent"}
      BY <1>1 DEF Fit
    <3>. QED BY <3>1 DEF SaneAt
  <2>3. Plain(k, y) <=> Plain(k, b)
    BY <2>1 DEF Plain
  <2>4. ASSUME Plain(k, b) PROVE b.member[c].state # "GREEN" /\ \A e \in Members(k) : e # c => Showing(y, e)
    <3>1. \A e \in Members(k) : Showing(b, e) /\ e \in Critics
      BY <2>4 DEF GoodBut, Shows, AllFramed, Framed
    <3>2. b.request[c] # "GREEN"
      BY DEF Verdicts
    <3>. QED BY <1>10, <2>1, <3>1, <3>2 DEF Showing
  <2>5. Admits(k, y, c, y.request[c])
    BY <2>1, <2>3 DEF Admits
  <2>. QED BY <2>1, <2>2, <2>3, <2>4, <2>5 DEF Due
<1>12. Pending(x, k, c)
  BY <1>4, <1>7, <1>8, <1>9, <1>10, <1>11 DEF Pending
<1>13. Good(Transition(x, q)) /\ Remembers(x, Transition(x, q))
  BY <1>12, TransitionFacts
<1>14. Remembers(d, Transition(x, q))
  BY <1>5, <1>13 DEF Remembers
<1>. QED BY <1>3, <1>13, <1>14

\* Who has a request is a Run.
LEMMA AbsentIs ==
  ASSUME NEW d, Good(d), NEW k \in Runs, d[k].run = "absent"
  PROVE  \A c \in Critics : d[k].request[c] = "absent"
BY DEF Good, Settled, NoBook

LEMMA GoodIsBut ==
  ASSUME NEW d, Good(d), NEW k \in Runs, d[k].run # "absent"
  PROVE  GoodBut(d, k)
BY DEF Good, GoodBut, Settled

-----------------------------------------------------------------------------
\* Nothing is forgotten by two transactions that each keep the verdicts.
LEMMA RemembersTrans ==
  ASSUME NEW d, NEW x, NEW e, Remembers(d, x), Remembers(x, e)
  PROVE  Remembers(d, e)
BY DEF Remembers

\* What ends a request that has no verdict, and leaves alone any other.
LEMMA EndFacts ==
  ASSUME AllFramed, NEW d, Good(d), NEW k \in Runs, NEW c \in Critics
  PROVE  LET e == IF d[k].request[c] \in Open THEN Saved(d, <<k, c>>, "ERROR") ELSE d
         IN  Good(e) /\ Remembers(d, e)
<1>. DEFINE e == IF d[k].request[c] \in Open THEN Saved(d, <<k, c>>, "ERROR") ELSE d
<1>1. CASE d[k].request[c] \notin Open
  BY <1>1 DEF Remembers
<1>2. CASE d[k].request[c] \in Open
  <2>1. Open \cap (Verdicts \cup {"absent"}) = {} /\ "ERROR" \in States /\ "ERROR" # "absent"
    BY DEF Open, Waiting, Verdicts, States
  <2>2. d[k].request[c] \notin Verdicts \cup {"absent"}
    BY <1>2, <2>1
  <2>3. d[k].run # "absent"
    BY <2>2, AbsentIs
  <2>4. GoodBut(d, k)
    BY <2>3, GoodIsBut
  <2>5. Admits(k, d[k], c, "ERROR")
    BY DEF Admits
  <2>6. Good(Saved(d, <<k, c>>, "ERROR")) /\ Remembers(d, Saved(d, <<k, c>>, "ERROR"))
    BY <2>1, <2>2, <2>4, <2>5, SavedFacts
  <2>. QED BY <1>2, <2>6
<1>. QED BY <1>1, <1>2

\* What only concerns the status of the Run, its worker or where verdicts come from.
Alike(b, y) ==
  /\ y \in Books /\ y.member = b.member /\ y.request = b.request
  /\ y.unmet = b.unmet /\ y.red = b.red /\ y.counts = b.counts

Put(d, k, y) == [d EXCEPT ![k] = y]
Harmless(d, k, y) ==
  /\ GoodBut(Put(d, k, y), k) /\ Remembers(d, Put(d, k, y)) /\ Put(d, k, y)[k] = y
  /\ (Live(y) => Live(d[k])) => Good(Put(d, k, y))

\* It harms nobody, except that the Run may have to be given something to do.
LEMMA AlikeFacts ==
  ASSUME NEW d, Good(d), NEW k \in Runs, d[k].run # "absent",
         NEW y, Alike(d[k], y), y.run # "absent"
  PROVE  Harmless(d, k, y)
<1>. DEFINE b == d[k]
            e == Put(d, k, y)
<1>1. d \in Stores /\ b \in Books /\ Fit(d, k, b) /\ Exact(k, b) /\ Busy(k, b) /\ Shows(k, b)
  BY DEF Good, Settled, Fit
<1>2. /\ y \in Books /\ y.member = b.member /\ y.request = b.request
      /\ y.unmet = b.unmet /\ y.red = b.red /\ y.counts = b.counts
  BY DEF Alike
<1>3. /\ e \in Stores /\ e[k] = y /\ \A j \in Runs : j # k => e[j] = d[j]
  BY <1>1, <1>2 DEF Stores, Put
<1>. HIDE DEF e
<1>4. \A q \in Requests : Verdict(e, q) = Verdict(d, q)
  BY <1>2, <1>3 DEF Requests, Verdict, Home, Of
<1>5. ASSUME NEW z \in Books, NEW f \in Critics, Witnessed(d, z, f) PROVE Witnessed(e, z, f)
  <2>1. z.member[f].evidence \in {None} \cup Requests
    BY DEF Books
  <2>. QED BY <1>4, <1>5, <2>1 DEF Witnessed
<1>6. ASSUME NEW j \in Runs, j # k PROVE Settled(e, j, e[j])
  <2>1. Settled(d, j, d[j]) /\ e[j] = d[j] /\ d[j] \in Books
    BY <1>3, <1>6 DEF Good, Settled, Fit
  <2>2. Fit(e, j, d[j])
    BY <1>5, <2>1 DEF Settled, Fit
  <2>. QED BY <2>1, <2>2 DEF Settled
<1>7. Fit(e, k, y)
  <2>1. \A f \in Critics : SaneAt(k, b, f) /\ Witnessed(e, b, f)
    BY <1>1, <1>5 DEF Fit
  <2>. QED BY <1>2, <2>1 DEF Fit, SaneAt, Witnessed
<1>8. Exact(k, y)
  BY <1>1, <1>2 DEF Exact, Off, OffRed, OffCount
<1>9. Shows(k, y)
  BY <1>1, <1>2, SameShows
<1>10. GoodBut(e, k)
  BY <1>3, <1>6, <1>7, <1>8, <1>9 DEF GoodBut
<1>11. ASSUME Live(y) => Live(b) PROVE Good(e)
  <2>1. Busy(k, y)
    BY <1>1, <1>2, <1>11 DEF Busy, Work
  <2>2. Settled(e, k, y)
    BY <1>7, <1>8, <1>9, <2>1 DEF Settled
  <2>. QED BY <2>2, <1>3, <1>6 DEF Good
<1>. QED BY <1>3, <1>4, <1>10, <1>11 DEF Remembers, Harmless, e

\* failWithin: what is open ends, and by that nothing else is lost.
LEMMA FailedFacts ==
  ASSUME AllFramed, NEW d, Good(d), NEW k \in Runs
  PROVE  Good(Failed(d, k)) /\ Remembers(d, Failed(d, k))
<1>. DEFINE order == SetToSeq(Critics)
            End(x, c) == IF x[k].request[c] \in Open THEN Saved(x, <<k, c>>, "ERROR") ELSE x
            steps == [n \in DOMAIN order |-> [x \in Stores |-> End(x, order[n])]]
            start == [d EXCEPT ![k].run = "ERROR"]
            P == {p \in Nat \X Stores : Good(p[2]) /\ Remembers(d, p[2])}
<1>1. CASE ~Live(d[k])
  BY <1>1 DEF Failed, Remembers
<1>2. CASE Live(d[k])
  <2>1. Failed(d, k) = Folded(steps, start)
    BY <1>2 DEF Failed
  <2>2. d[k].run # "absent" /\ "ERROR" \in Final /\ d \in Stores /\ d[k] \in Books
    BY <1>2 DEF Live, Final, Good, Stores
  <2>3. Good(start) /\ Remembers(d, start)
    <3>. DEFINE y == [d[k] EXCEPT !.run = "ERROR"]
    <3>1. Alike(d[k], y) /\ y.run = "ERROR" /\ ~Live(y)
      BY <2>2 DEF Alike, Books, Live
    <3>2. start = Put(d, k, y)
      BY <2>2 DEF Stores, Put
    <3>. HIDE DEF y, start
    <3>3. Harmless(d, k, y)
      BY <2>2, <3>1, AlikeFacts
    <3>. QED BY <3>1, <3>2, <3>3 DEF Harmless
  <2>4. start \in Stores
    BY <2>3 DEF Good
  <2>5. PICK N \in Nat : order \in [1..N -> Critics] /\ Len(order) = N
    <3>1. IsFiniteSet(Critics)
      BY QueryAssumption
    <3>. QED BY <3>1, Listed
  <2>. HIDE DEF order, start
  <2>6. DOMAIN order = 1..N
    BY <2>5
  <2>7. Len(steps) = N
    <3>1. steps \in [1..N -> [Stores -> {End(x, order[n]) : x \in Stores, n \in 1..N}]]
      BY <2>6
    <3>2. DOMAIN steps = 1..N
      BY <2>6
    <3>. QED BY <3>2, <2>5
  <2>8. <<0, start>> \in P
    BY <2>3, <2>4
  <2>9. ASSUME NEW n \in 1..N, NEW x \in Stores, <<n - 1, x>> \in P
        PROVE  <<n, steps[n][x]>> \in P
    <3>1. Good(x) /\ Remembers(d, x) /\ order[n] \in Critics /\ n \in Nat
      BY <2>5, <2>9
    <3>2. steps[n][x] = End(x, order[n])
      BY <2>6
    <3>3. Good(End(x, order[n])) /\ Remembers(x, End(x, order[n]))
      BY <3>1, EndFacts
    <3>. HIDE DEF End, steps
    <3>4. Good(steps[n][x]) /\ Remembers(d, steps[n][x])
      BY <3>1, <3>2, <3>3, RemembersTrans
    <3>5. steps[n][x] \in Stores
      BY <3>4 DEF Good
    <3>. QED BY <3>1, <3>4, <3>5
  <2>10. P \in SUBSET (Nat \X Stores)
    OBVIOUS
  <2>. HIDE DEF P, steps
  <2>11. <<N, Folded(steps, start)>> \in P
    BY <2>4, <2>5, <2>7, <2>8, <2>9, <2>10, FoldFacts
  <2>. QED BY <2>1, <2>11 DEF P
<1>. QED BY <1>1, <1>2

-----------------------------------------------------------------------------
LEMMA FramedHolds ==
  ASSUME NEW k \in Runs, Tiered(k)
  PROVE  Framed(k)
<1>. DEFINE N == Len(plan[k].gates)
<1>1. N \in Nat /\ Members(k) \subseteq Critics /\ \A c \in Members(k) : Gating(k, c) \subseteq Members(k)
  BY DEF Tiered
<1>2. PICK rank \in [Critics -> 0..N] : \A c \in Critics : \A e \in Gating(k, c) : rank[e] < rank[c]
  BY DEF Tiered
<1>3. rank \in [Critics -> Nat] /\ \A c \in Members(k) :
        rank[c] <= N /\ \A e \in Gating(k, c) : rank[e] < rank[c]
  BY <1>1, <1>2
<1>. QED BY <1>1, <1>3 DEF Framed

\* What the cache has, by which a member begins.
Typed == entries \in [Reusable -> {None} \cup Verdicts]
Prior(k, c) == IF Cached(k, c) = None THEN "MISSING" ELSE Cached(k, c)

LEMMA CachedIs ==
  ASSUME Typed, NEW k \in Runs, NEW c \in Critics
  PROVE  /\ Cached(k, c) \in {None} \cup Verdicts
         /\ Prior(k, c) \in {"MISSING"} \cup Verdicts /\ Prior(k, c) \in States
BY DEF Typed, Cached, Prior, States

\* What the states of those that gate c make of it.
Outlook(k, s, c) ==
  IF \A e \in Gating(k, c) : s[e] = "GREEN" THEN Prior(k, c)
  ELSE IF \E e \in Gating(k, c) : Red(s[e]) THEN "BLOCKED" ELSE "WAIT_DEPENDENCY"
Consistent(k, s) ==
  s \in [Members(k) -> States] /\ \A c \in Members(k) : s[c] = Outlook(k, s, c)

\* One gate is applied.
LEMMA GateInitiallyFacts ==
  ASSUME NEW k \in Runs, NEW s \in [Members(k) -> States], NEW gate, NEW c \in Members(k)
  PROVE  /\ GateInitially(s, gate) \in [Members(k) -> States]
         /\ c \notin gate.critics => GateInitially(s, gate)[c] = s[c]
         /\ c \in gate.critics /\ gate.needs \subseteq Members(k) => GateInitially(s, gate)[c] =
              IF \A e \in gate.needs : s[e] = "GREEN" THEN s[c]
              ELSE IF \E e \in gate.needs : Red(s[e]) THEN "BLOCKED" ELSE "WAIT_DEPENDENCY"
<1>. DEFINE needs == gate.needs \cap Members(k)
            r == GateInitially(s, gate)
            After(e) == IF e \notin gate.critics \/ {s[f] : f \in needs} \subseteq {"GREEN"} THEN s[e]
                       ELSE IF \E f \in needs : Red(s[f]) THEN "BLOCKED" ELSE "WAIT_DEPENDENCY"
<1>1. r = [e \in Members(k) |-> After(e)]
  BY DEF GateInitially
<1>2. \A e \in Members(k) : After(e) \in States
  BY Words DEF Waiting
<1>3. r \in [Members(k) -> States] /\ r[c] = After(c)
  <2>. HIDE DEF After
  <2>. QED BY <1>1, <1>2
<1>. HIDE DEF r
<1>4. ASSUME c \in gate.critics, gate.needs \subseteq Members(k)
      PROVE  After(c) = IF \A e \in gate.needs : s[e] = "GREEN" THEN s[c]
                       ELSE IF \E e \in gate.needs : Red(s[e]) THEN "BLOCKED" ELSE "WAIT_DEPENDENCY"
  <2>1. needs = gate.needs
    BY <1>4
  <2>2. {s[f] : f \in needs} \subseteq {"GREEN"} <=> \A e \in gate.needs : s[e] = "GREEN"
    BY <2>1
  <2>. QED BY <1>4, <2>1, <2>2
<1>. QED BY <1>3, <1>4 DEF r

\* One pass over the gates makes the states consistent.
LEMMA GivenFacts ==
  ASSUME Typed, NEW k \in Runs, Tiered(k)
  PROVE  Consistent(k, Given(k))
<1>. DEFINE gates == plan[k].gates
            N == Len(gates)
            S == [Members(k) -> States]
            start == [c \in Members(k) |-> Prior(k, c)]
            steps == [n \in DOMAIN gates |-> [s \in S |-> GateInitially(s, gates[n])]]
<1>1. /\ N \in Nat /\ DOMAIN gates = 1..N /\ Members(k) \subseteq Critics
      /\ \A c \in Members(k) : Gating(k, c) \subseteq Members(k)
  BY DEF Tiered
<1>2. PICK rank \in [Critics -> 0..N] :
        /\ \A c \in Critics : \A n \in DOMAIN gates : c \in gates[n].critics <=> rank[c] = n
        /\ \A c \in Critics : rank[c] # 0 => Gating(k, c) = gates[rank[c]].needs
        /\ \A c \in Critics : rank[c] = 0 => Gating(k, c) = {}
        /\ \A c \in Critics : \A e \in Gating(k, c) : rank[e] < rank[c]
  BY DEF Tiered
<1>3. Given(k) = Folded(steps, start)
  BY DEF Given, Prior
<1>4. start \in S
  BY <1>1, CachedIs
<1>5. Len(steps) = N
  <2>1. DOMAIN steps = 1..N
    BY <1>1
  <2>. QED BY <1>1, <2>1
<1>6. \A n \in 1..N : \A s \in S : steps[n][s] = GateInitially(s, gates[n])
  BY <1>1
<1>. HIDE DEF steps
<1>. DEFINE SoFar(n, s) == \A c \in Members(k) : s[c] = IF rank[c] <= n THEN Outlook(k, s, c) ELSE Prior(k, c)
            P == {p \in Nat \X S : p[1] <= N /\ SoFar(p[1], p[2])}
<1>7. <<0, start>> \in P
  <2>1. ASSUME NEW c \in Members(k) PROVE start[c] = IF rank[c] <= 0 THEN Outlook(k, start, c) ELSE Prior(k, c)
    <3>1. rank[c] \in 0..N /\ c \in Critics
      BY <1>1
    <3>2. rank[c] <= 0 => Gating(k, c) = {}
      BY <3>1, <1>2
    <3>. QED BY <3>2 DEF Outlook
  <2>. QED BY <2>1, <1>1, <1>4
<1>8. ASSUME NEW n \in 1..N, NEW s \in S, <<n - 1, s>> \in P PROVE <<n, steps[n][s]>> \in P
  <2>. DEFINE t == GateInitially(s, gates[n])
  <2>1. SoFar(n - 1, s) /\ n \in Nat /\ n <= N /\ n - 1 \in Nat /\ n \in DOMAIN gates /\ n # 0
    BY <1>1, <1>8
  <2>2. t \in S /\ \A c \in Members(k) : c \notin gates[n].critics => t[c] = s[c]
    <3>1. \A c \in Members(k) : t \in S /\ (c \notin gates[n].critics => t[c] = s[c])
      BY GateInitiallyFacts
    <3>2. Members(k) = {} => t \in S
      BY DEF GateInitially
    <3>. QED BY <3>1, <3>2
  <2>3. \A c \in Members(k) : c \in Critics /\ rank[c] \in Nat /\ (c \in gates[n].critics <=> rank[c] = n)
    BY <1>1, <1>2, <2>1
  <2>4. ASSUME NEW c \in Members(k), rank[c] <= n
        PROVE  \A e \in Gating(k, c) : t[e] = s[e]
    <3>. SUFFICES ASSUME NEW e \in Gating(k, c) PROVE t[e] = s[e]
      OBVIOUS
    <3>1. e \in Members(k) /\ rank[e] < rank[c]
      BY <1>1, <1>2
    <3>2. rank[e] # n
      BY <3>1, <2>3, <2>4, <2>1
    <3>. QED BY <3>1, <3>2, <2>2, <2>3
  <2>5. ASSUME NEW c \in Members(k)
        PROVE  t[c] = IF rank[c] <= n THEN Outlook(k, t, c) ELSE Prior(k, c)
    <3>1. s[c] = IF rank[c] <= n - 1 THEN Outlook(k, s, c) ELSE Prior(k, c)
      BY <2>1
    <3>2. rank[c] <= n => Outlook(k, t, c) = Outlook(k, s, c)
      BY <2>4 DEF Outlook
    <3>3. CASE rank[c] # n
      <4>1. t[c] = s[c] /\ (rank[c] <= n <=> rank[c] <= n - 1)
        BY <3>3, <2>1, <2>2, <2>3
      <4>. QED BY <4>1, <3>1, <3>2
    <3>4. CASE rank[c] = n
      <4>1. Gating(k, c) = gates[n].needs /\ c \in gates[n].critics /\ gates[n].needs \subseteq Members(k)
        BY <3>4, <1>1, <1>2, <2>1, <2>3
      <4>2. t[c] = IF \A e \in gates[n].needs : s[e] = "GREEN" THEN s[c]
                   ELSE IF \E e \in gates[n].needs : Red(s[e]) THEN "BLOCKED" ELSE "WAIT_DEPENDENCY"
        BY <4>1, GateInitiallyFacts
      <4>3. s[c] = Prior(k, c) /\ rank[c] <= n
        BY <3>1, <3>4, <2>1
      <4>4. t[c] = Outlook(k, s, c)
        BY <4>1, <4>2, <4>3 DEF Outlook
      <4>. QED BY <4>3, <4>4, <3>2
    <3>. QED BY <3>3, <3>4
  <2>6. steps[n][s] = t
    BY <1>6
  <2>. HIDE DEF t
  <2>. QED BY <2>1, <2>2, <2>5, <2>6
<1>9. P \in SUBSET (Nat \X S)
  OBVIOUS
<1>. HIDE DEF P, S, start
<1>10. <<N, Folded(steps, start)>> \in P
  BY <1>1, <1>4, <1>5, <1>7, <1>8, <1>9, FoldFacts
<1>11. Folded(steps, start) \in S /\ SoFar(N, Folded(steps, start))
  BY <1>10 DEF P
<1>12. \A c \in Members(k) : rank[c] <= N
  BY <1>1
<1>. QED BY <1>3, <1>11, <1>12 DEF Consistent, S

-----------------------------------------------------------------------------
\* A member that has neither a receipt nor a request yet.
Fresh(k, b, c) ==
  /\ b.request[c] = "absent" /\ b.member[c].evidence = None
  /\ b.member[c].state = IF b.unmet[c] > 0 THEN GateState(b, c) ELSE Prior(k, c)

\* Evidence is only what the Run has for itself.
Own(k, b, c) ==
  /\ SaneAt(k, b, c) /\ b.member[c].evidence \in {None, <<k, c>>}
  /\ b.member[c].request = None => b.member[c].evidence = None

LEMMA NoBookIs == NoBook \in Books
<1>1. \A c \in Critics : Nobody \in [state : States, request : {None} \cup Requests, evidence : {None} \cup Requests]
  BY DEF Nobody, States
<1>2. "absent" \in States /\ 0 \in Int
  BY DEF States
<1>. QED BY <1>1, <1>2 DEF NoBook, Books

\* The counters are inserted as they are to be kept.
LEMMA InsertedFacts ==
  ASSUME Typed, NEW k \in Runs, Tiered(k), Framed(k), NEW s, Consistent(k, s)
  PROVE  LET r == Inserted(NoBook, k, s)
         IN  /\ r \in Books /\ r.run = "QUEUED" /\ Exact(k, r)
             /\ \A c \in Critics : Own(k, r, c)
             /\ \A c \in Members(k) : Fresh(k, r, c)
<1>. DEFINE r == Inserted(NoBook, k, s)
            needs(c) == Gating(k, c) \cap Members(k)
            U(c) == Cardinality({e \in needs(c) : s[e] # "GREEN"})
            R(c) == Cardinality({e \in needs(c) : Red(s[e])})
            C(n) == Cardinality({c \in Members(k) : Bucket(s[c]) = n})
            More(n) == IF n = "missing" THEN Cardinality(Unreviewed(k)) ELSE 0
            M == [state : States, request : {None} \cup Requests, evidence : {None} \cup Requests]
            At(c) == [state |-> IF c \in Members(k) THEN s[c] ELSE "MISSING", request |-> None, evidence |-> None]
            member == [c \in Critics |->
              IF c \in Members(k) THEN [Nobody EXCEPT !.state = s[c]] ELSE Nobody]
            unmet == [c \in Critics |-> IF c \in Members(k) THEN U(c) ELSE 0]
            red == [c \in Critics |-> IF c \in Members(k) THEN R(c) ELSE 0]
            counts == [n \in Buckets |-> C(n) + More(n)]
<1>1. /\ s \in [Members(k) -> States] /\ Members(k) \subseteq Critics /\ IsFiniteSet(Critics)
      /\ \A c \in Members(k) : Gating(k, c) \subseteq Members(k)
  BY QueryAssumption DEF Consistent, Framed
<1>2. \A A \in SUBSET Critics : IsFiniteSet(A) /\ Cardinality(A) \in Nat /\ (Cardinality(A) = 0 <=> A = {})
  BY <1>1, FS_Subset, FS_CardinalityType, FS_EmptySet
<1>3. \A n : More(n) \in Nat
  <2>1. IsFiniteSet(Artifacts) /\ Unreviewed(k) \subseteq Artifacts
    BY QueryAssumption DEF Unreviewed, Tiered
  <2>. QED BY <2>1, FS_Subset, FS_CardinalityType
<1>4. r = [NoBook EXCEPT !.run = "QUEUED", !.member = member, !.unmet = unmet, !.red = red, !.counts = counts]
  BY DEF Inserted
<1>5. ASSUME NEW c \in Members(k)
      PROVE  /\ U(c) \in Nat /\ (U(c) > 0 <=> ~\A e \in Gating(k, c) : s[e] = "GREEN")
             /\ R(c) \in Nat /\ (R(c) > 0 <=> \E e \in Gating(k, c) : Red(s[e]))
  <2>. DEFINE A == {e \in needs(c) : s[e] # "GREEN"}
              B == {e \in needs(c) : Red(s[e])}
  <2>1. A \in SUBSET Critics /\ B \in SUBSET Critics /\ needs(c) = Gating(k, c)
    BY <1>1
  <2>2. (A = {} <=> \A e \in Gating(k, c) : s[e] = "GREEN") /\ (B # {} <=> \E e \in Gating(k, c) : Red(s[e]))
    BY <2>1
  <2>. HIDE DEF A, B
  <2>3. /\ Cardinality(A) \in Nat /\ (Cardinality(A) = 0 <=> A = {})
        /\ Cardinality(B) \in Nat /\ (Cardinality(B) = 0 <=> B = {})
    BY <2>1, <1>2
  <2>4. (Cardinality(A) > 0 <=> A # {}) /\ (Cardinality(B) > 0 <=> B # {})
    BY <2>3
  <2>. QED BY <2>2, <2>3, <2>4 DEF A, B
<1>6. \A n : C(n) \in Nat
  <2>1. \A n : {c \in Members(k) : Bucket(s[c]) = n} \in SUBSET Critics
    BY <1>1
  <2>. QED BY <2>1, <1>2
<1>7. \A c \in Critics : member[c] = At(c) /\ At(c) \in M
  BY <1>1 DEF Nobody, States
<1>8. member \in [Critics -> M]
  <2>. HIDE DEF M, At
  <2>. QED BY <1>7
<1>9. unmet \in [Critics -> Int] /\ red \in [Critics -> Int] /\ counts \in [Buckets -> Int]
  <2>. HIDE DEF U, R, C, More
  <2>. QED BY <1>3, <1>5, <1>6
<1>10. /\ \A c \in Members(k) : unmet[c] = U(c) /\ red[c] = R(c)
       /\ \A n \in Buckets : counts[n] = C(n) + More(n)
  <2>. HIDE DEF U, R, C, More
  <2>. QED BY <1>1
<1>. HIDE DEF member, unmet, red, counts, r
<1>11. /\ r \in Books /\ r.run = "QUEUED" /\ r.member = member /\ r.unmet = unmet /\ r.red = red
       /\ r.counts = counts /\ \A c \in Critics : r.request[c] = "absent"
  <2>1. NoBook \in Books /\ \A c \in Critics : NoBook.request[c] = "absent"
    BY NoBookIs DEF NoBook
  <2>. HIDE DEF NoBook
  <2>. QED BY <1>4, <1>8, <1>9, <2>1 DEF Books
<1>12. /\ \A c \in Critics : r.member[c].request = None /\ r.member[c].evidence = None
       /\ \A c \in Members(k) : r.member[c].state = s[c]
       /\ \A c \in Critics : c \notin Members(k) => r.member[c].state = "MISSING"
  <2>1. /\ \A c : At(c).request = None /\ At(c).evidence = None
        /\ \A c : At(c).state = IF c \in Members(k) THEN s[c] ELSE "MISSING"
    OBVIOUS
  <2>. HIDE DEF At, M
  <2>2. \A c \in Critics : r.member[c] = At(c)
    BY <1>7, <1>11
  <2>. QED BY <1>1, <2>1, <2>2
<1>. HIDE DEF At, M
<1>13. ASSUME NEW c \in Members(k) PROVE Off(k, r, c) = 0 /\ OffRed(k, r, c) = 0
  <2>1. /\ {e \in needs(c) : s[e] # "GREEN"} = {e \in Gating(k, c) : r.member[e].state # "GREEN"}
        /\ {e \in needs(c) : Red(s[e])} = {e \in Gating(k, c) : Red(r.member[e].state)}
    BY <1>1, <1>12
  <2>2. /\ U(c) = Cardinality({e \in Gating(k, c) : r.member[e].state # "GREEN"})
        /\ R(c) = Cardinality({e \in Gating(k, c) : Red(r.member[e].state)})
    BY <2>1
  <2>. HIDE DEF U, R
  <2>. QED BY <2>2, <1>5, <1>10, <1>11 DEF Off, OffRed
<1>14. ASSUME NEW n \in Buckets PROVE OffCount(k, r, n) = More(n)
  <2>1. {c \in Members(k) : Bucket(s[c]) = n} = {c \in Members(k) : Bucket(r.member[c].state) = n}
    BY <1>12
  <2>2. C(n) = Cardinality({c \in Members(k) : Bucket(r.member[c].state) = n})
    BY <2>1
  <2>. HIDE DEF C, More
  <2>. QED BY <2>2, <1>3, <1>6, <1>10, <1>11 DEF OffCount
<1>15. Exact(k, r)
  BY <1>13, <1>14 DEF Exact
<1>16. ASSUME NEW c \in Members(k)
       PROVE  Fresh(k, r, c) /\ s[c] \notin {"QUEUED", "RUNNING"}
  <2>1. s[c] = Outlook(k, s, c) /\ c \in Critics
    BY <1>1 DEF Consistent
  <2>2. /\ unmet[c] > 0 <=> ~\A e \in Gating(k, c) : s[e] = "GREEN"
        /\ red[c] > 0 <=> \E e \in Gating(k, c) : Red(s[e])
    <3>. HIDE DEF U, R
    <3>. QED BY <1>5, <1>10
  <2>. HIDE DEF U, R, C, More, needs
  <2>3. s[c] = IF r.unmet[c] > 0 THEN GateState(r, c) ELSE Prior(k, c)
    BY <2>1, <2>2, <1>11 DEF Outlook, GateState
  <2>4. s[c] \notin {"QUEUED", "RUNNING"}
    BY <2>1, <2>3, CachedIs, GateStateIs, Words
  <2>. QED BY <2>1, <2>3, <2>4, <1>11, <1>12 DEF Fresh
<1>17. ASSUME NEW c \in Critics PROVE Own(k, r, c)
  <2>1. r.member[c].state \notin {"QUEUED", "RUNNING"}
    BY <1>12, <1>16
  <2>. QED BY <2>1, <1>11, <1>12, Words DEF Own, SaneAt
<1>. QED BY <1>11, <1>15, <1>16, <1>17 DEF r

\* A member gets its receipt or its request.  By that it may be in the queue instead of
\* missing, which is the same to those that it gates.
LEMMA EnteredFacts ==
  ASSUME Typed, NEW k \in Runs, Framed(k), NEW b \in Books, NEW c \in Members(k), Own(k, b, c), Fresh(k, b, c)
  PROVE  LET r == Entered(b, k, c)
         IN  /\ Touch(b, r, c) /\ Own(k, r, c) /\ Showing(r, c)
             /\ \/ r.member[c].state = b.member[c].state
                \/ b.member[c].state = "MISSING" /\ r.member[c].state = "QUEUED"
<1>. DEFINE r == Entered(b, k, c)
            q == <<k, c>>
            x == [b EXCEPT !.request[c] = Cached(k, c), !.served = @ \cup {c}]
            t == b.member[c].state
<1>1. c \in Critics /\ q \in Requests /\ q # None /\ Home(q) = k
  BY NoRequest DEF Framed, Requests, Home
<1>2. Cached(k, c) \in {None} \cup Verdicts /\ Prior(k, c) = IF Cached(k, c) = None THEN "MISSING" ELSE Cached(k, c)
  BY <1>1, CachedIs DEF Prior
<1>3. t = IF b.unmet[c] > 0 THEN GateState(b, c) ELSE Prior(k, c)
  BY DEF Fresh
<1>4. GateState(b, c) \in Waiting /\ b.unmet[c] \in Int /\ "GREEN" \notin Waiting
  BY <1>1, GateStateIs DEF Books, Waiting
<1>. HIDE DEF q, t
<1>5. CASE Cached(k, c) # None
  <2>1. r = SetMember(x, k, c) /\ Cached(k, c) \in States /\ Cached(k, c) \in Verdicts
    BY <1>2, <1>5, Words DEF Entered
  <2>2. /\ Touch(b, x, c) /\ x.member = b.member /\ x.request[c] = Cached(k, c) /\ c \in x.served
    <3>. DEFINE y == [b EXCEPT !.request[c] = Cached(k, c)]
    <3>1. Touch(b, y, c) /\ y.member = b.member /\ y.request[c] = Cached(k, c)
      BY <1>1, <2>1, RequestFacts
    <3>2. x = [y EXCEPT !.served = b.served \cup {c}]
      BY DEF Books
    <3>. HIDE DEF y, x
    <3>3. y \in Books /\ b.served \cup {c} \in SUBSET Critics
      BY <3>1, <1>1 DEF Touch, Books
    <3>4. /\ x \in Books /\ x.served = b.served \cup {c} /\ x.run = y.run /\ x.worker = y.worker
          /\ x.unmet = y.unmet /\ x.red = y.red /\ x.counts = y.counts
          /\ x.member = y.member /\ x.request = y.request
      BY <3>2, <3>3 DEF Books
    <3>5. Touch(b, x, c)
      BY <3>1, <3>4 DEF Touch
    <3>. QED BY <3>1, <3>4, <3>5
  <2>. HIDE DEF x
  <2>3. x \in Books /\ x.unmet = b.unmet /\ x.red = b.red
    BY <2>2 DEF Touch
  <2>. DEFINE s == Effective(x, k, c, q, x.request[c])
  <2>4. s = t
    BY <1>2, <1>3, <1>5, <2>2, <2>3 DEF Effective, GateState
  <2>. HIDE DEF s
  <2>5. /\ Touch(x, r, c) /\ r.request = x.request
        /\ r.member[c] = [state |-> s, request |-> q,
                          evidence |-> IF x.request[c] \in Verdicts THEN q ELSE None]
    BY <1>1, <2>1, <2>3, SetMemberFacts DEF s, q
  <2>. HIDE DEF r
  <2>6. r.member[c].state = t /\ r.member[c].request = q /\ r.member[c].evidence = q /\ r.request[c] \in Verdicts
    BY <2>1, <2>2, <2>4, <2>5
  <2>7. Touch(b, r, c)
    BY <1>1, <2>2, <2>5, TouchTrans
  <2>8. t \notin {"QUEUED", "RUNNING"}
    BY <1>2, <1>3, <1>4, Words
  <2>9. Own(k, r, c)
    BY <1>1, <2>6, <2>8, Words DEF Own, SaneAt, q
  <2>10. r.request[c] = Cached(k, c) /\ r.unmet[c] = b.unmet[c]
    BY <1>1, <2>2, <2>3, <2>5, <2>7 DEF Touch
  <2>11. Showing(r, c)
    <3>1. Cached(k, c) \notin {"QUEUED", "RUNNING"}
      BY <2>1, Words
    <3>. QED BY <1>2, <1>3, <1>4, <1>5, <2>6, <2>10, <3>1 DEF Showing
  <2>. QED BY <2>6, <2>7, <2>9, <2>11 DEF t, r
<1>6. CASE Cached(k, c) = None /\ c \in plan[k].included
  <2>. DEFINE y == Created(b, c)
              s == Effective(y, k, c, q, y.request[c])
              u == IF b.unmet[c] > 0 THEN GateState(b, c) ELSE "QUEUED"
  <2>1. r = SetMember(y, k, c)
    BY <1>6, OnceIs DEF Entered
  <2>2. Touch(b, y, c) /\ y.member = b.member /\ y.request[c] = u
    BY <1>1, CreatedFacts
  <2>. HIDE DEF y, r
  <2>3. y \in Books /\ y.unmet = b.unmet /\ y.red = b.red
    BY <2>2 DEF Touch
  <2>4. s = u
    BY <2>2, <2>3 DEF Effective, GateState
  <2>5. /\ Touch(y, r, c) /\ r.request = y.request
        /\ r.member[c] = [state |-> s, request |-> q,
                          evidence |-> IF y.request[c] \in Verdicts THEN q ELSE None]
    BY <1>1, <2>1, <2>3, SetMemberFacts DEF q
  <2>. HIDE DEF s
  <2>6. u \in Waiting \cup {"QUEUED"} /\ u \notin Verdicts /\ u # "absent"
    BY <1>4, Words
  <2>7. r.member[c].state = u /\ r.member[c].request = q /\ r.member[c].evidence = None /\ r.request[c] = u
    BY <2>2, <2>4, <2>5, <2>6
  <2>8. Touch(b, r, c)
    BY <1>1, <2>2, <2>5, TouchTrans
  <2>9. Own(k, r, c)
    BY <1>1, <2>6, <2>7 DEF Own, SaneAt, q
  <2>10. u = t \/ (t = "MISSING" /\ u = "QUEUED")
    BY <1>2, <1>3, <1>6
  <2>11. Showing(r, c)
    <3>1. r.unmet[c] = b.unmet[c]
      BY <2>8 DEF Touch
    <3>2. u \in {"QUEUED", "RUNNING"} => ~(b.unmet[c] > 0)
      BY <1>4, Words
    <3>3. u # "GREEN"
      BY <2>6, <1>4
    <3>. HIDE DEF u
    <3>. QED BY <1>4, <2>7, <3>1, <3>2, <3>3 DEF Showing
  <2>. HIDE DEF u
  <2>. QED BY <2>7, <2>8, <2>9, <2>10, <2>11 DEF t, r
<1>7. CASE Cached(k, c) = None /\ c \notin plan[k].included
  <2>1. r = b
    BY <1>7 DEF Entered
  <2>2. Touch(b, b, c)
    BY DEF Touch, Books, Bit
  <2>. HIDE DEF r
  <2>3. Showing(b, c)
    <3>1. b.request[c] = "absent" /\ b.member[c].state # "GREEN"
      BY <1>2, <1>3, <1>4, <1>7 DEF Fresh, t
    <3>. QED BY <3>1 DEF Showing
  <2>. QED BY <2>1, <2>2, <2>3 DEF r, t
<1>. QED BY <1>5, <1>6, <1>7

\* A member that goes from missing to the queue makes no difference to the counters of
\* those behind it.
LEMMA QueuedExact ==
  ASSUME NEW k \in Runs, Framed(k), NEW b \in Books, Exact(k, b), NEW c \in Members(k),
         NEW r, Touch(b, r, c),
         \/ r.member[c].state = b.member[c].state
         \/ b.member[c].state = "MISSING" /\ r.member[c].state = "QUEUED"
  PROVE  Exact(k, r)
<1>. DEFINE p == b.member[c].state
            q == r.member[c].state
<1>1. Undone(p, q) = 0 /\ Reddened(p, q) = 0
  BY DEF Undone, Reddened, Bit, Red
<1>2. /\ \A e \in Members(k) :
           /\ Off(k, r, e) = Off(k, b, e) - (IF c \in Gating(k, e) THEN Undone(p, q) ELSE 0)
           /\ OffRed(k, r, e) = OffRed(k, b, e) - (IF c \in Gating(k, e) THEN Reddened(p, q) ELSE 0)
      /\ \A n \in Buckets : OffCount(k, r, n) = OffCount(k, b, n)
  BY TouchOff
<1>. HIDE DEF p, q
<1>3. \A e \in Members(k) : Off(k, b, e) \in Int /\ OffRed(k, b, e) \in Int
  BY OffInt
<1>4. \A e \in Members(k) : Off(k, r, e) = Off(k, b, e) /\ OffRed(k, r, e) = OffRed(k, b, e)
  BY <1>1, <1>2, <1>3
<1>. QED BY <1>2, <1>4 DEF Exact

\* A Run between the insertion of its members and the end of its initialization, with the
\* members from n on still to be entered.
Entering(k, b, order, n) ==
  /\ b \in Books /\ b.run = "QUEUED" /\ Exact(k, b)
  /\ \A c \in Critics : Own(k, b, c)
  /\ \A m \in DOMAIN order : IF m >= n THEN Fresh(k, b, order[m]) ELSE Showing(b, order[m])

LEMMA EnteringFacts ==
  ASSUME Typed, NEW k \in Runs, Framed(k), NEW N \in Nat, NEW order \in [1..N -> Members(k)],
         \A m, n \in 1..N : order[m] = order[n] => m = n,
         NEW n \in 1..N, NEW b, Entering(k, b, order, n)
  PROVE  Entering(k, Entered(b, k, order[n]), order, n + 1)
<1>. DEFINE c == order[n]
            r == Entered(b, k, c)
<1>1. /\ b \in Books /\ Exact(k, b) /\ b.run = "QUEUED" /\ \A e \in Critics : Own(k, b, e)
      /\ Fresh(k, b, c) /\ c \in Members(k) /\ c \in Critics
  BY DEF Entering, Framed
<1>2. /\ Touch(b, r, c) /\ Own(k, r, c) /\ Showing(r, c)
      /\ \/ r.member[c].state = b.member[c].state
         \/ b.member[c].state = "MISSING" /\ r.member[c].state = "QUEUED"
  BY <1>1, EnteredFacts
<1>. HIDE DEF r
<1>3. Exact(k, r)
  <2>. HIDE DEF c
  <2>. QED BY <1>1, <1>2, QueuedExact
<1>4. \A e \in Critics : e # c => r.member[e] = b.member[e] /\ r.request[e] = b.request[e]
  BY <1>2 DEF Touch
<1>5. r \in Books /\ r.run = "QUEUED" /\ r.unmet = b.unmet /\ r.red = b.red
  BY <1>1, <1>2 DEF Touch
<1>6. ASSUME NEW e \in Critics PROVE Own(k, r, e)
  <2>1. CASE e = c
    BY <2>1, <1>2
  <2>2. CASE e # c
    BY <2>2, <1>1, <1>4 DEF Own, SaneAt
  <2>. QED BY <2>1, <2>2
<1>7. ASSUME NEW m \in 1..N, m >= n + 1 PROVE Fresh(k, r, order[m])
  <2>1. order[m] # c /\ order[m] \in Critics /\ m >= n
    BY <1>7 DEF Framed
  <2>2. Fresh(k, b, order[m])
    BY <2>1 DEF Entering
  <2>. QED BY <2>1, <2>2, <1>4, <1>5 DEF Fresh, GateState
<1>8. ASSUME NEW m \in 1..N, ~(m >= n + 1) PROVE Showing(r, order[m])
  <2>1. CASE order[m] = c
    BY <2>1, <1>2
  <2>2. CASE order[m] # c
    <3>1. m # n /\ ~(m >= n) /\ order[m] \in Critics
      BY <1>8, <2>2 DEF Framed
    <3>2. Showing(b, order[m])
      BY <3>1 DEF Entering
    <3>. QED BY <2>2, <3>1, <3>2, <1>4, <1>5 DEF Showing
  <2>. QED BY <2>1, <2>2
<1>. QED BY <1>3, <1>5, <1>6, <1>7, <1>8 DEF Entering, r

\* initialize.
LEMMA InitializedFacts ==
  ASSUME Typed, AllFramed, NEW k \in Runs, Tiered(k), NEW d, Good(d), d[k].run = "absent"
  PROVE  Good(Initialized(d, k)) /\ Remembers(d, Initialized(d, k))
<1>. DEFINE order == SetToSeq(Members(k))
            steps == [n \in DOMAIN order |-> [b \in Books |-> Entered(b, k, order[n])]]
            start == Inserted(d[k], k, Given(k))
            b == Folded(steps, start)
            r == RunUpdated(b)
            e == Initialized(d, k)
            P == {p \in Nat \X Books : Entering(k, p[2], order, p[1] + 1)}
<1>1. d \in Stores /\ d[k] = NoBook /\ Framed(k) /\ \A j \in Runs : Settled(d, j, d[j])
  BY DEF Good, Settled, AllFramed
<1>2. Consistent(k, Given(k))
  BY GivenFacts
<1>3. PICK N \in Nat : /\ order \in [1..N -> Members(k)] /\ Len(order) = N
                       /\ \A x \in Members(k) : \E n \in 1..N : order[n] = x
                       /\ \A m, n \in 1..N : order[m] = order[n] => m = n
  <2>1. IsFiniteSet(Members(k))
    BY <1>1, QueryAssumption, FS_Subset DEF Framed
  <2>. QED BY <2>1, Listed
<1>4. e = [d EXCEPT ![k] = r]
  BY OnceIs DEF Initialized
<1>. HIDE DEF e, r, order
<1>5. /\ start \in Books /\ start.run = "QUEUED" /\ Exact(k, start)
      /\ \A c \in Critics : Own(k, start, c)
      /\ \A c \in Members(k) : Fresh(k, start, c)
  BY <1>1, <1>2, InsertedFacts
<1>. HIDE DEF start
<1>6. DOMAIN order = 1..N
  BY <1>3
<1>7. <<0, start>> \in P
  <2>1. Entering(k, start, order, 1)
    BY <1>3, <1>5, <1>6 DEF Entering
  <2>. QED BY <2>1, <1>5
<1>8. Len(steps) = N /\ \A n \in 1..N, x \in Books : steps[n][x] = Entered(x, k, order[n])
  <2>1. DOMAIN steps = 1..N
    BY <1>6
  <2>2. \A n \in 1..N, x \in Books : steps[n][x] = Entered(x, k, order[n])
    BY <1>6
  <2>. QED BY <2>1, <2>2, <1>3
<1>. HIDE DEF steps
<1>9. ASSUME NEW n \in 1..N, NEW x \in Books, <<n - 1, x>> \in P PROVE <<n, steps[n][x]>> \in P
  <2>1. n \in Nat /\ (n - 1) + 1 = n
    OBVIOUS
  <2>2. Entering(k, x, order, n)
    BY <2>1, <1>9
  <2>3. Entering(k, Entered(x, k, order[n]), order, n + 1)
    BY <1>1, <1>3, <2>2, EnteringFacts
  <2>4. Entering(k, steps[n][x], order, n + 1)
    BY <1>8, <2>3
  <2>5. steps[n][x] \in Books
    BY <2>4 DEF Entering
  <2>. QED BY <2>1, <2>4, <2>5
<1>10. P \in SUBSET (Nat \X Books)
  OBVIOUS
<1>11. <<N, Folded(steps, start)>> \in P
  <2>. HIDE DEF P
  <2>. QED BY <1>3, <1>5, <1>7, <1>8, <1>9, <1>10, FoldFacts
<1>12. /\ b \in Books /\ b.run = "QUEUED" /\ Exact(k, b)
       /\ \A c \in Critics : Own(k, b, c)
       /\ \A n \in 1..N : Showing(b, order[n])
  <2>1. Entering(k, b, order, N + 1)
    BY <1>11
  <2>2. \A n \in 1..N : ~(n >= N + 1)
    OBVIOUS
  <2>. HIDE DEF b
  <2>. QED BY <1>6, <2>1, <2>2 DEF Entering
<1>. HIDE DEF b, P
<1>13. Shows(k, b)
  BY <1>3, <1>12 DEF Shows
<1>14. /\ r \in Books /\ r.run # "absent" /\ Exact(k, r) /\ Busy(k, r)
       /\ r.member = b.member /\ r.request = b.request /\ r.unmet = b.unmet
  BY <1>1, <1>12, RunUpdatedFacts DEF r
<1>15. e \in Stores /\ e[k] = r /\ \A j \in Runs : j # k => e[j] = d[j]
  BY <1>1, <1>4, <1>14 DEF Stores
<1>16. \A q \in Requests : Verdict(d, q) \in Verdicts => Verdict(e, q) = Verdict(d, q)
  <2>1. \A c \in Critics : d[k].request[c] \notin Verdicts
    BY <1>1, Words DEF NoBook
  <2>. QED BY <2>1, <1>15 DEF Requests, Verdict, Home, Of
<1>17. ASSUME NEW j \in Runs, j # k PROVE Settled(e, j, e[j])
  <2>1. Settled(d, j, d[j]) /\ e[j] = d[j] /\ d[j] \in Books
    BY <1>1, <1>15, <1>17 DEF Settled, Fit
  <2>2. \A f \in Critics : d[j].member[f].evidence \in {None} \cup Requests
    BY <2>1 DEF Books
  <2>3. Fit(e, j, d[j])
    BY <1>16, <2>1, <2>2 DEF Settled, Fit, Witnessed
  <2>. QED BY <2>1, <2>3 DEF Settled
<1>18. Settled(e, k, r)
  <2>1. ASSUME NEW c \in Critics PROVE SaneAt(k, r, c) /\ Witnessed(e, r, c)
    <3>1. Own(k, b, c)
      BY <1>12
    <3>2. Own(k, r, c)
      BY <3>1, <1>14 DEF Own, SaneAt
    <3>3. Verdict(e, <<k, c>>) = r.request[c]
      BY <1>15 DEF Verdict, Home, Of
    <3>4. r.member[c].evidence = <<k, c>> /\ r.member[c].evidence # None => r.request[c] \in Verdicts
      BY <3>2 DEF Own, SaneAt
    <3>. QED BY <3>2, <3>3, <3>4 DEF Witnessed, Own
  <2>. QED BY <2>1, <1>13, <1>14, SameShows DEF Settled, Fit
<1>. QED BY <1>15, <1>16, <1>17, <1>18 DEF Good, Remembers, e

-----------------------------------------------------------------------------
(***************************************************************************)
(* The inductive invariant: the plan is the one that was submitted, the    *)
(* cache has verdicts, and every book is settled.                          *)
(***************************************************************************)
ReadinessInv == Typed /\ plan = [k \in Runs |-> AsSubmitted(k)] /\ Good(store)

LEMMA InvFrames ==
  ASSUME plan = [k \in Runs |-> AsSubmitted(k)]
  PROVE  AllFramed /\ \A k \in Runs : Tiered(k)
BY TieredHolds, FramedHolds DEF AllFramed

LEMMA CommitIs ==
  ASSUME NEW d, Commit(d)
  PROVE  store' = d /\ plan' = plan
BY DEF Commit

\* A request without a verdict gets another status, while the Run is about to change too.
LEMMA ResavedFacts ==
  ASSUME AllFramed, NEW d, Good(d), NEW k \in Runs, NEW c \in Critics,
         d[k].request[c] \notin Verdicts \cup {"absent"},
         NEW y, Alike(d[k], y), y.run # "absent", NEW status \in States, status # "absent",
         Admits(k, d[k], c, status)
  PROVE  /\ Good(Saved(Put(d, k, y), <<k, c>>, status))
         /\ Remembers(d, Saved(Put(d, k, y), <<k, c>>, status))
<1>. DEFINE x == Put(d, k, y)
<1>1. d[k].run # "absent"
  BY AbsentIs
<1>2. Harmless(d, k, y)
  BY <1>1, AlikeFacts
<1>. HIDE DEF x
<1>3. x[k].request[c] \notin Verdicts \cup {"absent"}
  BY <1>2 DEF Alike, Harmless, x
<1>4. Good(Saved(x, <<k, c>>, status)) /\ Remembers(x, Saved(x, <<k, c>>, status))
  <2>1. GoodBut(x, k)
    BY <1>2 DEF Harmless, x
  <2>2. Admits(k, x[k], c, status)
    BY <1>2 DEF Alike, Harmless, Admits, Plain, x
  <2>. QED BY <1>3, <2>1, <2>2, SavedFacts
<1>5. Remembers(d, x)
  BY <1>2 DEF Harmless, x
<1>. QED BY <1>4, <1>5, RemembersTrans DEF x

\* A request that is in the queue or runs may get any status.
LEMMA OpenAdmits ==
  ASSUME NEW d, NEW k \in Runs, NEW b, Settled(d, k, b), NEW c \in Critics,
         b.request[c] \in {"QUEUED", "RUNNING"}, NEW status
  PROVE  Admits(k, b, c, status)
<1>1. c \in Members(k)
  BY DEF Settled, Fit, SaneAt
<1>. QED BY <1>1 DEF Settled, Shows, Showing, Admits

\* The worker of a Run comes or goes.
LEMMA WorkerFacts ==
  ASSUME NEW d, Good(d), NEW k \in Runs, NEW w \in {"none", "live", "dead"},
         d[k].run = "absent" => w = "none"
  PROVE  Good([d EXCEPT ![k].worker = w]) /\ Remembers(d, [d EXCEPT ![k].worker = w])
<1>. DEFINE y == [d[k] EXCEPT !.worker = w]
            e == [d EXCEPT ![k].worker = w]
<1>1. d \in Stores /\ d[k] \in Books
  BY DEF Good, Stores
<1>2. e = Put(d, k, y)
  BY <1>1 DEF Stores, Put
<1>3. CASE d[k].run = "absent"
  <2>1. d[k] = NoBook /\ w = "none"
    BY <1>3 DEF Good, Settled
  <2>2. y = d[k]
    BY <2>1 DEF NoBook
  <2>3. e = d
    BY <1>1, <1>2, <2>2 DEF Stores, Put
  <2>. QED BY <2>3 DEF Remembers
<1>4. CASE d[k].run # "absent"
  <2>1. Alike(d[k], y) /\ y.run = d[k].run
    BY <1>1 DEF Alike, Books
  <2>. HIDE DEF y, e
  <2>2. y.run # "absent" /\ (Live(y) => Live(d[k]))
    BY <1>4, <2>1 DEF Live
  <2>3. Harmless(d, k, y)
    BY <1>4, <2>1, <2>2, AlikeFacts
  <2>. QED BY <1>2, <2>2, <2>3 DEF Harmless, e
<1>. QED BY <1>3, <1>4

\* Where verdicts come from is no part of the counters, nor is the status of the Run.
Serving(b, status, served) == [b EXCEPT !.run = status, !.served = served]
LEMMA ServingIs ==
  ASSUME NEW b \in Books, NEW status \in Final \cup {"QUEUED", "RUNNING"}, NEW served \in SUBSET Critics
  PROVE  Alike(b, Serving(b, status, served)) /\ Serving(b, status, served).run = status
BY DEF Alike, Books, Serving

LEMMA InitGood == Init => ReadinessInv
<1>. SUFFICES ASSUME Init PROVE ReadinessInv
  OBVIOUS
<1>1. store = [k \in Runs |-> NoBook] /\ Typed /\ plan = [k \in Runs |-> AsSubmitted(k)]
  BY DEF Init, Typed
<1>2. store \in Stores
  BY <1>1, NoBookIs DEF Stores
<1>3. /\ \A c \in Critics : /\ NoBook.request[c] = "absent" /\ NoBook.member[c].state = "MISSING"
                            /\ NoBook.member[c].request = None /\ NoBook.member[c].evidence = None
      /\ NoBook.run = "absent"
  BY DEF NoBook, Nobody
<1>4. ASSUME NEW k \in Runs PROVE Settled(store, k, store[k])
  <2>1. store[k] = NoBook /\ NoBook \in Books
    BY <1>1, NoBookIs
  <2>2. \A c \in Critics : SaneAt(k, NoBook, c) /\ Witnessed(store, NoBook, c)
    BY <1>3, Words DEF SaneAt, Witnessed
  <2>3. ~Live(NoBook)
    BY <1>3 DEF Live
  <2>4. Shows(k, NoBook)
    <3>1. Members(k) \subseteq Critics
      BY <1>1, InvFrames DEF AllFramed, Framed
    <3>. QED BY <1>3, <3>1 DEF Shows, Showing
  <2>. QED BY <1>3, <2>1, <2>2, <2>3, <2>4 DEF Settled, Fit, Busy
<1>. QED BY <1>1, <1>2, <1>4 DEF ReadinessInv, Good

\* What a step does to the store.
Stepped(d, e) == Good(e) /\ Remembers(d, e)

LEMMA ServedFacts ==
  ASSUME ReadinessInv, NEW k \in Runs, NEW c \in Critics, Live(store[k]),
         store[k].request[c] = "RUNNING", NEW status \in Verdicts \cup {"RUNNING"},
         Commit(Saved([store EXCEPT ![k].served = @ \cup {c}], <<k, c>>, status))
  PROVE  plan' = plan /\ Stepped(store, store')
<1>. DEFINE x == [store EXCEPT ![k].served = @ \cup {c}]
            b == store[k]
            y == Serving(b, b.run, b.served \cup {c})
            e == Saved(x, <<k, c>>, status)
<1>1. Good(store) /\ store \in Stores /\ b \in Books /\ AllFramed
  BY InvFrames DEF ReadinessInv, Good, Stores
<1>2. /\ status \in States /\ status # "absent" /\ "RUNNING" \notin Verdicts \cup {"absent"}
      /\ b.run # "absent"
  BY Words DEF Live, States, Open
<1>3. x = Put(store, k, y) /\ b.served \cup {c} \in SUBSET Critics
  BY <1>1 DEF Stores, Books, Put, Serving
<1>4. Alike(b, y) /\ y.run # "absent"
  <2>1. b.run \in Final \cup {"QUEUED", "RUNNING"}
    BY <1>1, <1>2 DEF Books
  <2>. QED BY <1>1, <1>2, <1>3, <2>1, ServingIs
<1>5. store' = e /\ plan' = plan
  BY CommitIs
<1>. HIDE DEF x, y
<1>6. Admits(k, b, c, status)
  BY <1>1, OpenAdmits DEF Good
<1>7. Good(e) /\ Remembers(store, e)
  BY <1>1, <1>2, <1>3, <1>4, <1>6, ResavedFacts
<1>. QED BY <1>5, <1>7 DEF Stepped

LEMMA ReceiveFacts ==
  ASSUME ReadinessInv, NEW k \in Runs, NEW c \in Critics, Receive(k, c)
  PROVE  Typed' /\ plan' = plan /\ Stepped(store, store')
<1>1. PICK verdict \in IF entries[Target[c]] = None THEN Verdicts ELSE {entries[Target[c]]} :
        /\ entries' = [entries EXCEPT ![Target[c]] = verdict]
        /\ Commit(Saved([store EXCEPT ![k].served = @ \cup {c}], <<k, c>>, verdict))
  BY DEF Receive
<1>2. /\ Target[c] \in Reusable /\ entries \in [Reusable -> {None} \cup Verdicts]
      /\ Live(store[k]) /\ store[k].request[c] = "RUNNING"
  BY DEF Receive, Shares, Serves, ReadinessInv, Typed
<1>3. verdict \in Verdicts
  BY <1>1, <1>2
<1>4. Typed'
  BY <1>1, <1>2, <1>3 DEF Typed
<1>5. plan' = plan /\ Stepped(store, store')
  BY <1>1, <1>2, <1>3, ServedFacts
<1>. QED BY <1>4, <1>5

LEMMA SubscribeFacts ==
  ASSUME ReadinessInv, NEW k \in Runs, NEW c \in Critics, Subscribe(k, c)
  PROVE  Typed' /\ plan' = plan /\ Stepped(store, store')
<1>1. /\ Live(store[k]) /\ store[k].request[c] = "RUNNING" /\ UNCHANGED entries
      /\ Commit(Saved([store EXCEPT ![k].served = @ \cup {c}], <<k, c>>, "RUNNING"))
  BY DEF Subscribe, Serves
<1>2. plan' = plan /\ Stepped(store, store')
  BY <1>1, ServedFacts
<1>. QED BY <1>1, <1>2 DEF Typed, ReadinessInv

LEMMA RetryFacts ==
  ASSUME ReadinessInv, NEW k \in Runs, NEW c \in Critics, Retry(k, c)
  PROVE  Typed' /\ plan' = plan /\ Stepped(store, store')
<1>. DEFINE x == [store EXCEPT ![k].run = "QUEUED", ![k].served = @ \ {c}]
            b == store[k]
            y == Serving(b, "QUEUED", b.served \ {c})
            s == IF store[k].unmet[c] > 0 THEN GateState(store[k], c) ELSE "QUEUED"
            e == Saved(x, <<k, c>>, s)
<1>1. Good(store) /\ store \in Stores /\ b \in Books /\ AllFramed
  BY InvFrames DEF ReadinessInv, Good, Stores
<1>2. b.request[c] = "ERROR" /\ UNCHANGED entries /\ Commit(e)
  BY DEF Retry
<1>3. "ERROR" \notin Verdicts \cup {"absent"}
  BY DEF Verdicts
<1>4. s \in States /\ s # "absent"
  BY GateStateIs, Words DEF States, Open
<1>5. x = Put(store, k, y) /\ b.served \ {c} \in SUBSET Critics
  BY <1>1 DEF Stores, Books, Put, Serving
<1>6. Alike(b, y) /\ y.run # "absent"
  <2>1. Alike(b, y) /\ y.run = "QUEUED"
    BY <1>1, <1>5, ServingIs
  <2>. QED BY <2>1
<1>7. store' = e /\ plan' = plan
  BY <1>2, CommitIs
<1>8. Admits(k, b, c, s)
  <2>1. b.unmet[c] \in Int /\ GateState(b, c) \in Waiting
    BY <1>1, GateStateIs DEF Books
  <2>2. Waiting \cap {"QUEUED", "RUNNING", "GREEN"} = {}
    BY DEF Waiting
  <2>. QED BY <2>1, <2>2 DEF Admits
<1>. HIDE DEF x, y, s
<1>9. Good(e) /\ Remembers(store, e)
  BY <1>1, <1>2, <1>3, <1>4, <1>5, <1>6, <1>8, ResavedFacts
<1>10. Typed'
  BY <1>2 DEF Typed, ReadinessInv
<1>. QED BY <1>7, <1>9, <1>10 DEF Stepped

\* A transaction that gives a request its status.
LEMMA SavingFacts ==
  ASSUME ReadinessInv, NEW k \in Runs, NEW c \in Critics, Live(store[k]),
         store[k].request[c] \in {"QUEUED", "RUNNING"}, NEW status \in Verdicts \cup {"RUNNING", "ERROR"},
         Commit(Saved(store, <<k, c>>, status))
  PROVE  plan' = plan /\ Stepped(store, store')
<1>1. Good(store) /\ AllFramed
  BY InvFrames DEF ReadinessInv
<1>2. store' = Saved(store, <<k, c>>, status) /\ plan' = plan
  BY CommitIs
<1>3. /\ status \in States /\ status # "absent" /\ store[k].request[c] \notin Verdicts \cup {"absent"}
      /\ store[k].run # "absent"
  BY Words DEF Live, States, Open
<1>4. GoodBut(store, k)
  BY <1>1, <1>3, GoodIsBut
<1>5. Admits(k, store[k], c, status)
  BY <1>1, OpenAdmits DEF Good
<1>. QED BY <1>1, <1>2, <1>3, <1>4, <1>5, SavedFacts DEF Stepped

LEMMA WorkerSteps ==
  ASSUME ReadinessInv, NEW k \in Runs, Claim(k) \/ Settle(k) \/ Exit(k)
  PROVE  Typed' /\ plan' = plan /\ Stepped(store, store')
<1>1. Good(store)
  BY DEF ReadinessInv
<1>2. store[k].run # "absent"
  <2>1. store[k].run = "absent" => store[k] = NoBook
    BY <1>1 DEF Good, Settled
  <2>. QED BY <2>1 DEF Claim, Settle, Exit, NoBook, Live
<1>3. PICK w \in {"none", "live", "dead"} : Commit([store EXCEPT ![k].worker = w])
  BY DEF Claim, Settle, Exit
<1>4. Good([store EXCEPT ![k].worker = w]) /\ Remembers(store, [store EXCEPT ![k].worker = w])
  BY <1>1, <1>2, WorkerFacts
<1>5. Typed'
  BY DEF Claim, Settle, Exit, Typed, ReadinessInv
<1>. QED BY <1>3, <1>4, <1>5, CommitIs DEF Stepped

LEMMA ReconcileFacts ==
  ASSUME ReadinessInv, NEW k \in Runs, Reconcile(k)
  PROVE  Typed' /\ plan' = plan /\ Stepped(store, store')
<1>. DEFINE d == Failed(store, k)
            e == [d EXCEPT ![k].worker = "none"]
<1>1. Good(store) /\ AllFramed
  BY InvFrames DEF ReadinessInv
<1>2. Good(d) /\ Remembers(store, d)
  BY <1>1, FailedFacts
<1>3. Commit(e) /\ Typed'
  BY DEF Reconcile, Typed, ReadinessInv
<1>. HIDE DEF d
<1>4. Good(e) /\ Remembers(d, e)
  BY <1>2, WorkerFacts
<1>5. Remembers(store, e)
  BY <1>2, <1>4, RemembersTrans
<1>. QED BY <1>3, <1>4, <1>5, CommitIs DEF Stepped

\* Every step, by the transaction that it is.
LEMMA StepFacts ==
  ASSUME ReadinessInv, Next
  PROVE  Typed' /\ plan' = plan /\ Stepped(store, store')
<1>. DEFINE Goal == Typed' /\ plan' = plan /\ Stepped(store, store')
<1>1. Good(store) /\ AllFramed /\ Typed /\ \A k \in Runs : Tiered(k)
  BY InvFrames DEF ReadinessInv
<1>. HIDE DEF Goal
<1>2. ASSUME NEW k \in Runs, Submit(k) PROVE Goal
  <2>1. store[k].run = "absent" /\ Commit(Initialized(store, k)) /\ UNCHANGED entries
    BY <1>2 DEF Submit
  <2>2. Good(Initialized(store, k)) /\ Remembers(store, Initialized(store, k))
    BY <1>1, <2>1, InitializedFacts
  <2>3. Typed'
    BY <1>1, <2>1 DEF Typed
  <2>. QED BY <2>1, <2>2, <2>3, CommitIs DEF Stepped, Goal
<1>3. ASSUME NEW k \in Runs, Claim(k) \/ Settle(k) \/ Exit(k) PROVE Goal
  BY <1>3, WorkerSteps DEF Goal
<1>4. ASSUME NEW k \in Runs, Reconcile(k) PROVE Goal
  BY <1>4, ReconcileFacts DEF Goal
<1>5. ASSUME NEW k \in Runs, Cancel(k) PROVE Goal
  <2>1. Commit(Failed(store, k)) /\ UNCHANGED entries
    BY <1>5 DEF Cancel
  <2>2. Good(Failed(store, k)) /\ Remembers(store, Failed(store, k))
    BY <1>1, FailedFacts
  <2>3. Typed'
    BY <1>1, <2>1 DEF Typed
  <2>. QED BY <2>1, <2>2, <2>3, CommitIs DEF Stepped, Goal
<1>6. ASSUME NEW k \in Runs, NEW c \in Critics, Begin(k, c) \/ Finish(k, c) \/ Fail(k, c) PROVE Goal
  <2>1. PICK status \in Verdicts \cup {"RUNNING", "ERROR"} :
          /\ Live(store[k]) /\ store[k].request[c] \in {"QUEUED", "RUNNING"}
          /\ Commit(Saved(store, <<k, c>>, status)) /\ UNCHANGED entries
    BY <1>6 DEF Begin, Finish, Fail, Serves
  <2>2. plan' = plan /\ Stepped(store, store')
    BY <2>1, SavingFacts
  <2>3. Typed'
    BY <1>1, <2>1 DEF Typed
  <2>. QED BY <2>2, <2>3 DEF Goal
<1>7. ASSUME NEW k \in Runs, NEW c \in Critics, Subscribe(k, c) PROVE Goal
  BY <1>7, SubscribeFacts DEF Goal
<1>8. ASSUME NEW k \in Runs, NEW c \in Critics, Receive(k, c) PROVE Goal
  BY <1>8, ReceiveFacts DEF Goal
<1>9. ASSUME NEW k \in Runs, NEW c \in Critics, Retry(k, c) PROVE Goal
  BY <1>9, RetryFacts DEF Goal
<1>10. Goal
  BY <1>2, <1>3, <1>4, <1>5, <1>6, <1>7, <1>8, <1>9 DEF Next
<1>. QED BY <1>10 DEF Goal

\* What a good store is depends on the plan only.
LEMMA SameGood ==
  ASSUME plan' = plan, Good(store')
  PROVE  Good(store)'
<1>1. \A k \in Runs : Fit(store', k, store'[k]) /\ Busy(k, store'[k]) /\ Shows(k, store'[k])
  BY DEF Good, Settled
<1>2. \A k \in Runs : Fit(store, k, store[k])'
  BY <1>1 DEF Fit, SaneAt, Witnessed, Members
<1>3. \A k \in Runs : Busy(k, store[k])' /\ Shows(k, store[k])'
  BY <1>1 DEF Busy, Work, Members, Shows, Plain
<1>4. ASSUME NEW k \in Runs, Exact(k, store'[k]) PROVE Exact(k, store[k])'
  BY <1>4 DEF Exact, Off, OffRed, OffCount, Members, Gating, Unreviewed
<1>5. \A k \in Runs : (store[k].run = "absent" => store[k] = NoBook)' /\ (store[k].run # "absent" => Exact(k, store[k]))'
  BY <1>4 DEF Good, Settled
<1>6. store' \in Stores
  BY DEF Good
<1>. QED BY <1>2, <1>3, <1>5, <1>6 DEF Good, Settled

\* For any Runs of any project, in any order of their transactions: the plan of a Run stays
\* the one it was submitted with, evidence is a verdict, and every book is settled.
THEOREM ReadinessInvariant == Spec => []ReadinessInv
<1>1. ReadinessInv /\ [Next]_vars => ReadinessInv'
  <2>. SUFFICES ASSUME ReadinessInv, [Next]_vars PROVE ReadinessInv'
    OBVIOUS
  <2>1. CASE Next
    <3>1. Typed' /\ plan' = plan /\ Good(store')
      BY <2>1, StepFacts DEF Stepped
    <3>2. Good(store)'
      BY <3>1, SameGood
    <3>. QED BY <3>1, <3>2 DEF ReadinessInv, AsSubmitted
  <2>2. CASE UNCHANGED vars
    <3>1. store' = store /\ entries' = entries /\ plan' = plan
      BY <2>2 DEF vars
    <3>2. Good(store)'
      BY <3>1, SameGood DEF ReadinessInv
    <3>. QED BY <3>1, <3>2 DEF ReadinessInv, Typed, AsSubmitted
  <2>. QED BY <2>1, <2>2
<1>. QED BY InitGood, <1>1, PTL DEF Spec

-----------------------------------------------------------------------------
\* propagate, changeCount and updateRun: after any transactions the counters that are moved
\* by differences are what counting the members would give, but red may be too high.
THEOREM CountersAreExact == Spec => []CountersExact
<1>1. ReadinessInv => CountersExact
  <2>. SUFFICES ASSUME ReadinessInv, NEW k \in Submitted PROVE
         /\ \A c \in Members(k) :
              /\ store[k].unmet[c] = Cardinality({e \in Gating(k, c) : store[k].member[e].state # "GREEN"})
              /\ store[k].red[c] >= Cardinality({e \in Gating(k, c) : Red(store[k].member[e].state)})
         /\ \A n \in Buckets : store[k].counts[n] =
              Cardinality({c \in Members(k) : Bucket(store[k].member[c].state) = n})
              + IF n = "missing" THEN Cardinality(Unreviewed(k)) ELSE 0
    BY DEF CountersExact
  <2>. DEFINE b == store[k]
              more(n) == IF n = "missing" THEN Cardinality(Unreviewed(k)) ELSE 0
  <2>1. k \in Runs /\ Framed(k) /\ Tiered(k) /\ b \in Books /\ Exact(k, b)
    BY InvFrames DEF ReadinessInv, Submitted, Good, Settled, Fit, AllFramed
  <2>2. IsFiniteSet(Critics) /\ \A A \in SUBSET Critics : Cardinality(A) \in Nat
    BY QueryAssumption, FS_Subset, FS_CardinalityType
  <2>3. \A n : more(n) \in Nat
    <3>1. IsFiniteSet(Artifacts) /\ Unreviewed(k) \subseteq Artifacts
      BY <2>1, QueryAssumption DEF Unreviewed, Tiered
    <3>. QED BY <3>1, FS_Subset, FS_CardinalityType
  <2>. HIDE DEF b, more
  <2>4. ASSUME NEW c \in Members(k)
        PROVE  /\ b.unmet[c] = Cardinality({e \in Gating(k, c) : b.member[e].state # "GREEN"})
               /\ b.red[c] >= Cardinality({e \in Gating(k, c) : Red(b.member[e].state)})
    <3>. DEFINE A == {e \in Gating(k, c) : b.member[e].state # "GREEN"}
                R == {e \in Gating(k, c) : Red(b.member[e].state)}
    <3>1. A \in SUBSET Critics /\ R \in SUBSET Critics /\ c \in Critics
      BY <2>1 DEF Framed
    <3>2. b.unmet[c] - Cardinality(A) = 0 /\ b.red[c] - Cardinality(R) >= 0
      BY <2>1 DEF Exact, Off, OffRed
    <3>. HIDE DEF A, R
    <3>3. b.unmet[c] \in Int /\ b.red[c] \in Int /\ Cardinality(A) \in Nat /\ Cardinality(R) \in Nat
      BY <2>1, <2>2, <3>1 DEF Books
    <3>4. b.unmet[c] = Cardinality(A) /\ b.red[c] >= Cardinality(R)
      BY <3>2, <3>3
    <3>. QED BY <3>4 DEF A, R
  <2>5. ASSUME NEW n \in Buckets
        PROVE  b.counts[n] = Cardinality({c \in Members(k) : Bucket(b.member[c].state) = n}) + more(n)
    <3>. DEFINE A == {c \in Members(k) : Bucket(b.member[c].state) = n}
    <3>1. A \in SUBSET Critics
      BY <2>1 DEF Framed
    <3>2. b.counts[n] - Cardinality(A) = more(n)
      BY <2>1 DEF Exact, OffCount, more
    <3>. HIDE DEF A
    <3>3. b.counts[n] \in Int /\ Cardinality(A) \in Nat /\ more(n) \in Nat
      BY <2>1, <2>2, <2>3, <3>1 DEF Books
    <3>4. b.counts[n] = Cardinality(A) + more(n)
      BY <3>2, <3>3
    <3>. QED BY <3>4 DEF A
  <2>. QED BY <2>4, <2>5 DEF b, more
<1>. QED BY <1>1, ReadinessInvariant, PTL

\* "Run has no executable request or pending Human review" is never thrown: the counters
\* are of members, and a member in the queue or running has a request that is too.
THEOREM ThereIsAlwaysWork == Spec => []AlwaysWork
<1>1. ReadinessInv => AlwaysWork
  <2>. SUFFICES ASSUME ReadinessInv, NEW k \in Runs, Live(store[k])
                PROVE  \E c \in Critics : store[k].request[c] \in {"QUEUED", "RUNNING"}
    BY DEF AlwaysWork, Serves
  <2>1. Settled(store, k, store[k]) /\ Framed(k)
    BY InvFrames DEF ReadinessInv, Good, AllFramed
  <2>2. PICK c \in Members(k) : store[k].member[c].state \in {"QUEUED", "RUNNING"}
    BY <2>1 DEF Settled, Busy, Work
  <2>3. c \in Critics /\ SaneAt(k, store[k], c)
    BY <2>1 DEF Settled, Fit, Framed
  <2>. QED BY <2>2, <2>3 DEF SaneAt
<1>. QED BY <1>1, ReadinessInvariant, PTL

\* saveHeader, failWithin, gateMember and retryRequest: no transaction, of whatever Run,
\* takes back or changes the verdict of a request.
THEOREM VerdictsStay == Spec => [][Remembers(store, store')]_vars
<1>1. ReadinessInv /\ [Next]_vars => [Remembers(store, store')]_vars
  BY StepFacts DEF Stepped
<1>. QED BY <1>1, ReadinessInvariant, PTL DEF Spec

-----------------------------------------------------------------------------
\* What a critic may be by itself, and shown as.
Shade == Attempting \cup {"ERROR", "PASS", "RED", "STALE", "UNREVIEWED"}
Shades == [Critics -> Shade]

\* Some that a gate waits for have not passed.
Stops(status, gate) == \E e \in gate.needs : status[e] # "PASS"

\* What one gate changes.
LEMMA GatedFacts ==
  ASSUME NEW status \in Shades, NEW gate
  PROVE  /\ Gated(status, gate) \in Shades
         /\ \A c \in Critics : IF c \in gate.critics /\ Stops(status, gate)
                               THEN Gated(status, gate)[c] # "PASS"
                               ELSE Gated(status, gate)[c] = status[c]
<1>. DEFINE unmet == {status[e] : e \in gate.needs} \ {"PASS"}
            held == IF unmet \cap {"RED", "BLOCKED"} # {} THEN "BLOCKED" ELSE "WAIT_DEPENDENCY"
            f == [c \in Critics |-> IF c \in gate.critics THEN held ELSE status[c]]
<1>1. Gated(status, gate) = IF unmet = {} THEN status ELSE f
  BY OnceIs DEF Gated
<1>2. held \in {"BLOCKED", "WAIT_DEPENDENCY"}
  BY Zenon
<1>3. unmet = {} <=> ~Stops(status, gate)
  BY DEF Stops
<1>. HIDE DEF unmet, held
<1>4. held \in Shade /\ held # "PASS"
  BY <1>2 DEF Shade, Attempting
<1>5. f \in Shades /\ \A c \in Critics : f[c] = IF c \in gate.critics THEN held ELSE status[c]
  BY <1>4 DEF Shades
<1>. HIDE DEF f
<1>. QED BY <1>1, <1>3, <1>4, <1>5

\* The pass over the gates is an iteration.
LEMMA PassedSteps ==
  ASSUME NEW own \in Shades, NEW gates, Len(gates) \in Nat
  PROVE  \E after \in [0..Len(gates) -> Shades] :
           /\ after[0] = own /\ after[Len(gates)] = Passed(own, gates)
           /\ \A n \in 1..Len(gates) : after[n] = Gated(after[n - 1], gates[n])
<1>. DEFINE N == Len(gates)
            step == [n \in Nat |-> [s \in Shades |-> Gated(s, gates[n])]]
            Rec(h) == h = [n \in 0..N |-> IF n = 0 THEN own ELSE Gated(h[n - 1], gates[n])]
            after == CHOOSE h : Rec(h)
<1>1. step \in Steps(Shades)
  BY GatedFacts DEF Steps
<1>2. PICK f : f \in [Nat -> Shades] /\ f[0] = own /\ \A n \in Nat : f[n + 1] = step[n + 1][f[n]]
  <2>. HIDE DEF step
  <2>1. PICK f : Iterated(f, Shades, own, step)
    BY <1>1, Iterates, Zenon
  <2>. QED BY <2>1 DEF Iterated
<1>3. ASSUME NEW n \in 1..N
      PROVE  n - 1 \in 0..N /\ f[n - 1] \in Shades /\ f[n] = Gated(f[n - 1], gates[n])
  <2>1. n - 1 \in Nat /\ (n - 1) + 1 = n /\ n \in Nat
    OBVIOUS
  <2>2. f[n - 1] \in Shades /\ f[n] = step[n][f[n - 1]]
    <3>. HIDE DEF step
    <3>. QED BY <2>1, <1>2
  <2>3. step[n] = [s \in Shades |-> Gated(s, gates[n])]
    BY <2>1
  <2>. QED BY <2>1, <2>2, <2>3
<1>4. Rec([n \in 0..N |-> f[n]])
  <2>1. ASSUME NEW n \in 0..N, n # 0 PROVE f[n] = Gated(f[n - 1], gates[n]) /\ n - 1 \in 0..N
    BY <1>3, <2>1
  <2>. QED BY <2>1, <1>2
<1>5. Rec(after)
  <2>. HIDE DEF Rec
  <2>. QED BY <1>4
<1>6. Passed(own, gates) = after[N]
  BY DEF Passed
<1>. HIDE DEF after
<1>7. after[0] = own /\ \A n \in 1..N : after[n] = Gated(after[n - 1], gates[n])
  BY <1>5
<1>8. \A n \in Nat : n <= N => after[n] = f[n]
  <2>. DEFINE T == {n \in Nat : n <= N => after[n] = f[n]}
  <2>1. 0 \in T
    BY <1>2, <1>7
  <2>2. ASSUME NEW n \in T PROVE n + 1 \in T
    <3>1. CASE n + 1 <= N
      <4>1. n + 1 \in 1..N /\ (n + 1) - 1 = n /\ after[n] = f[n]
        BY <3>1
      <4>. QED BY <4>1, <1>3, <1>7
    <3>. QED BY <3>1
  <2>3. T \in SUBSET Nat
    OBVIOUS
  <2>. HIDE DEF T
  <2>4. T = Nat
    BY <2>1, <2>2, <2>3, NatSet
  <2>. QED BY <2>4 DEF T
<1>9. [n \in 0..N |-> f[n]] \in [0..N -> Shades] /\ f[0] = own /\ f[N] = Passed(own, gates)
  BY <1>2, <1>6, <1>8
<1>. DEFINE g == [n \in 0..N |-> f[n]]
<1>10. g[0] = own /\ g[N] = Passed(own, gates) /\ \A n \in 1..N : g[n] = Gated(g[n - 1], gates[n])
  BY <1>3, <1>9
<1>. QED BY <1>9, <1>10

\* The gates of the members M are of members, and in the order of their ranks.
Ranked(gates, rank, M) ==
  /\ Len(gates) \in Nat /\ DOMAIN gates = 1..Len(gates)
  /\ M \in SUBSET Critics /\ rank \in [Critics -> 0..Len(gates)]
  /\ \A c \in Critics : \A n \in DOMAIN gates : c \in gates[n].critics <=> rank[c] = n
  /\ \A c \in M : rank[c] # 0 =>
       gates[rank[c]].needs \subseteq M /\ \A e \in gates[rank[c]].needs : rank[e] < rank[c]

\* G are those of M that passed by themselves and wait for nobody outside of G.
Earned(own, gates, rank, M, G) ==
  \A c \in M : c \in G <=> own[c] = "PASS" /\ (rank[c] # 0 => gates[rank[c]].needs \subseteq G)

\* Then one pass over the gates shows that they are the ones that passed.
LEMMA PassFacts ==
  ASSUME NEW own \in Shades, NEW gates, NEW rank, NEW M, NEW G,
         Ranked(gates, rank, M), Earned(own, gates, rank, M, G)
  PROVE  \A c \in M : Passed(own, gates)[c] = "PASS" <=> c \in G
<1>. DEFINE N == Len(gates)
<1>1. /\ N \in Nat /\ DOMAIN gates = 1..N /\ M \in SUBSET Critics /\ rank \in [Critics -> 0..N]
      /\ \A c \in Critics : \A n \in DOMAIN gates : c \in gates[n].critics <=> rank[c] = n
      /\ \A c \in M : rank[c] # 0 =>
           gates[rank[c]].needs \subseteq M /\ \A e \in gates[rank[c]].needs : rank[e] < rank[c]
      /\ \A c \in M : c \in G <=> own[c] = "PASS" /\ (rank[c] # 0 => gates[rank[c]].needs \subseteq G)
  BY DEF Ranked, Earned
<1>2. PICK after \in [0..N -> Shades] :
        /\ after[0] = own /\ after[N] = Passed(own, gates)
        /\ \A n \in 1..N : after[n] = Gated(after[n - 1], gates[n])
  BY <1>1, PassedSteps
<1>. DEFINE SoFar(n) == \A c \in M : IF rank[c] <= n THEN after[n][c] = "PASS" <=> c \in G
                                     ELSE after[n][c] = own[c]
            T == {n \in Nat : n <= N => SoFar(n)}
<1>3. 0 \in T
  <2>1. ASSUME NEW c \in M, rank[c] <= 0 PROVE own[c] = "PASS" <=> c \in G
    <3>1. rank[c] = 0
      BY <2>1, <1>1
    <3>. QED BY <3>1, <1>1
  <2>. QED BY <2>1, <1>2
<1>4. ASSUME NEW n \in T PROVE n + 1 \in T
  <2>. SUFFICES ASSUME n + 1 <= N, NEW c \in M
                PROVE  IF rank[c] <= n + 1 THEN after[n + 1][c] = "PASS" <=> c \in G
                       ELSE after[n + 1][c] = own[c]
    OBVIOUS
  <2>1. n \in Nat /\ n \in 0..N /\ n + 1 \in 1..N /\ (n + 1) - 1 = n /\ SoFar(n) /\ c \in Critics
    BY <1>1
  <2>2. rank[c] \in Nat
    BY <2>1, <1>1
  <2>3. after[n + 1] = Gated(after[n], gates[n + 1]) /\ after[n] \in Shades
    BY <2>1, <1>2
  <2>. DEFINE gate == gates[n + 1]
  <2>4. IF c \in gate.critics /\ Stops(after[n], gate) THEN after[n + 1][c] # "PASS"
        ELSE after[n + 1][c] = after[n][c]
    <3>. HIDE DEF SoFar
    <3>1. \A e \in Critics : IF e \in gate.critics /\ Stops(after[n], gate)
                             THEN Gated(after[n], gate)[e] # "PASS"
                             ELSE Gated(after[n], gate)[e] = after[n][e]
      BY <2>3, GatedFacts
    <3>. HIDE DEF gate
    <3>2. c \in Critics
      BY <2>1
    <3>3. after[n + 1] = Gated(after[n], gate)
      BY <2>3 DEF gate
    <3>. QED BY <3>1, <3>2, <3>3
  <2>5. c \in gate.critics <=> rank[c] = n + 1
    BY <2>1, <1>1
  <2>6. CASE rank[c] # n + 1
    BY <2>1, <2>2, <2>4, <2>5, <2>6
  <2>7. CASE rank[c] = n + 1
    <3>1. after[n][c] = own[c]
      BY <2>1, <2>7
    <3>2. ASSUME NEW e \in gate.needs PROVE after[n][e] = "PASS" <=> e \in G
      <4>1. rank[c] # 0 /\ gates[rank[c]] = gate
        BY <2>1, <2>7
      <4>2. e \in M /\ rank[e] < rank[c]
        BY <4>1, <1>1
      <4>3. rank[e] <= n
        BY <4>2, <2>1, <2>7, <1>1
      <4>. QED BY <4>2, <4>3, <2>1
    <3>3. Stops(after[n], gate) <=> ~(gate.needs \subseteq G)
      BY <3>2 DEF Stops
    <3>4. c \in G <=> own[c] = "PASS" /\ gate.needs \subseteq G
      BY <2>1, <2>7, <1>1
    <3>. HIDE DEF gate
    <3>. QED BY <2>4, <2>5, <2>7, <3>1, <3>3, <3>4
  <2>. QED BY <2>6, <2>7
<1>5. T \in SUBSET Nat
  OBVIOUS
<1>6. N \in T
  <2>. HIDE DEF T
  <2>1. T = Nat
    BY <1>3, <1>4, <1>5, NatSet
  <2>. QED BY <2>1, <1>1
<1>7. SoFar(N) /\ \A c \in M : rank[c] <= N
  BY <1>1, <1>6
<1>. QED BY <1>2, <1>7

-----------------------------------------------------------------------------
\* The query a reader of a Run makes, and the rows it finds.
RowOf(k, q) ==
  [critic |-> Of(q), identity |-> Target[Of(q)], verdict |-> Verdict(store, q),
   own |-> Home(q) = k, lookup |-> FALSE]
Found(k) == {store[k].member[c].evidence : c \in Members(k)} \ {None}
Asking(k) ==
  [gates |-> plan[k].gates, rel |-> Rel, required |-> plan[k].required,
   identity |-> [c \in Critics |-> IF Target[c] \in Reusable THEN Target[c] ELSE None],
   history |-> [n \in DOMAIN SetToSeq(Found(k)) |-> RowOf(k, SetToSeq(Found(k))[n])],
   attempt |-> [c \in Critics |-> IF store[k].request[c] = "absent" THEN None ELSE store[k].request[c]],
   forced |-> plan[k].forced]

LEMMA StoredIs == \A k : Stored(k) = Query(Asking(k))
BY DEF Stored, Asking, RowOf, Found

\* The rows are the verdicts of the Run's own requests, one for each member that has one.
LEMMA RowFacts ==
  ASSUME ReadinessInv, NEW k \in Runs, Imports(k) = {}
  PROVE  LET history == Asking(k).history
         IN  \E N \in Nat :
               /\ DOMAIN history = 1..N
               /\ \A n \in 1..N : ~history[n].lookup
               /\ \A n \in 1..N : \E c \in Members(k) :
                    /\ store[k].member[c].evidence = <<k, c>>
                    /\ history[n].own /\ history[n].critic = c
                    /\ history[n].verdict = store[k].request[c]
               /\ \A c \in Members(k) : store[k].member[c].evidence # None =>
                    \E n \in 1..N : history[n].critic = c
<1>. DEFINE rows == SetToSeq(Found(k))
            history == Asking(k).history
<1>1. Members(k) \subseteq Critics /\ IsFiniteSet(Members(k))
  BY InvFrames, QueryAssumption, FS_Subset DEF ReadinessInv, AllFramed, Framed
<1>2. IsFiniteSet(Found(k))
  <2>1. IsFiniteSet({k} \X Members(k))
    BY <1>1, FS_Singleton, FS_Product
  <2>2. Found(k) \subseteq {k} \X Members(k)
    BY DEF Found, Imports
  <2>. QED BY <2>1, <2>2, FS_Subset
<1>3. PICK N \in Nat : /\ rows \in [1..N -> Found(k)]
                       /\ \A q \in Found(k) : \E n \in 1..N : rows[n] = q
  BY <1>2, Listed
<1>4. history = [n \in DOMAIN rows |-> RowOf(k, rows[n])]
  BY DEF Asking
<1>. HIDE DEF rows, history
<1>5. DOMAIN history = 1..N /\ \A n \in 1..N : history[n] = RowOf(k, rows[n])
  BY <1>3, <1>4
<1>6. ASSUME NEW n \in 1..N, NEW c \in Members(k), rows[n] = <<k, c>>
      PROVE  /\ history[n].own /\ ~history[n].lookup
             /\ history[n].critic = c /\ history[n].verdict = store[k].request[c]
  <2>1. history[n] = RowOf(k, <<k, c>>)
    BY <1>5, <1>6
  <2>2. Of(<<k, c>>) = c /\ Home(<<k, c>>) = k /\ Verdict(store, <<k, c>>) = store[k].request[c]
    BY DEF Of, Home, Verdict
  <2>3. RowOf(k, <<k, c>>).own
    <3>1. RowOf(k, <<k, c>>).own = (Home(<<k, c>>) = k)
      BY Zenon DEF RowOf
    <3>. QED BY <3>1, <2>2, Zenon
  <2>4. ~RowOf(k, <<k, c>>).lookup
    <3>1. RowOf(k, <<k, c>>).lookup = FALSE
      BY Zenon DEF RowOf
    <3>. QED BY <3>1, Zenon
  <2>5. /\ RowOf(k, <<k, c>>).critic = Of(<<k, c>>)
        /\ RowOf(k, <<k, c>>).verdict = Verdict(store, <<k, c>>)
    BY Zenon DEF RowOf
  <2>. QED BY <2>1, <2>2, <2>3, <2>4, <2>5, Zenon
<1>7. \A c \in Members(k) : store[k].member[c].evidence \in {None, <<k, c>>}
  BY DEF Imports
<1>8. ASSUME NEW n \in 1..N
      PROVE  \E c \in Members(k) : store[k].member[c].evidence = <<k, c>> /\ rows[n] = <<k, c>>
  <2>1. rows[n] \in Found(k)
    BY <1>3
  <2>. HIDE DEF rows
  <2>. QED BY <2>1, <1>7 DEF Found
<1>9. ASSUME NEW n \in 1..N
      PROVE  \E c \in Members(k) : /\ store[k].member[c].evidence = <<k, c>>
                                   /\ history[n].own /\ history[n].critic = c /\ ~history[n].lookup
                                   /\ history[n].verdict = store[k].request[c]
  <2>1. PICK c \in Members(k) : store[k].member[c].evidence = <<k, c>> /\ rows[n] = <<k, c>>
    BY <1>8
  <2>. QED BY <2>1, <1>6
<1>10. ASSUME NEW c \in Members(k), store[k].member[c].evidence # None
       PROVE  \E n \in 1..N : history[n].critic = c
  <2>1. <<k, c>> \in Found(k)
    <3>1. store[k].member[c].evidence = <<k, c>>
      BY <1>7, <1>10
    <3>. QED BY <3>1, <1>10 DEF Found
  <2>2. PICK n \in 1..N : rows[n] = <<k, c>>
    BY <2>1, <1>3
  <2>. QED BY <2>2, <1>6
<1>11. \A n \in 1..N : ~history[n].lookup
  BY <1>9
<1>12. \A n \in 1..N : \E c \in Members(k) :
         /\ store[k].member[c].evidence = <<k, c>>
         /\ history[n].own /\ history[n].critic = c /\ history[n].verdict = store[k].request[c]
  BY <1>9
<1>13. DOMAIN history = 1..N
  BY <1>5
<1>. QED BY <1>10, <1>11, <1>12, <1>13 DEF history

\* A set of places that is not empty has a last one.
LEMMA MaxIn ==
  ASSUME NEW N \in Nat, NEW S \in SUBSET (1..N), S # {}
  PROVE  Max(S) \in S
<1>. DEFINE T == {N - x : x \in S}
<1>1. T \in SUBSET Nat /\ T # {}
  <2>1. \A x \in S : N - x \in Nat
    OBVIOUS
  <2>. QED BY <2>1
<1>2. PICK m \in T : \A n \in T : m <= n
  BY <1>1, LeastNat
<1>3. PICK x \in S : m = N - x
  OBVIOUS
<1>4. ASSUME NEW y \in S PROVE x >= y
  <2>1. N - y \in T /\ x \in Nat /\ y \in Nat
    OBVIOUS
  <2>. QED BY <2>1, <1>2, <1>3
<1>. QED BY <1>4 DEF Max

\* What passes by itself is what has a GREEN verdict of its own.
LEMMA OwnPasses ==
  ASSUME ReadinessInv, NEW k \in Runs, Imports(k) = {}, NEW c \in Critics
  PROVE  /\ OwnStatus(Asking(k), c) \in Shade
         /\ c \in Members(k) => (OwnStatus(Asking(k), c) = "PASS" <=> store[k].request[c] = "GREEN")
<1>. DEFINE q == Asking(k)
            places == {n \in DOMAIN q.history : q.history[n].own /\ q.history[n].critic = c}
            others == {n \in DOMAIN q.history : q.history[n].lookup /\ q.history[n].identity = q.identity[c]}
            found == Latest(q.history, places)
<1>1. Evidence(q, c) = IF found # None \/ q.identity[c] = None \/ c \in q.forced THEN found
                       ELSE Latest(q.history, others)
  BY DEF Evidence
<1>2. PICK N \in Nat :
        /\ DOMAIN q.history = 1..N
        /\ \A n \in 1..N : ~q.history[n].lookup
        /\ \A n \in 1..N : \E e \in Members(k) :
             /\ store[k].member[e].evidence = <<k, e>>
             /\ q.history[n].own /\ q.history[n].critic = e
             /\ q.history[n].verdict = store[k].request[e]
        /\ \A e \in Members(k) : store[k].member[e].evidence # None =>
             \E n \in 1..N : q.history[n].critic = e
  BY RowFacts
<1>3. q.attempt[c] = IF store[k].request[c] = "absent" THEN None ELSE store[k].request[c]
  BY DEF Asking
<1>. HIDE DEF q
<1>4. others = {} /\ places \in SUBSET (1..N)
  BY <1>2
<1>5. Latest(q.history, others) = None
  BY <1>4 DEF Latest
<1>6. Evidence(q, c) = found
  BY <1>1, <1>5
<1>7. places # {} => found = store[k].request[c]
  <2>. SUFFICES ASSUME places # {} PROVE found = store[k].request[c]
    OBVIOUS
  <2>1. Max(places) \in places
    BY <1>4, MaxIn
  <2>2. found = q.history[Max(places)].verdict
    BY DEF Latest
  <2>3. Max(places) \in 1..N /\ q.history[Max(places)].critic = c
    BY <2>1, <1>4
  <2>. HIDE DEF found, places
  <2>. QED BY <2>2, <2>3, <1>2
<1>8. places = {} => found = None
  BY DEF Latest
<1>9. SaneAt(k, store[k], c) /\ store[k].member[c].request \in {None, <<k, c>>}
  BY DEF ReadinessInv, Good, Settled, Fit, SaneAt
<1>10. c \in Members(k) /\ store[k].request[c] \in Verdicts => places # {}
  <2>1. store[k].request[c] \in Verdicts => store[k].member[c].evidence # None
    BY <1>9, Words DEF SaneAt
  <2>. QED BY <2>1, <1>2
<1>. HIDE DEF places, others, found
<1>11. OwnStatus(q, c) \in Shade
  BY DEF OwnStatus, Shade
<1>12. ASSUME c \in Members(k) PROVE OwnStatus(q, c) = "PASS" <=> store[k].request[c] = "GREEN"
  <2>1. CASE store[k].request[c] = "GREEN"
    <3>1. found = "GREEN" /\ q.attempt[c] = "GREEN"
      BY <1>3, <1>7, <1>10, <1>12, <2>1 DEF Verdicts
    <3>. QED BY <3>1, <2>1, <1>6 DEF OwnStatus, Attempting
  <2>2. CASE store[k].request[c] # "GREEN"
    <3>1. found # "GREEN"
      BY <2>2, <1>7, <1>8, NoneAssumption
    <3>2. OwnStatus(q, c) # "PASS"
      BY <3>1, <1>6 DEF OwnStatus, Attempting
    <3>. QED BY <3>2, <2>2
  <2>. QED BY <2>1, <2>2
<1>. QED BY <1>11, <1>12 DEF q

\* The members that are GREEN are those with a GREEN verdict behind GREEN members.
LEMMA GreenFacts ==
  ASSUME ReadinessInv, NEW k \in Submitted, Imports(k) = {}, NEW c \in Members(k)
  PROVE  store[k].member[c].state = "GREEN" <=>
           /\ store[k].request[c] = "GREEN"
           /\ \A e \in Gating(k, c) : store[k].member[e].state = "GREEN"
<1>. DEFINE b == store[k]
            A == {e \in Gating(k, c) : b.member[e].state # "GREEN"}
<1>1. /\ Settled(store, k, b) /\ Exact(k, b) /\ b \in Books /\ Framed(k) /\ Plain(k, b)
  BY InvFrames DEF ReadinessInv, Submitted, Good, Settled, Fit, AllFramed, Imports, Plain
<1>2. Showing(b, c) /\ Off(k, b, c) = 0
  BY <1>1 DEF Settled, Shows, Exact
<1>3. b.unmet[c] - Cardinality(A) = 0
  BY <1>2 DEF Off
<1>4. IsFiniteSet(Critics) /\ c \in Critics /\ A \subseteq Critics
  BY <1>1, QueryAssumption DEF Framed
<1>5. A = {} <=> \A e \in Gating(k, c) : b.member[e].state = "GREEN"
  OBVIOUS
<1>. HIDE DEF A
<1>6. IsFiniteSet(A) /\ Cardinality(A) \in Nat /\ (Cardinality(A) = 0 <=> A = {})
  BY <1>4, FS_Subset, FS_CardinalityType, FS_EmptySet
<1>7. b.unmet[c] \in Int
  BY <1>1, <1>4 DEF Books
<1>8. b.unmet[c] <= 0 <=> A = {}
  BY <1>3, <1>6, <1>7
<1>9. b.member[c].state = "GREEN" <=> b.request[c] = "GREEN" /\ b.unmet[c] <= 0
  BY <1>2 DEF Showing
<1>. QED BY <1>5, <1>8, <1>9 DEF b

\* A Run is decided as GREEN if every member is, and everything it is about is reviewed.
LEMMA DecidedFacts ==
  ASSUME ReadinessInv, NEW k \in Submitted
  PROVE  RunStatus(store[k].counts) = "GREEN" <=>
           Unreviewed(k) = {} /\ \A c \in Members(k) : store[k].member[c].state = "GREEN"
<1>. DEFINE b == store[k]
            In(n) == {c \in Members(k) : Bucket(b.member[c].state) = n}
            Bad == {"queued", "running", "errors", "red", "missing"}
<1>1. Exact(k, b) /\ b \in Books /\ Framed(k) /\ Tiered(k)
  BY InvFrames DEF ReadinessInv, Submitted, Good, Settled, Fit, AllFramed
<1>2. IsFiniteSet(Critics) /\ IsFiniteSet(Artifacts) /\ Unreviewed(k) \subseteq Artifacts
  BY <1>1, QueryAssumption DEF Unreviewed, Tiered
<1>3. /\ Cardinality(Unreviewed(k)) \in Nat
      /\ Cardinality(Unreviewed(k)) = 0 <=> Unreviewed(k) = {}
  BY <1>2, FS_Subset, FS_CardinalityType, FS_EmptySet
<1>4. \A n : In(n) \subseteq Critics
  BY <1>1 DEF Framed
<1>5. \A n \in Bad : b.counts[n] - Cardinality(In(n)) = IF n = "missing" THEN Cardinality(Unreviewed(k)) ELSE 0
  BY <1>1 DEF Exact, OffCount, Buckets
<1>6. RunStatus(b.counts) = "GREEN" <=> \A n \in Bad : ~(b.counts[n] > 0)
  BY DEF RunStatus
<1>7. \A c \in Members(k) : (\A n \in Bad : c \notin In(n)) <=> b.member[c].state = "GREEN"
  BY DEF Bucket
<1>8. \A n \in Bad : b.counts[n] \in Int
  BY <1>1 DEF Books, Buckets
<1>9. (\A n \in Bad : In(n) = {}) <=> \A c \in Members(k) : b.member[c].state = "GREEN"
  BY <1>7
<1>. HIDE DEF In
<1>10. \A n \in Bad : Cardinality(In(n)) \in Nat /\ (Cardinality(In(n)) = 0 <=> In(n) = {})
  BY <1>2, <1>4, FS_Subset, FS_CardinalityType, FS_EmptySet
<1>11. ASSUME NEW n \in Bad
       PROVE  ~(b.counts[n] > 0) <=> In(n) = {} /\ (n = "missing" => Unreviewed(k) = {})
  <2>1. /\ b.counts[n] \in Int /\ Cardinality(In(n)) \in Nat /\ (Cardinality(In(n)) = 0 <=> In(n) = {})
        /\ b.counts[n] - Cardinality(In(n)) = IF n = "missing" THEN Cardinality(Unreviewed(k)) ELSE 0
    BY <1>5, <1>8, <1>10
  <2>. HIDE DEF b
  <2>. QED BY <2>1, <1>3
<1>12. "missing" \in Bad
  OBVIOUS
<1>. HIDE DEF Bad
<1>. QED BY <1>6, <1>9, <1>11, <1>12 DEF b

\* queryProject and the transactions: what a reader of a Run is shown, computed anew from
\* the verdicts that are stored, is what the Run's own members, counters and status say.
THEOREM ViewsAgree == Spec => []ViewAgrees
<1>1. ReadinessInv => ViewAgrees
  <2>. SUFFICES ASSUME ReadinessInv, NEW k \in Submitted, Imports(k) = {}
                PROVE  /\ \A c \in Members(k) :
                            Stored(k).status[c] = "PASS" <=> store[k].member[c].state = "GREEN"
                       /\ Stored(k).satisfied <=> RunStatus(store[k].counts) = "GREEN"
    BY OnceIs DEF ViewAgrees
  <2>. DEFINE q == Asking(k)
              own == [c \in Critics |-> OwnStatus(q, c)]
              gates == plan[k].gates
              M == Members(k)
              G == {c \in M : store[k].member[c].state = "GREEN"}
  <2>1. k \in Runs /\ Tiered(k)
    BY InvFrames DEF ReadinessInv, Submitted
  <2>2. /\ q.gates = gates /\ q.required = plan[k].required
    BY DEF Asking
  <2>3. Stored(k).status = Passed(own, gates) /\ Stored(k).satisfied = Satisfied(Passed(own, gates), plan[k].required)
    BY <2>2, StoredIs, OnceIs DEF Query
  <2>. HIDE DEF q
  <2>4. own \in Shades /\ \A c \in M : own[c] = "PASS" <=> store[k].request[c] = "GREEN"
    <3>1. M \subseteq Critics
      BY <2>1 DEF Tiered
    <3>. QED BY <2>1, <3>1, OwnPasses DEF Shades, q
  <2>5. PICK rank \in [Critics -> 0..Len(gates)] :
           /\ \A c \in Critics : \A n \in DOMAIN gates : c \in gates[n].critics <=> rank[c] = n
           /\ \A c \in Critics : rank[c] # 0 => Gating(k, c) = gates[rank[c]].needs
           /\ \A c \in Critics : rank[c] = 0 => Gating(k, c) = {}
           /\ \A c \in Critics : \A e \in Gating(k, c) : rank[e] < rank[c]
    BY <2>1 DEF Tiered
  <2>6. /\ Len(gates) \in Nat /\ DOMAIN gates = 1..Len(gates) /\ M \in SUBSET Critics
        /\ \A c \in M : Gating(k, c) \subseteq M
        /\ M = {c \in Critics : Target[c] \in plan[k].required}
    BY <2>1 DEF Tiered
  <2>7. \A c \in M : c \in G <=> own[c] = "PASS" /\ Gating(k, c) \subseteq G
    BY <2>4, <2>6, GreenFacts
  <2>. HIDE DEF own, gates, M, G
  <2>8. \A c \in M : rank[c] # 0 =>
          gates[rank[c]].needs \subseteq M /\ \A e \in gates[rank[c]].needs : rank[e] < rank[c]
    BY <2>5, <2>6
  <2>9. Ranked(gates, rank, M) /\ Earned(own, gates, rank, M, G)
    BY <2>5, <2>6, <2>7, <2>8 DEF Ranked, Earned
  <2>10. \A c \in M : Passed(own, gates)[c] = "PASS" <=> c \in G
    BY <2>4, <2>9, PassFacts
  <2>11. \A c \in M : Stored(k).status[c] = "PASS" <=> store[k].member[c].state = "GREEN"
    BY <2>3, <2>10 DEF G
  <2>12. Stored(k).satisfied <=> Unreviewed(k) = {} /\ M \subseteq G
    <3>1. \A c \in Critics : Target[c] \notin Basis
      BY ReadinessAssumption
    <3>2. Satisfied(Passed(own, gates), plan[k].required) <=>
            \A a \in plan[k].required \ Basis :
              CriticsOn(a) # {} /\ \A c \in CriticsOn(a) : Passed(own, gates)[c] = "PASS"
      BY DEF Satisfied
    <3>3. Unreviewed(k) = {} <=> \A a \in plan[k].required \ Basis : CriticsOn(a) # {}
      BY DEF Unreviewed
    <3>4. \A c \in Critics : c \in M <=> Target[c] \in plan[k].required \ Basis
      BY <3>1, <2>6
    <3>5. (\A a \in plan[k].required \ Basis : \A c \in CriticsOn(a) : Passed(own, gates)[c] = "PASS")
            <=> M \subseteq G
      BY <3>4, <2>6, <2>10 DEF CriticsOn
    <3>. QED BY <3>2, <3>3, <3>5, <2>3
  <2>13. M \subseteq G <=> \A c \in M : store[k].member[c].state = "GREEN"
    BY DEF G
  <2>. QED BY <2>11, <2>12, <2>13, DecidedFacts DEF M
<1>. QED BY <1>1, ReadinessInvariant, PTL

=============================================================================
