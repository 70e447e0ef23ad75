------------------------------- MODULE Tarjan -------------------------------
(***************************************************************************)
(* The strongly connected components of a project's artifacts              *)
(* (src/broker/graph.ts).  ProjectQuery assumes of them what its proofs    *)
(* need; TLC evaluates that assumption on what this search returns.        *)
(***************************************************************************)
EXTENDS Integers, FiniteSets, SequencesExt

InOrder(S) == SetToSortSeq(S, <)
Lower(m, n) == IF m < n THEN m ELSE n

RECURSIVE Visited(_, _, _)

\* One dependency of id: what it reaches, if it may still share a component with id.
Followed(rel, id, s, next) ==
  CASE next \notin DOMAIN s.at ->
         LET t == Visited(rel, next, s) IN [t EXCEPT !.low[id] = Lower(@, t.low[next])]
    [] Contains(s.stack, next) -> [s EXCEPT !.low[id] = Lower(@, s.at[next])]
    [] OTHER -> s

\* stronglyConnectedComponents: Tarjan's search from one artifact.  at numbers what was
\* visited, low is the least number reached, and stack holds what has no component yet.
Visited(rel, id, s) ==
  LET number == Cardinality(DOMAIN s.at)
      entered == [s EXCEPT !.at = @ @@ (id :> number), !.low = @ @@ (id :> number),
                           !.stack = <<id>> \o @]
      left == FoldLeft(LAMBDA t, next : Followed(rel, id, t, next), entered,
                       InOrder({e[2] : e \in {e \in rel : e[1] = id}}))
      depth == SelectInSeq(left.stack, LAMBDA a : a = id)
  IN  IF left.low[id] # number THEN left
      ELSE [left EXCEPT !.components = Append(@, ToSet(SubSeq(left.stack, 1, depth))),
                        !.stack = SubSeq(@, depth + 1, Len(@))]

StronglyConnected(artifacts, rel) ==
  LET Start == [at |-> <<>>, low |-> <<>>, stack |-> <<>>, components |-> <<>>]
      Search(s, id) == IF id \in DOMAIN s.at THEN s ELSE Visited(rel, id, s)
  IN  FoldLeft(Search, Start, InOrder(artifacts)).components
=============================================================================
