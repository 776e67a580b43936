------------------------------ MODULE GraphUtils ------------------------------
(***************************************************************************)
(* The depth first searches of src/utils.cpp (TopologicalSortingInGraph)    *)
(* and src/aparse_grammar.cpp (CycleDetectionInGraph).  A graph maps every  *)
(* node to the set of its successors, all of them nodes of the graph.  The  *)
(* code visits nodes in the order of an unordered container; here `low`     *)
(* says whether the least or the greatest candidate comes first.            *)
(***************************************************************************)
EXTENDS Integers, Sequences

Pick(S, low) == CHOOSE x \in S : \A y \in S : IF low THEN x <= y ELSE x >= y

\* One search: state d = [ancestors, visited, sorted, ok].  Visit(g, u, d) is
\* lDFA(u), VisitAll the loop over the candidates left.
RECURSIVE Visit(_, _, _, _), VisitAll(_, _, _, _)

\* Mutant: a node counts as visited as soon as its visit begins.
VisitMarkedEarly(g, u, d, low) ==
  LET e == VisitAll(g, g[u], [d EXCEPT !.ancestors = @ \cup {u},
                                       !.visited = @ \cup {u}], low)
  IN IF ~e.ok THEN e
     ELSE [e EXCEPT !.ancestors = @ \ {u}, !.sorted = Append(@, u)]

Visit(g, u, d, low) ==
  LET e == VisitAll(g, g[u], [d EXCEPT !.ancestors = @ \cup {u}], low)
  IN IF ~e.ok THEN e
     ELSE [e EXCEPT !.ancestors = @ \ {u},
                    !.visited = @ \cup {u},
                    !.sorted = Append(@, u)]

VisitAll(g, candidates, d, low) ==
  IF candidates = {} \/ ~d.ok THEN d
  ELSE LET u == Pick(candidates, low)
           e == IF u \in d.visited THEN d
                ELSE IF u \in d.ancestors THEN [d EXCEPT !.ok = FALSE]
                ELSE Visit(g, u, d, low)
       IN VisitAll(g, candidates \ {u}, e, low)

\* [ok, sorted]: ok is the value returned, sorted what is written by then.
TopologicalSortingInGraph(g, low) ==
  VisitAll(g, DOMAIN g, [ancestors |-> {}, visited |-> {}, sorted |-> << >>,
                         ok |-> TRUE], low)

\* The same search in aparse_grammar.cpp, which keeps no order.
CycleDetectionInGraph(g, low) == TopologicalSortingInGraph(g, low).ok
================================================================================
