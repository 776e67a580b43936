---------------------------- MODULE GrammarLanguage ----------------------------
(***************************************************************************)
(* What a grammar means, independent of any machine: the strings it accepts *)
(* and the parse trees it allows (docs/aparse_cpp.md, "Parse Tree").  This  *)
(* is the reference the built machine and the parser are checked against.   *)
(***************************************************************************)
EXTENDS Regex

RulesOf(g) == [nt \in NonTerminals(g) |->
                 g.rules[CHOOSE i \in DOMAIN g.rules : g.rules[i][1] = nt][2]]

\* Matching the word w from the positions S: the positions where a match of r
\* can end.  env maps the non-terminals to expand to their regex; any other atom
\* stands for itself.  It ends because a grammar's cycles pass a bracket.
RECURSIVE Ends(_, _, _, _)
Ends(env, r, w, S) ==
  IF S = {} THEN {}
  ELSE CASE r.type = "EPSILON" -> S
         [] r.type = "ATOMIC" ->
              IF r.alphabet \in DOMAIN env THEN Ends(env, env[r.alphabet], w, S)
              ELSE {i + 1 : i \in {j \in S : j < Len(w) /\ w[j + 1] = r.alphabet}}
         [] r.type = "UNION" ->
              UNION {Ends(env, r.children[k], w, S) : k \in DOMAIN r.children}
         [] r.type = "CONCAT" ->
              IF r.children = << >> THEN S
              ELSE Ends(env, Cat(Tail(r.children)), w, Ends(env, Head(r.children), w, S))
         [] r.type = "KSTAR" ->
              LET T == S \cup Ends(env, r.children[1], w, S)
              IN IF T = S THEN S ELSE Ends(env, r, w, T)
         [] r.type = "KPLUS" ->
              Ends(env, Star(r.children[1]), w, Ends(env, r.children[1], w, S))

Accepts(g, w) == Len(w) \in Ends(RulesOf(g), Atom(g.main_non_terminal), w, {0})

\* The rest of w from one of the positions S is a prefix of a string of r, given
\* that every non-terminal has a string.
RECURSIVE Viable(_, _, _, _)
Viable(env, r, w, S) ==
  \/ Len(w) \in S
  \/ /\ S # {}
     /\ \/ /\ r.type = "ATOMIC"
           /\ r.alphabet \in DOMAIN env
           /\ Viable(env, env[r.alphabet], w, S)
        \/ /\ r.type = "ATOMIC"
           /\ r.alphabet \notin DOMAIN env
           /\ Len(w) \in Ends(env, r, w, S)
        \/ /\ r.type = "UNION"
           /\ \E k \in DOMAIN r.children : Viable(env, r.children[k], w, S)
        \/ /\ r.type = "CONCAT"
           /\ r.children # << >>
           /\ \/ Viable(env, Head(r.children), w, S)
              \/ Viable(env, Cat(Tail(r.children)), w, Ends(env, Head(r.children), w, S))
        \/ /\ r.type \in {"KSTAR", "KPLUS"}
           /\ Viable(env, r.children[1], w, Ends(env, Star(r.children[1]), w, S))

IsAcceptablePrefix(g, w) == Viable(RulesOf(g), Atom(g.main_non_terminal), w, {0})

\* Every non-terminal of g has a string: the least set closed under the rules.
RECURSIVE HasString(_, _)
HasString(r, nts) ==
  CASE r.type \in {"EPSILON", "KSTAR"} -> TRUE
    [] r.type = "ATOMIC" -> r.alphabet \in nts
    [] r.type = "UNION" -> \E k \in DOMAIN r.children : HasString(r.children[k], nts)
    [] r.type \in {"CONCAT", "KPLUS"} ->
         \A k \in DOMAIN r.children : HasString(r.children[k], nts)

RECURSIVE ProductiveFrom(_, _)
ProductiveFrom(g, good) ==
  LET next == good \cup {nt \in NonTerminals(g) : HasString(RulesOf(g)[nt], good)}
  IN IF next = good THEN good ELSE ProductiveFrom(g, next)

IsProductive(g) ==
  NonTerminals(g) \subseteq ProductiveFrom(g, 0 .. g.alphabet_size - 1)

-------------------------------------------------------------------------------
(* Parse trees: flat sequences of [label, start, end, parent], see           *)
(* ParserInstance.  Node 1 wraps the node of the main non-terminal.          *)

ChildIndices(nodes, n) == {m \in DOMAIN nodes : nodes[m].parent = n}

\* Children of n follow one another inside the range of n.
OrderedChildren(nodes, n) ==
  \A m \in ChildIndices(nodes, n) :
    /\ nodes[n].start <= nodes[m].start
    /\ nodes[m].start <= nodes[m].end
    /\ nodes[m].end <= nodes[n].end
    /\ \A k \in ChildIndices(nodes, n) : k < m => nodes[k].end <= nodes[m].start

\* The symbols under node n from position i, the children from index m on:
\* terminals of the word, and the non-terminal of each child's rule.
RECURSIVE SymbolsFrom(_, _, _, _, _, _)
SymbolsFrom(g, w, nodes, n, i, m) ==
  LET left == {k \in ChildIndices(nodes, n) : k >= m}
      c == CHOOSE k \in left : \A j \in left : k <= j
  IN IF left = {} THEN SubSeq(w, i + 1, nodes[n].end)
     ELSE SubSeq(w, i + 1, nodes[c].start)
          \o <<g.rules[nodes[c].label + 1][1]>>
          \o SymbolsFrom(g, w, nodes, n, nodes[c].end, c + 1)

\* The symbols directly under n form an instance of the rule n is labelled with.
MatchesRule(g, w, nodes, n) ==
  LET symbols == SymbolsFrom(g, w, nodes, n, nodes[n].start, 1)
  IN Len(symbols) \in Ends(<< >>, g.rules[nodes[n].label + 1][2], symbols, {0})

IsParseTree(g, w, nodes) ==
  /\ nodes[1].start = 0 /\ nodes[1].end = Len(w)
  /\ \A n \in DOMAIN nodes : OrderedChildren(nodes, n)
  /\ SymbolsFrom(g, w, nodes, 1, 0, 1) = <<g.main_non_terminal>>
  /\ \A n \in DOMAIN nodes \ {1} :
       nodes[n].label + 1 \in DOMAIN g.rules /\ MatchesRule(g, w, nodes, n)
=============================================================================
