------------------------- MODULE InternalAParseGrammar -------------------------
(***************************************************************************)
(* src/v2/internal_aparse_grammar: a grammar made ready for the machine     *)
(* builder.  Every bracketed part of a CONCAT, '(' r ')', becomes one atom, *)
(* an enclosed non-terminal (ent) with the regex r; rules get the labels    *)
(* that parse-tree nodes are made from; the non-terminals are sorted so     *)
(* that each comes after those its rule uses outside brackets.              *)
(***************************************************************************)
EXTENDS Regex, GraphUtils, FiniteSets, FiniteSetsExt

ConcatExprList(rs) ==
  IF rs = << >> THEN Eps ELSE IF Len(rs) = 1 THEN rs[1] ELSE Cat(rs)

IsBAStart(g, r) == r.type = "ATOMIC" /\ r.alphabet \in DOMAIN g.branching_alphabets

IsBAEndOf(g, r, start) == r.type = "ATOMIC" /\ r.alphabet = g.branching_alphabets[start]

\* lAddNewEnclosedNonTerminal: ents is the sequence of <<opening alphabet,
\* regex>> pairs met so far, without repetition; an ent is an index in it.
AddEnt(ents, p) == IF \E i \in DOMAIN ents : ents[i] = p THEN ents ELSE Append(ents, p)
EntIndex(ents, p) == CHOOSE i \in DOMAIN ents : ents[i] = p

\* The bracket matching over the children of a CONCAT.  w: [stack, b_alphabets,
\* ents]; base is the number of the first ent.
ScanChild(g, base, w, child) ==
  LET top == Len(w.stack)
      depth == Len(w.b_alphabets)
  IN IF IsBAStart(g, child)
     THEN [w EXCEPT !.b_alphabets = Append(@, child.alphabet),
                    !.stack = Append(@, << >>)]
     ELSE IF depth > 0 /\ IsBAEndOf(g, child, w.b_alphabets[depth])
     THEN LET p == <<w.b_alphabets[depth], ConcatExprList(w.stack[top])>>
              ents == AddEnt(w.ents, p)
              outer == SubSeq(w.stack, 1, top - 1)
          IN [b_alphabets |-> SubSeq(w.b_alphabets, 1, depth - 1),
              stack |-> [outer EXCEPT ![top - 1] =
                           Append(@, Atom(base + EntIndex(ents, p) - 1))],
              ents |-> ents]
     ELSE [w EXCEPT !.stack[top] = Append(@, child)]

\* lConstruct: c = [regex, ents] after the children, in order, then the node.
NoChildren(ents) == [children |-> << >>, ents |-> ents]
WithChild(c, constructed) ==
  [children |-> Append(c.children, constructed.regex), ents |-> constructed.ents]

RECURSIVE Construct(_, _, _, _), ConstructChildren(_, _, _, _, _)

\* c: [children, ents] of the children before rs[i].
ConstructChildren(g, base, rs, i, c) ==
  IF i > Len(rs) THEN c
  ELSE ConstructChildren(g, base, rs, i + 1,
         WithChild(c, Construct(g, base, rs[i], c.ents)))

WithBrackets(g, base, r, c) ==
  LET scan[i \in 0..Len(c.children)] ==
        IF i = 0 THEN [stack |-> <<<< >>>>, b_alphabets |-> << >>, ents |-> c.ents]
        ELSE ScanChild(g, base, scan[i - 1], c.children[i])
      end == scan[Len(c.children)]
  IN IF r.type # "CONCAT"
     THEN [regex |-> [r EXCEPT !.children = c.children], ents |-> c.ents]
     ELSE [regex |-> ConcatExprList(end.stack[Len(end.stack)]), ents |-> end.ents]

Construct(g, base, r, ents) ==
  WithBrackets(g, base, r, ConstructChildren(g, base, r.children, 1, NoChildren(ents)))

\* ConstructEnclosedNonTerminals over the rules, in order.
ConstructEnclosedNonTerminals(g, base) ==
  ConstructChildren(g, base, [i \in DOMAIN g.rules |-> g.rules[i][2]], 1,
                    NoChildren(<< >>))

ComputeDependency(regex, non_terminals) == Atoms(regex) \cap non_terminals

\* The fields of the class that the builder reads.  Rule labels are rule
\* numbers plus one.  Validate has refused a non-terminal with two rules.
GrammarOf(g, low, base, c) ==
  LET rule(nt) == CHOOSE i \in DOMAIN g.rules : g.rules[i][1] = nt
      rules == [nt \in NonTerminals(g) |->
                  [c.children[rule(nt)] EXCEPT !.label = rule(nt)]]
      ents == base .. base + Len(c.ents) - 1
  IN [rules |-> rules,
      enclosed_rules |-> [e \in ents |-> c.ents[e - base + 1][2]],
      enclosed_ba_alphabet |-> [e \in ents |-> c.ents[e - base + 1][1]],
      ba_map |-> g.branching_alphabets,
      main_non_terminal |-> g.main_non_terminal,
      topological_sorted_non_terminals |->
        TopologicalSortingInGraph(
          [nt \in NonTerminals(g) |-> ComputeDependency(rules[nt], NonTerminals(g))],
          low).sorted]

InternalGrammar(g, low) ==
  LET base == Max(NonTerminals(g) \cup {0}) + 1
  IN GrammarOf(g, low, base, ConstructEnclosedNonTerminals(g, base))
================================================================================
