-------------------------- MODULE LexerMachineBuilder --------------------------
(***************************************************************************)
(* src/lexer_machine_builder and src/internal_lexer_builder: from the rules *)
(* of a lexer to the one DFA that recognises the tokens of every section.   *)
(*                                                                          *)
(* A lexer grammar is [sections, main_section, jumps]: sections maps a      *)
(* section number to the sequence of its rules' regexes; jumps maps a rule  *)
(* <<section, i>> whose action calls JumpTo to the section it names.  The   *)
(* record n of the NFA under construction has the fields of LexerMachine's  *)
(* NFA; state k of the code's vector is k here.  `low` chooses between two  *)
(* orders of walking the code's unordered containers.                       *)
(***************************************************************************)
EXTENDS Regex, GraphUtils, FiniteSets, FiniteSetsExt, TLC

NoEdges == [a \in {} |-> {}]

\* n with k more states; Sub fixes the start and final states of a sub-NFA.
MoreStates(n, k) ==
  LET size == Cardinality(DOMAIN n.edges)
      new == size .. size + k - 1
  IN [n EXCEPT !.edges = @ @@ [s \in new |-> NoEdges],
               !.label = @ @@ [s \in new |-> 0]]

Sub(n, start, finals) == [n EXCEPT !.start_state = start, !.final_states = finals]

TargetsOn(edges, a) == IF a \in DOMAIN edges THEN edges[a] ELSE {}

\* lAddEdges from state `from` to every state of S.
CopyEdges(n, from, S) ==
  LET both(s) == [a \in DOMAIN n.edges[from] \cup DOMAIN n.edges[s] |->
                    TargetsOn(n.edges[from], a) \cup TargetsOn(n.edges[s], a)]
  IN [n EXCEPT !.edges = [s \in S |-> both(s)] @@ @]

\* start goes to the next state on each of the alphabets.
OneStep(n, start, alphabets) ==
  Sub([n EXCEPT !.edges[start] = [a \in alphabets |-> {start + 1}]], start, {start + 1})

IsAllRegexChildrenAtomic(r) == \A i \in DOMAIN r.children : r.children[i].type = "ATOMIC"

RECURSIVE RegexNFA(_, _), UnionFrom(_, _, _), ConcatFrom(_, _)

\* The union of n, from start, and the rest of the children.
UnionFrom(n, children, start) ==
  IF children = << >> THEN n
  ELSE LET m == RegexNFA(n, Head(children))
           joined(finals) ==
             UnionFrom(Sub(CopyEdges(m, m.start_state, {start}), start, finals),
                     Tail(children), start)
       IN IF m.start_state \in m.final_states
          THEN joined(n.final_states \cup m.final_states \cup {start})
          ELSE joined(n.final_states \cup m.final_states)

\* The labels of single-alphabet children are lost in the optimised case.
UnionNFA(n, r, start) ==
  IF IsAllRegexChildrenAtomic(r)
  THEN OneStep(MoreStates(n, 2), start, {r.children[i].alphabet : i \in DOMAIN r.children})
  ELSE UnionFrom(Sub(MoreStates(n, 1), start, {}), r.children, start)

\* n followed by the children.
ConcatFrom(n, children) ==
  IF children = << >> THEN n
  ELSE LET m == RegexNFA(n, Head(children))
           joined(finals) ==
             ConcatFrom(Sub(CopyEdges(m, m.start_state, n.final_states), n.start_state, finals),
                      Tail(children))
       IN IF m.start_state \in m.final_states
          THEN joined(m.final_states \cup n.final_states)
          ELSE joined(m.final_states)

ConcatNFA(n, r) == ConcatFrom(RegexNFA(n, Head(r.children)), Tail(r.children))

KstarKPlusNFA(n, r, start) ==
  LET m == RegexNFA(MoreStates(n, 1), r.children[1])
      finals == m.final_states
  IN Sub(CopyEdges(m, m.start_state, finals \cup {start}), start,
         IF r.type = "KSTAR" \/ m.start_state \in finals THEN finals \cup {start} ELSE finals)

RegexNFA(n, r) ==
  LET start == Cardinality(DOMAIN n.edges)
      m == CASE r.type = "EPSILON" -> Sub(MoreStates(n, 1), start, {start})
             [] r.type = "ATOMIC" -> OneStep(MoreStates(n, 2), start, {r.alphabet})
             [] r.type = "UNION" -> UnionNFA(n, r, start)
             [] r.type = "CONCAT" -> ConcatNFA(n, r)
             [] r.type \in {"KSTAR", "KPLUS"} -> KstarKPlusNFA(n, r, start)
  IN IF r.label > 0
     THEN [m EXCEPT !.label = [s \in m.final_states |-> r.label] @@ @]
     ELSE m

BuildNFA(r) ==
  RegexNFA([edges |-> [s \in {} |-> NoEdges], label |-> [s \in {} |-> 0],
            start_state |-> 0, final_states |-> {}], r)

-------------------------------------------------------------------------------
(* Subset construction.  index is the code's dfa_index_map, as the sequence   *)
(* of the state sets in the order they were met (state k is index[k + 1]).    *)

NextSets(nfa, top) ==
  [a \in UNION {DOMAIN nfa.edges[s] : s \in top} |->
     UNION {TargetsOn(nfa.edges[s], a) : s \in top}]

\* The sets of S in the order the alphabets that lead to them are walked.
RECURSIVE Listed(_, _, _, _)
Listed(next, alphabets, index, low) ==
  IF alphabets = {} THEN index
  ELSE LET a == Pick(alphabets, low)
           known == {index[i] : i \in DOMAIN index}
       IN Listed(next, alphabets \ {a},
                 IF next[a] \in known THEN index ELSE Append(index, next[a]), low)

\* done: the sets index[1..done] are finished.
RECURSIVE Subsets(_, _, _, _)
Subsets(nfa, index, done, low) ==
  IF done = Len(index) THEN index
  ELSE LET next == NextSets(nfa, index[done + 1])
       IN Subsets(nfa, Listed(next, DOMAIN next, index, low), done + 1, low)

\* Mutant: of the rules that match, the last one has its action run.
BuildDFALastRule(nfa, low) ==
  LET index == Subsets(nfa, <<{nfa.start_state}>>, 0, low)
      number(set) == (CHOOSE i \in DOMAIN index : index[i] = set) - 1
      finals(k) == index[k + 1] \cap nfa.final_states
      next(k) == NextSets(nfa, index[k + 1])
  IN [start_state |-> 0,
      final_states |-> {k \in 0..Len(index) - 1 : finals(k) # {}},
      states |-> [k \in 0..Len(index) - 1 |->
                    [edges |-> [a \in DOMAIN next(k) |-> number(next(k)[a])],
                     label |-> IF finals(k) = {} THEN 0 ELSE nfa.label[Max(finals(k))]]]]

BuildDFA(nfa, low) ==
  LET index == Subsets(nfa, <<{nfa.start_state}>>, 0, low)
      number(set) == (CHOOSE i \in DOMAIN index : index[i] = set) - 1
      finals(k) == index[k + 1] \cap nfa.final_states
      next(k) == NextSets(nfa, index[k + 1])
  IN [start_state |-> 0,
      final_states |-> {k \in 0..Len(index) - 1 : finals(k) # {}},
      states |-> [k \in 0..Len(index) - 1 |->
                    [edges |-> [a \in DOMAIN next(k) |-> number(next(k)[a])],
                     label |-> IF finals(k) = {} THEN 0 ELSE nfa.label[Min(finals(k))]]]]

\* Mutant: the edges are moved by the length of the vector.
MergeOneAtEnd(c, section, dfa, main_section) ==
  LET size == Cardinality(DOMAIN dfa.states)
      end == Cardinality(DOMAIN c.dfa.states)
      all == [k \in end..end + size - 1 |-> dfa.states[k - end]] @@ c.dfa.states
      moved(s) == [s EXCEPT !.edges = [a \in DOMAIN @ |-> @[a] + end]]
  IN [dfa |-> [start_state |-> IF section = main_section THEN c.offset + dfa.start_state
                               ELSE c.dfa.start_state,
               final_states |-> c.dfa.final_states \cup {c.offset + s : s \in dfa.final_states},
               states |-> [k \in c.offset..c.offset + size - 1 |-> moved(all[k])] @@ all],
      section_to_start_state_mapping |->
        (section :> c.offset + dfa.start_state) @@ c.section_to_start_state_mapping,
      offset |-> c.offset + size]

\* MergeDFA for one DFA: its states go to the end of the vector, and the edges of
\* as many states from c.offset are moved by it.  c.offset starts at 0: the two
\* are the same states unless the Lexer was built before.
MergeOne(c, section, dfa, main_section) ==
  LET size == Cardinality(DOMAIN dfa.states)
      end == Cardinality(DOMAIN c.dfa.states)
      all == [k \in end..end + size - 1 |-> dfa.states[k - end]] @@ c.dfa.states
      moved(s) == [s EXCEPT !.edges = [a \in DOMAIN @ |-> @[a] + c.offset]]
  IN [dfa |-> [start_state |-> IF section = main_section THEN c.offset + dfa.start_state
                               ELSE c.dfa.start_state,
               final_states |-> c.dfa.final_states \cup {c.offset + s : s \in dfa.final_states},
               states |-> [k \in c.offset..c.offset + size - 1 |-> moved(all[k])] @@ all],
      section_to_start_state_mapping |->
        (section :> c.offset + dfa.start_state) @@ c.section_to_start_state_mapping,
      offset |-> c.offset + size]

-------------------------------------------------------------------------------
(* InternalLexerBuilder::Build *)

\* The rules of all sections in the order they get their labels, from 1.
RECURSIVE RulesInOrder(_, _, _)
RulesInOrder(g, sections, low) ==
  IF sections = {} THEN << >>
  ELSE LET section == Pick(sections, low)
       IN [i \in DOMAIN g.sections[section] |-> <<section, i>>]
            \o RulesInOrder(g, sections \ {section}, low)

\* A section is one union of its rules, each with its label.
SectionRegex(g, rules, section) ==
  LET label(i) == CHOOSE k \in DOMAIN rules : rules[k] = <<section, i>>
  IN Alt([i \in DOMAIN g.sections[section] |->
            [g.sections[section][i] EXCEPT !.label = label(i)]])

RECURSIVE MergeDFA(_, _, _, _, _)
MergeDFA(g, rules, sections, c, low) ==
  IF sections = {} THEN c
  ELSE LET section == Pick(sections, low)
           dfa == BuildDFA(BuildNFA(SectionRegex(g, rules, section)), low)
       IN MergeDFA(g, rules, sections \ {section},
                   MergeOne(c, section, dfa, g.main_section), low)

\* A new Lexer.  The start state and the main section are not initialised: no
\* code reads them before Build has set them.
NewLexer ==
  [dfa |-> [start_state |-> 0, final_states |-> {},
            states |-> [k \in {} |-> [edges |-> NoEdges, label |-> 0]]],
   section_to_start_state_mapping |-> [s \in {} |-> 0],
   pattern_actions |-> [k \in {} |-> <<0, 0>>],
   main_section |-> 0]

\* What Build makes of a Lexer.  pattern_actions maps a label to its rule: the
\* action itself is the client's (see LexerInstance).
BuiltOn(lexer_object, g, low) ==
  LET rules == RulesInOrder(g, DOMAIN g.sections, low)
      merged == MergeDFA(g, rules, DOMAIN g.sections, [offset |-> 0] @@ lexer_object, low)
  IN [dfa |-> merged.dfa,
      section_to_start_state_mapping |-> merged.section_to_start_state_mapping,
      pattern_actions |-> [k \in DOMAIN rules |-> rules[k]] @@ lexer_object.pattern_actions,
      main_section |-> g.main_section]

LexerOf(g, low) == BuiltOn(NewLexer, g, low)
================================================================================
