------------------------------ MODULE ParserScope ------------------------------
(***************************************************************************)
(* What a rule action sees of its node in the parse tree: the loops of      *)
(* SyntaxTreeMaker::Build over a node (include/aparse/syntax_tree_maker.hpp) *)
(* and the questions of ParserScope (include/aparse/parser_scope.hpp), as   *)
(* operators on its TreeBuildingConstructs.  The values of the children are  *)
(* whatever the actions make of them.                                       *)
(*                                                                          *)
(* The fields of the scope that no operation reads (is_terminal,            *)
(* range_list_1 and _2) are left out.                                       *)
(***************************************************************************)
EXTENDS ParserSystem

Children(n) == SetToSortSeq(ChildIndices(parse_tree, n), <)

\* The loop over the range of a node, from position s on with these children
\* left: <<"child", node>> or <<"token", position>> for each round.
RECURSIVE RoundsFrom(_, _, _)
RoundsFrom(n, s, children) ==
  IF s >= parse_tree[n].end THEN << >>
  ELSE IF children # << >> /\ parse_tree[Head(children)].start = s
  THEN <<<<"child", Head(children)>>>>
         \o RoundsFrom(n, parse_tree[Head(children)].end, Tail(children))
  ELSE <<<<"token", s>>>> \o RoundsFrom(n, s + 1, children)

Rounds(n) == RoundsFrom(n, parse_tree[n].start, Children(n))

\* The nodes, or the positions, that the rounds for n meet.
Met(n, kind) ==
  LET met == SelectSeq(Rounds(n), LAMBDA round : round[1] = kind)
  IN [k \in DOMAIN met |-> met[k][2]]

\* ExtractRegexAtoms: what the right hand side of a rule mentions, in order.
RECURSIVE AtomList(_)
AtomList(r) == IF r.type = "ATOMIC" THEN <<r.alphabet>>
               ELSE FlattenSeq([i \in DOMAIN r.children |-> AtomList(r.children[i])])

RuleAtoms(n) == AtomList(grammar.rules[parse_tree[n].label + 1][2])
RuleNonTerminal(n) == grammar.rules[parse_tree[n].label + 1][1]

\* The elements x of seq for which f[x] is key, for every key.
GroupedBy(seq, f) ==
  [key \in {f[x] : x \in ToSet(seq)} |-> SelectSeq(seq, LAMBDA x : f[x] = key)]

\* tbc after Clear and the second loop.  child_st_list_1 maps a non-terminal to
\* the indices of its instances in child_st_list_2.
ScopeFor(n, values) ==
  LET positions == Met(n, "token")
      indices == [c \in DOMAIN Met(n, "child") |-> c]
  IN [child_st_list_2 |-> values,
      child_st_list_1 |->
        GroupedBy(indices, [c \in ToSet(indices) |-> RuleNonTerminal(Children(n)[c])]),
      token_list_1 |-> {stream[s + 1] : s \in ToSet(positions)},
      token_list_2 |-> [k \in DOMAIN positions |-> stream[positions[k] + 1]],
      token_stream_index_map |->
        GroupedBy(positions, [s \in ToSet(positions) |-> stream[s + 1]]),
      rule_atoms |-> RuleAtoms(n)]

-------------------------------------------------------------------------------
(* The questions of an action.  scope is its TreeBuildingConstructs, indices  *)
(* start at 1.                                                               *)

At(map, key) == IF key \in DOMAIN map THEN map[key] ELSE << >>

Exists(scope, i) ==
  scope.rule_atoms[i] \in scope.token_list_1 \cup DOMAIN scope.child_st_list_1

AlphabetIndexList(scope, i) == At(scope.token_stream_index_map, scope.rule_atoms[i])

Instances(scope, i) == At(scope.child_st_list_1, scope.rule_atoms[i])

ValueList(scope, i) ==
  [k \in DOMAIN Instances(scope, i) |-> scope.child_st_list_2[Instances(scope, i)[k]]]
================================================================================
