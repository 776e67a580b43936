----------------------------- MODULE MCParserSystem -----------------------------
(***************************************************************************)
(* Sets of grammars to check ParserSystem on, and grammars of names to      *)
(* check RuleGrammars on.                                                   *)
(***************************************************************************)
EXTENDS RuleGrammars, SampleGrammars

\* The machines come from the builder: CoreParser's own set is not used.
NoMachines == {}
None == {}

\* One rule, no brackets: all regexes of height 2 over x, y and the empty string.
AllRegexes ==
  {Grammar(2, 10, << >>, << <<10, r>> >>) : r \in Grown(Grown({Eps, Atom(0), Atom(1)}))}

\* One rule whose leaves may be brackets, around the rule itself or around x*.
AllBracketRules ==
  LET bracket(r) == Cat(<<Atom(0), r, Atom(1)>>)
      leaves == {Atom(2), bracket(Atom(10)), bracket(Star(Atom(2)))}
  IN {g \in {Grammar(3, 10, 0 :> 1, << <<10, r>> >>) : r \in Grown(Grown(leaves))} :
        IsProductive(g)}

\* A main rule that may use B, and rules for B that do not accept the empty string.
Callees == {Atom(0), Plus(Atom(0)), Cat(<<Atom(0), Atom(1)>>), Alt(<<Atom(0), Atom(1)>>)}

AllCallRules ==
  {Grammar(2, 10, << >>, << <<10, r>>, <<11, s>> >>) :
     r \in Grown(Grown({Eps, Atom(0), Atom(11)})), s \in Callees}

RuleFamilies == AllRegexes \cup AllBracketRules \cup AllCallRules

NullableStart == {NullableStartGrammar}
Optional == {OptionalGrammar}
BracketStart == {BracketStartGrammar}

-------------------------------------------------------------------------------
(* Grammars of names *)

Names(main, ba, alphabets, rules) ==
  [rules |-> rules, alphabets |-> alphabets, branching_alphabets |-> ba, main |-> main]

\* List ::= "(" Item* ")"     Item ::= x | List
Lists ==
  << <<"List", Cat(<<Atom("("), Star(Atom("Item")), Atom(")")>>)>>,
     <<"Item", Alt(<<Atom("x"), Atom("List")>>)>> >>

\* Pair ::= Left "y"     Left ::= x | y | EPSILON
Pairs ==
  << <<"Pair", Cat(<<Atom("Left"), Atom("y")>>)>>,
     <<"Left", Alt(<<Atom("x"), Atom("y"), Eps>>)>> >>

\* Numbers of the walk's; of the client's, with a gap; with x and y alike; with a
\* name that no rule mentions.  The last ones fail an assertion: a name without
\* a number, an alphabet with a rule, brackets without a number.
Brackets == "(" :> ")"
Numbers(n) == ("(" :> n) @@ (")" :> 1) @@ ("x" :> 4)
SomeWritten ==
  {Names("List", Brackets, << >>, Lists),
   Names("Item", Brackets, Numbers(0), Lists),
   Names("Item", Brackets, Numbers(5), Lists),
   Names("Pair", << >>, << >>, Pairs),
   Names("Pair", << >>, ("x" :> 1) @@ ("y" :> 3) @@ ("z" :> 2), Pairs),
   Names("Pair", << >>, ("x" :> 0) @@ ("y" :> 0), Pairs),
   Names("List", Brackets, ("(" :> 0) @@ (")" :> 1), Lists),
   Names("List", Brackets, Numbers(0) @@ ("Item" :> 6), Lists),
   Names("Pair", Brackets, ("x" :> 0) @@ ("y" :> 1), Pairs)}

-------------------------------------------------------------------------------

\* A parser built from one of Grammars, or of the grammars of names.
FamiliesInit ==
  \/ ClientStart /\ written = Names("", << >>, << >>, << >>) /\ string_map = << >>
  \/ RuleGrammarInit

\* Bound: regexes show their errors on short strings, and get short ones.
Longest == IF DOMAIN string_map = {} THEN 4 ELSE MaxStream

FamiliesSpec ==
  FamiliesInit /\ [][RuleGrammarNext /\ Len(stream') <= Longest]_rule_grammar_vars

-------------------------------------------------------------------------------

\* A union none of whose parts uses a non-terminal outside brackets.
RECURSIVE UnionsAreFlat(_, _)
UnionsAreFlat(g, r) ==
  /\ r.type = "UNION" => DependentNonTerminals(g, r) = {}
  /\ \A i \in DOMAIN r.children : UnionsAreFlat(g, r.children[i])

\* The grammars MergeEquivalentFinalState is right for (README, finding 2), those
\* whose unions are flat, have machines whose parsing streams nest, and valid trees.
TreesOfFlatUnionsAreValid ==
  (\A rule \in ToSet(grammar.rules) : UnionsAreFlat(grammar, rule[2])) =>
    /\ stream = << >> => StreamsNest(built, RegionsOf(built), DepthsOf(built), Alphabets)
    /\ ParseTreesAreValid
=================================================================================
