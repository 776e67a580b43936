----------------------------- MODULE MCParserBuilder -----------------------------
(***************************************************************************)
(* Releases of a program to check ParserBuilder on, and the any objects     *)
(* that hold its actions, with a client of their own.                       *)
(***************************************************************************)
EXTENDS ParserBuilder, AnyValue

VARIABLE part

\* A checksum that tells all texts apart.
TextItself(text) == text

\* Names, and symbols numbered in the order of their names.
m == <<"m">>
x == <<"x">>
y == <<"y">>

Numbered(names) == [i \in DOMAIN names |-> <<names[i], i>>]

Release(rules, actions, symbols, branching) ==
  [rules |-> rules, actions |-> actions, symbols |-> symbols, branching |-> branching,
   main |-> m]

\* Of rules a label is enough.
First ==
  Release(<<<<"r", "1">>, <<"r", "2">>>>, <<"a1", "a2">>, Numbered(<<x, y>>), << >>)

\* Releases that change one thing each: the actions, the order in which the same
\* map is visited, the numbers of the symbols, a rule, the number of rules.
Upgrades ==
  {First,
   [First EXCEPT !.actions = <<"b1", "b2">>],
   [First EXCEPT !.symbols = <<<<y, 2>>, <<x, 1>>>>],
   [First EXCEPT !.symbols = <<<<x, 2>>, <<y, 1>>>>],
   [First EXCEPT !.rules = <<<<"r", "1">>, <<"r", "3">>>>],
   [First EXCEPT !.rules = <<<<"r", "1">>>>, !.actions = <<"a1">>]}

\* m ::= "ab" "a" "bc" "c", where a and bc branch, or ab and c: the names read the same.
SameNames ==
  LET g(branching) ==
        Release(<<<<"r", "4">>>>, <<"a1">>,
                Numbered(<<<<"a">>, <<"b", "c">>, <<"a", "b">>, <<"c">>>>), branching)
  IN {g(<<<<<<"a">>, <<"b", "c">>>>>>), g(<<<<<<"a", "b">>, <<"c">>>>>>)}

\* m ::= "1(" "(" "2)" x, where 1( branches, or (, with 2): the number of x runs into
\* the names.  The texts have 1x4, 1, 1(2) or 1x41, 1, (2) before the end.
RunTogether ==
  LET close == <<"2", ")">>
      g(number, open) ==
        Release(<<<<"r", "5">>>>, <<"a1">>,
                Append(Numbered(<<<<"(">>, <<"1", "(">>, close>>), <<x, number>>),
                <<<<open, close>>>>)
  IN {g(4, <<"1", "(">>), g(65, <<"(">>)}

\* m ::= "a" "b" "b3m" and m1m ::= x, where a and b3m branch and m is the main rule, or a
\* and b with m1m: the last of the names runs into the main non-terminal.
OtherMain ==
  LET g(name, main) ==
        [Release(<<<<"r", "6">>, <<"r", "7">>>>, <<"a1", "a2">>,
                 Numbered(<<<<"a">>, <<"b">>, <<"b", "3", "m">>, x>>),
                 <<<<<<"a">>, name>>>>) EXCEPT !.main = main]
  IN {g(<<"b", "3", "m">>, m), g(<<"b">>, <<"m", "1", "m">>)}

Releases == Upgrades \cup SameNames \cup RunTogether \cup OtherMain

\* Bytes of format version 2.
Version2 == {<<2, "checksum">>}

\* Each of the last two sets is two grammars of different meaning with one text.
ASSUME TextsCollide ==
  \A pair \in {RunTogether, OtherMain} :
    Cardinality({GrammarText(g) : g \in pair}) = 1 /\ Cardinality({Meaning(g) : g \in pair}) = 2

-------------------------------------------------------------------------------

\* The releases, or, beside a program that does nothing, the anys.
PartsInit ==
  /\ StoreInit /\ AnyInit
  /\ \/ part = "releases"
     \/ part = "values" /\ program = First /\ file = << >>

PartsNext ==
  /\ \/ part = "releases" /\ StoreNext /\ UNCHANGED any_vars
     \/ part = "values" /\ AnyNext /\ UNCHANGED store_vars
  /\ UNCHANGED part

PartsSpec == PartsInit /\ [][PartsNext]_<<store_vars, any_vars, part>>
================================================================================
