---------------------------- MODULE SampleGrammars ----------------------------
(***************************************************************************)
(* Grammars for the model checker: those of tests/samples, and small ones   *)
(* that each exercise one construction of the builder.                      *)
(***************************************************************************)
EXTENDS Regex, TLC

Grammar(size, main, ba, rules) ==
  [alphabet_size |-> size, main_non_terminal |-> main,
   branching_alphabets |-> ba, rules |-> rules]

\* A ::= ( '(' A ')' )*
SampleGrammar1 ==
  Grammar(2, 2, 0 :> 1, << <<2, Star(Cat(<<Atom(0), Atom(2), Atom(1)>>))>> >>)

\* A ::= ( '(' B ')' ) | NUM     B ::= (A '+')* A
SampleGrammar2 ==
  Grammar(4, 5, 0 :> 1,
    << <<4, Alt(<<Cat(<<Atom(0), Atom(5), Atom(1)>>), Atom(3)>>)>>,
       <<5, Cat(<<Star(Cat(<<Atom(4), Atom(2)>>)), Atom(4)>>)>> >>)

\* A ::= 0*
SampleGrammar4 == Grammar(1, 1, << >>, << <<1, Star(Atom(0))>> >>)

\* Json ::= '[' JsonList ']' | '{' JsonDict '}' | NUM | STRING | BOOL | NULL ...
SampleGrammar3 ==
  LET list(item) == Alt(<<Eps, Cat(<<Star(Cat(<<Atom(item), Atom(4)>>)), Atom(item)>>)>>)
  IN Grammar(10, 10, (0 :> 1) @@ (2 :> 3),
       << <<10, Alt(<<Cat(<<Atom(0), Atom(11), Atom(1)>>),
                      Cat(<<Atom(2), Atom(12), Atom(3)>>),
                      Atom(6), Atom(7), Atom(8), Atom(9)>>)>>,
          <<11, list(10)>>,
          <<12, list(13)>>,
          <<13, Cat(<<Atom(7), Atom(5), Atom(10)>>)>> >>)
\* The grammar in the comment of core_parse_node.hpp, with a 0, b 1, c 2:
\* Main ::= B | C     B ::= b* | c* | C* (ab)+     C ::= ac
CommentGrammar ==
  Grammar(3, 10, << >>,
    << <<10, Alt(<<Atom(11), Atom(12)>>)>>,
       <<11, Alt(<<Star(Atom(1)), Star(Atom(2)),
                   Cat(<<Star(Atom(12)), Plus(Cat(<<Atom(0), Atom(1)>>))>>)>>)>>,
       <<12, Cat(<<Atom(0), Atom(2)>>)>> >>)

\* Small grammars, '(' 0 and ')' 1.

\* A call: x ( '(' ( A (',' A)* )? ')' )?
CallGrammar ==
  LET list == Cat(<<Atom(10), Star(Cat(<<Atom(3), Atom(10)>>))>>)
  IN Grammar(4, 10, 0 :> 1,
       << <<10, Cat(<<Atom(2), Alt(<<Eps, Cat(<<Atom(0), Alt(<<Eps, list>>), Atom(1)>>)>>)>>)>> >>)

\* Two kinds of brackets: x | '(' A ')' '[' A ']'
PairsGrammar ==
  Grammar(5, 10, (0 :> 1) @@ (2 :> 3),
    << <<10, Alt(<<Atom(4), Cat(<<Atom(0), Atom(10), Atom(1), Atom(2), Atom(10), Atom(3)>>)>>)>> >>)

\* One opening for two ents: '(' x+ ')' y | '(' x* ')' z
ChoiceGrammar ==
  Grammar(5, 10, 0 :> 1,
    << <<10, Alt(<<Cat(<<Atom(0), Plus(Atom(2)), Atom(1), Atom(3)>>),
                   Cat(<<Atom(0), Star(Atom(2)), Atom(1), Atom(4)>>)>>)>> >>)

\* An ambiguous grammar, with many paths to follow back: B+ with B ::= x | x x
AmbiguousGrammar ==
  Grammar(1, 10, << >>,
    << <<10, Plus(Atom(11))>>, <<11, Alt(<<Atom(0), Cat(<<Atom(0), Atom(0)>>)>>)>> >>)

\* Instances in instances: B B with B ::= C C and C ::= x | y
InstancesGrammar ==
  Grammar(2, 10, << >>,
    << <<10, Cat(<<Atom(11), Atom(11)>>)>>, <<11, Cat(<<Atom(12), Atom(12)>>)>>,
       <<12, Alt(<<Atom(0), Atom(1)>>)>> >>)

\* An empty string in two places: B C with B ::= x* and C ::= y*
NullableStartGrammar ==
  Grammar(2, 10, << >>,
    << <<10, Cat(<<Atom(11), Atom(12)>>)>>, <<11, Star(Atom(0))>>, <<12, Star(Atom(1))>> >>)

\* An optional part that starts with a non-terminal: (B x)? with B ::= y y
OptionalGrammar ==
  Grammar(2, 10, << >>,
    << <<10, Alt(<<Cat(<<Atom(11), Atom(0)>>), Eps>>)>>, <<11, Cat(<<Atom(1), Atom(1)>>)>> >>)

\* A bracket that starts with a non-terminal: '(' B x ')' with B ::= y z
BracketStartGrammar ==
  Grammar(5, 10, 0 :> 1,
    << <<10, Cat(<<Atom(0), Atom(11), Atom(2), Atom(1)>>)>>, <<11, Cat(<<Atom(3), Atom(4)>>)>> >>)

\* Terms of three kinds in any order, the last instances possibly empty:
\* (B | x)+ C C with B ::= x y and C ::= y*
TermsGrammar ==
  Grammar(2, 10, << >>,
    << <<10, Cat(<<Plus(Alt(<<Atom(11), Atom(0)>>)), Atom(12), Atom(12)>>)>>,
       <<11, Cat(<<Atom(0), Atom(1)>>)>>, <<12, Star(Atom(1))>> >>)

-------------------------------------------------------------------------------
(* Families: every regex of a given height over a set of leaves.             *)

Grown(R) ==
  R \cup {Star(r) : r \in R} \cup {Plus(r) : r \in R}
    \cup {Alt(<<p, q>>) : p \in R, q \in R} \cup {Cat(<<p, q>>) : p \in R, q \in R}
===============================================================================
