----------------------------- MODULE MCLexerSystem -----------------------------
(***************************************************************************)
(* Lexer grammars and their clients: one that reads one text with each      *)
(* instance, for many grammars, one that reads texts one after the other,   *)
(* and one that builds one Lexer again and again.                           *)
(***************************************************************************)
EXTENDS LexerSystem, LexerBuilder, SampleGrammars

CONSTANT Clients

VARIABLE client

NoLexers == {}

LexerGrammar(sections, main, jumps) ==
  [sections |-> sections, main_section |-> main, jumps |-> jumps]

NoJumps == [r \in {} |-> 0]

\* The rules of lexer_builder_integration_test.cpp: 0 is a digit, 1 '(', 2 '+',
\* 3 a space and 4 the new line.
TestLexer ==
  LexerGrammar(0 :> <<Plus(Atom(0)), Atom(1), Atom(2), Alt(<<Atom(3), Atom(4)>>)>>, 0, NoJumps)

\* Two rules that match the same word: "xy" and a name of x and y; new line 4.
KeywordLexer ==
  LexerGrammar(0 :> <<Cat(<<Atom(0), Atom(1)>>), Plus(Alt(<<Atom(0), Atom(1)>>)), Atom(4)>>,
               0, NoJumps)

\* Comments in a section of their own: '(' (1) jumps to section 7, whose rules are
\* one or more of 0 or the new line, and '+' (2), which jumps back.
SectionsLexer ==
  LexerGrammar((3 :> <<Plus(Atom(0)), Atom(1)>>) @@
               (7 :> <<Plus(Alt(<<Atom(0), Atom(4)>>)), Atom(2)>>),
               3, (<<3, 2>> :> 7) @@ (<<7, 2>> :> 3))

\* The rule a longer token needs may not be reached: x | x y z, no way to cut x y.
StuckLexer ==
  LexerGrammar(0 :> <<Cat(<<Atom(0), Atom(1), Atom(2)>>), Atom(0)>>, 0, NoJumps)

LexerSamples == {TestLexer, KeywordLexer, SectionsLexer, StuckLexer}

\* One section of two rules, the first any regex of height 2 over two alphabets,
\* that do not match the empty string.
AllRules ==
  {g \in {LexerGrammar(0 :> <<r, s>>, 0, NoJumps) :
            r \in Grown(Grown({Atom(0), Atom(1)})),
            s \in {Plus(Atom(0)), Cat(<<Atom(0), Atom(1)>>)}} :
     \A r \in RulesOfSection(g, 0) : 0 \notin Ends(<< >>, g.sections[0][r[2]], << >>, {0})}

AllLexers == LexerSamples \cup AllRules

\* Every rule is one alphabet: '(' and '+'.
SingleAlphabets == LexerGrammar(0 :> <<Atom(1), Atom(2)>>, 0, NoJumps)

\* With lexers whose client may see an exception: the one above, and one with an action
\* that jumps to a section without rules.
LexersToReset ==
  LexerSamples \cup
    {SingleAlphabets,
     LexerGrammar(3 :> <<Plus(Atom(0)), Cat(<<Atom(1), Atom(1)>>), Atom(4)>>, 3, <<3, 2>> :> 8)}

SomeStrings ==
  ("x" :> Atom(0)) @@ ("x+" :> Plus(Atom(0))) @@ ("xy" :> Cat(<<Atom(0), Atom(1)>>)) @@
  ("(x|y)*y" :> Cat(<<Star(Alt(<<Atom(0), Atom(1)>>)), Atom(1)>>))

G(rules, main) == [rules |-> rules, main_section |-> main]

\* One section; two, with a word two rules match; an empty one; an empty main
\* section; a string that is no regex, first and last; no rules.
SomeGrammars ==
  {G(0 :> <<"x", "x+">>, 0),
   G((0 :> <<"xy">>) @@ (3 :> <<"x", "(x|y)*y", "xy">>), 3),
   G((3 :> <<"x+">>) @@ (4 :> << >>), 3),
   G((0 :> <<"x">>) @@ (7 :> << >>), 7),
   G((0 :> <<"x">>) @@ (3 :> <<"x+", ")">>), 0),
   G(0 :> <<")", "x">>, 0),
   G(4 :> << >>, 4)}

-------------------------------------------------------------------------------

\* The grammars of each client; the last one needs no instance.
GrammarsOf(c) ==
  CASE c = "one text" -> AllLexers
    [] c = "texts" -> LexersToReset
    [] c = "one alphabet" -> {SingleAlphabets}
    [] c = "builds" -> {TestLexer}

SomeLexers == UNION {GrammarsOf(c) : c \in Clients}

ClientsInit ==
  /\ client \in Clients
  /\ TextInit /\ lexer_grammar \in GrammarsOf(client)
  /\ LexerBuilderInit

\* One End per text.  Of the alphabets without a rule one is enough.
OneTextNext ==
  \/ \E a \in Characters : (lexer_grammar \in LexerSamples \/ a <= 2) /\ ClientFeed(a)
  \/ tokens = << >> /\ ClientEndText
  \/ ClientCreateInstance

\* Texts of three alphabets, without spaces.
TextsNext ==
  \/ \E a \in Characters \ {3} : Len(text) < 3 /\ ClientFeed(a)
  \/ ClientEndText \/ ClientCreateInstance \/ ClientResetLexer

ClientsNext ==
  /\ UNCHANGED client
  /\ \/ client \in {"one text", "one alphabet"} /\ OneTextNext /\ UNCHANGED builder_vars
     \/ client = "texts" /\ TextsNext /\ UNCHANGED builder_vars
     \/ client = "builds" /\ LexerBuilderNext /\ UNCHANGED text_vars

ClientsSpec == ClientsInit /\ [][ClientsNext]_<<client, text_vars, builder_vars>>
================================================================================
