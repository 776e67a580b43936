------------------------------- MODULE LexerSystem -------------------------------
(***************************************************************************)
(* A lexer from its rules to its tokens: the DFA that the builder makes,    *)
(* driven by a LexerInstance, against what the rules mean.  A behaviour is  *)
(* the life of one instance of a Lexer built for one of LexerGrammars.      *)
(***************************************************************************)
EXTENDS LexerText, LexerMachineBuilder, GrammarLanguage

\* The Lexers of LexerText are those that InternalLexerBuilder makes.
BuiltLexers(g) == {[jumps |-> g.jumps] @@ LexerOf(g, low) : low \in BOOLEAN}

RulesOfSection(g, s) == {<<s, i>> : i \in DOMAIN g.sections[s]}

MatchingRules(g, s, w) ==
  {r \in RulesOfSection(g, s) : Len(w) \in Ends(<< >>, g.sections[s][r[2]], w, {0})}

BeginsToken(g, s, w) ==
  \E r \in RulesOfSection(g, s) : Viable(<< >>, g.sections[s][r[2]], w, {0})

\* A section with no other rules than single alphabets has no labels (see the
\* findings).
LosesActions(rules) == \A i \in DOMAIN rules : rules[i].type = "ATOMIC"

\* Feed and End answer as the rules demand: the DFA state knows the token, and has
\* the label of an action where a rule matches (LexerMachineBuilder: UNION, BuildDFA,
\* MergeDFA).
StateKnowsToken ==
  /\ KnowsToken
  /\ /\ MatchingRules(lexer_grammar, section, CurrentToken) # {}
     /\ ~LosesActions(lexer_grammar.sections[section])
     => HasAction(State(current_state).label)

\* The action of the rule that matched is done, whatever the rules: no look-up of
\* an action fails (lexer_builder.hpp says so of every rule; see the findings).
ActionsExist == ~threw
================================================================================
