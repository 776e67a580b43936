-------------------------------- MODULE LexerText --------------------------------
(***************************************************************************)
(* A client that remembers the text it fed to a LexerInstance, and what     *)
(* include/aparse/lexer.hpp promises of the tokens cut from it, for any     *)
(* Lexer whose states answer as the rules demand (KnowsToken).  How rules   *)
(* come to be such a Lexer is LexerSystem's subject.                        *)
(***************************************************************************)
EXTENDS LexerInstance, FiniteSets

CONSTANTS
  LexerGrammars,   \* what Lexers are built from: jumps, main_section, rules
  LexersOf(_),     \* LexersOf(g): the Lexers that may have been built from g
  Begins(_, _, _), \* Begins(g, s, w): w begins a string of a rule of section s
  Matches(_, _, _) \* Matches(g, s, w): the rules <<s, i>> of section s that match w

\* A Lexer has the main section and the actions of its grammar, and starts there, as
\* Lexer::Finalize asserts.
ASSUME LexersFitGrammar ==
  \A g \in LexerGrammars : \A l \in LexersOf(g) :
    /\ l.jumps = g.jumps /\ l.main_section = g.main_section
    /\ l.main_section \in DOMAIN l.section_to_start_state_mapping
    /\ l.dfa.start_state = l.section_to_start_state_mapping[l.main_section]

VARIABLES
  lexer_grammar,
  text,       \* history: the alphabets taken since the last reset
  section,    \* history: the section of the current token
  first_text  \* history: the instance was not reset yet

text_vars == <<lexer_vars, lexer_grammar, text, section, first_text>>

\* The token before a is cut: the next one is of the section the action chose.
CutsBefore(a) ==
  TokenEnds(a) /\ HasAction(State(current_state).label) /\ next_section' \in DOMAIN SectionStarts

\* Feed(a) of a client that remembers what was taken: token_end counts it.
ClientFeed(a) ==
  /\ FeedCharacter(a)
  /\ text' = IF token_end' > token_end THEN Append(text, a) ELSE text
  /\ section' = IF CutsBefore(a) THEN next_section' ELSE section
  /\ UNCHANGED <<lexer_grammar, first_text>>

ClientEndText == EndText /\ UNCHANGED <<lexer_grammar, text, section, first_text>>

\* The client drops the tokens and the text when it starts the lexer anew.
Anew ==
  /\ tokens' = << >> /\ text' = << >> /\ section' = lexer.main_section
  /\ UNCHANGED lexer_grammar

ClientCreateInstance == CreateInstance /\ Anew /\ first_text' = TRUE
ClientResetLexer == (ResetLexer \/ InitLexer) /\ Anew /\ first_text' = FALSE

TextInit ==
  /\ lexer_grammar \in LexerGrammars
  /\ \E l \in LexersOf(lexer_grammar) : LexerStart(l)
  /\ text = << >> /\ section = lexer_grammar.main_section /\ first_text = TRUE

TextNext ==
  \/ \E a \in Characters : ClientFeed(a)
  \/ ClientEndText \/ ClientCreateInstance \/ ClientResetLexer

TextSpec == TextInit /\ [][TextNext]_text_vars

-------------------------------------------------------------------------------

CurrentToken == SubSeq(text, token_start + 1, token_end)

FirstRule(rules) == CHOOSE r \in rules : \A q \in rules : r[2] <= q[2]

\* The DFA state q of the Lexer l answers for the token w of the section s as the rules
\* of g demand: it goes on with exactly the alphabets some rule of the section allows
\* after w, is final exactly if a rule matches w, and its action, if any, is the first
\* such rule's.
Knows(g, l, s, w, q) ==
  LET rules == Matches(g, s, w)
      edges == l.dfa.states[q].edges
      label == l.dfa.states[q].label
  IN /\ w # << >> => Begins(g, s, w)
     /\ \A a \in Characters : a \in DOMAIN edges <=> Begins(g, s, Append(w, a))
     /\ q \in l.dfa.final_states <=> rules # {}
     /\ rules # {} /\ label \in DOMAIN l.pattern_actions
          => l.pattern_actions[label] = FirstRule(rules)

\* The current state, which has forgotten the token, knows it.
KnowsToken == Knows(lexer_grammar, lexer, section, CurrentToken, current_state)

JumpsOf(g) == g.jumps

Abstract == INSTANCE Tokenizer WITH
  Viable <- Begins, Matching <- Matches, Jumps <- JumpsOf,
  language <- lexer_grammar, first <- token_start, chosen <- next_section,
  seen <- [i \in DOMAIN tokens |-> <<tokens[i].rule, tokens[i].range>>]

\* The instance is a tokenizer of its rules, across sections and resets: each action
\* runs once per token, on the token's own range (LexerInstance::Feed).
ImplementsTokenizer == Abstract!Spec

\* The line and the column of the position n of the text, from 1 and from 0.
PositionOf(w, n) ==
  LET before == {i \in 1..n : w[i] = NewLine}
      last == IF before = {} THEN 0 ELSE CHOOSE i \in before : \A j \in before : j <= i
  IN <<Cardinality(before) + 1, n - last>>

\* The scope's line and column are those of the start of the current token, actions
\* see those of the token they run for, and buffer holds the current token.
PositionsMatchText ==
  /\ buffer = CurrentToken
  /\ <<line_number, column_number>> = PositionOf(text, token_start)
  /\ \A i \in DOMAIN tokens :
       <<tokens[i].line, tokens[i].column>> = PositionOf(text, tokens[i].range[1])

\* So it is in the first text of an instance; Reset and Init keep the buffer, and
\* Reset the line and the column (lexer.hpp, Feed and Reset).
FirstPositionsMatchText == first_text => PositionsMatchText
================================================================================
