------------------------------ MODULE LexerBuilder ------------------------------
(***************************************************************************)
(* LexerBuilder::Build (src/lexer_builder.cpp) and Lexer::Finalize          *)
(* (src/lexer.cpp): the life of one Lexer object that a client builds, and  *)
(* may go on building.  The rules of a client's grammar are strings, which  *)
(* ParseCharRegex reads (see RuleStrings): here, RegexOf.                   *)
(***************************************************************************)
EXTENDS LexerMachineBuilder, GrammarLanguage, SequencesExt

CONSTANTS
  StringGrammars,  \* [rules: section -> sequence of strings, main_section]
  RegexOf,         \* string -> the Regex, for the strings that are one
  MaxBuilds        \* bound: calls of Build

VARIABLES
  built_lexer,
  initialized,     \* of the Lexer: Finalize was called
  built,           \* history: the grammars of the calls that returned true
  outcomes         \* history: what the calls of Build did

builder_vars == <<built_lexer, initialized, built, outcomes>>

Rules(g) == UNION {ToSet(g.rules[s]) : s \in DOMAIN g.rules}

\* The InternalLexerGrammar: sections without a rule are not in it.
InternalGrammar(g) ==
  [sections |-> [s \in {t \in DOMAIN g.rules : g.rules[t] # << >>} |->
                   [i \in DOMAIN g.rules[s] |-> RegexOf[g.rules[s][i]]]],
   main_section |-> g.main_section]

Outcome(what) == Len(outcomes) < MaxBuilds /\ outcomes' = Append(outcomes, what)

\* Mutant: the rules read before the one that is no regex are built.
BuildRefusesRuleLate(g) ==
  LET read == [s \in DOMAIN g.rules |->
                 SelectSeq(g.rules[s], LAMBDA string : string \in DOMAIN RegexOf)]
  IN /\ ~(Rules(g) \subseteq DOMAIN RegexOf)
     /\ Outcome("LEXER_BUILDER_ERROR_INVALID_REGEX")
     /\ built_lexer' = BuiltOn(built_lexer, InternalGrammar([g EXCEPT !.rules = read]), TRUE)
     /\ UNCHANGED <<initialized, built>>

\* The exception for a rule that is no regex comes before the Lexer is touched.
BuildRefusesRule(g) ==
  /\ ~(Rules(g) \subseteq DOMAIN RegexOf)
  /\ Outcome("LEXER_BUILDER_ERROR_INVALID_REGEX")
  /\ UNCHANGED <<built_lexer, initialized, built>>

BuildRefusesEmpty(g) ==
  /\ Rules(g) = {}
  /\ Outcome("LEXER_BUILDER_ERROR_MUST_HAVE_NON_ZERO_RULES")
  /\ UNCHANGED <<built_lexer, initialized, built>>

\* InternalLexerBuilder::Build, and the assertions of Finalize, which abort.
BuildLexer(g, low) ==
  /\ Rules(g) # {} /\ Rules(g) \subseteq DOMAIN RegexOf
  /\ built_lexer' = BuiltOn(built_lexer, InternalGrammar(g), low)
  /\ IF g.main_section \in DOMAIN built_lexer'.section_to_start_state_mapping
     THEN Outcome("true") /\ initialized' = TRUE /\ built' = Append(built, g)
     ELSE Outcome("abort") /\ UNCHANGED <<initialized, built>>

IsRunning == "abort" \notin ToSet(outcomes)

LexerBuilderInit ==
  built_lexer = NewLexer /\ initialized = FALSE /\ built = << >> /\ outcomes = << >>

LexerBuilderNext ==
  /\ IsRunning
  /\ \E g \in StringGrammars :
       \/ BuildRefusesRule(g)
       \/ BuildRefusesEmpty(g)
       \/ \E low \in BOOLEAN : BuildLexer(g, low)

LexerBuilderSpec == LexerBuilderInit /\ [][LexerBuilderNext]_builder_vars

-------------------------------------------------------------------------------

States == DOMAIN built_lexer.dfa.states

\* The state after the word w from state s, or none.
RECURSIVE StateAfter(_, _)
StateAfter(s, w) ==
  IF w = << >> THEN {s}
  ELSE LET edges == built_lexer.dfa.states[s].edges
       IN IF Head(w) \in DOMAIN edges THEN StateAfter(edges[Head(w)], Tail(w)) ELSE {}

\* The first rule of the section whose string matches the word.
FirstMatch(g, section, w) ==
  LET rules == g.rules[section]
      matching == {i \in DOMAIN rules : Len(w) \in Ends(<< >>, RegexOf[rules[i]], w, {0})}
  IN IF matching = {} THEN {} ELSE {<<section, Min(matching)>>}

\* The labels of the states a Lexer may end the token w in.
LabelsAfter(section, w) ==
  {built_lexer.dfa.states[s].label :
     s \in StateAfter(built_lexer.section_to_start_state_mapping[section], w)
             \cap built_lexer.dfa.final_states}

Words == BoundedSeq({0, 1}, 3) \ {<< >>}

\* A Lexer that was built once has, in every section, the tokens and the actions
\* of the rules of that grammar, and starts in its main section, however many
\* Builds were refused before or after, in the middle of which section ever.
LexesAsBuilt ==
  IsRunning /\ Len(built) = 1 =>
    /\ initialized
    /\ built_lexer.dfa.start_state = built_lexer.section_to_start_state_mapping[built[1].main_section]
    /\ \A s \in DOMAIN built[1].rules, w \in Words :
         built[1].rules[s] # << >> =>
           LET labels == LabelsAfter(s, w)
           IN /\ labels \subseteq DOMAIN built_lexer.pattern_actions
              /\ {built_lexer.pattern_actions[k] : k \in labels} = FirstMatch(built[1], s, w)

\* Feed indexes the vector of states without a check.  However often a Lexer is
\* built, with whatever sections, no edge, no section and no start state that an
\* instance can be in leads out of the vector.
StatesAreInside ==
  initialized /\ IsRunning =>
    /\ {built_lexer.dfa.start_state} \cup built_lexer.dfa.final_states \subseteq States
    /\ Range(built_lexer.section_to_start_state_mapping) \subseteq States
    /\ \A s \in States : Range(built_lexer.dfa.states[s].edges) \subseteq States
================================================================================
