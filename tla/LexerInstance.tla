----------------------------- MODULE LexerInstance -----------------------------
(***************************************************************************)
(* include/aparse/lexer.hpp: LexerInstance, which cuts the alphabets fed    *)
(* into tokens with the DFA of a Lexer, and the scope it shares with the    *)
(* client's rule actions.                                                   *)
(*                                                                          *)
(* A client's action is external: here it notes the rule and the range it   *)
(* sees in the scope, and the line and column, and may call JumpTo.         *)
(***************************************************************************)
EXTENDS Integers, Sequences

CONSTANTS
  Lexers,      \* the Lexer objects clients create instances of
  NewLine,     \* the alphabet '\n'
  Characters,  \* the alphabets clients feed
  MaxText,     \* bound: alphabets fed between two resets
  MaxTokens,   \* bound: no End when the actions saw this many tokens
  MaxPosition  \* bound: no Reset (and no Init) when line_number, column_number
               \* and the length of buffer, which it keeps, add up to more

VARIABLES
  lexer,          \* the Lexer object, with `jumps`: rule -> section its action jumps to
  current_state,
  token_start,
  token_end,
  buffer,
  range,          \* the scope: range, line_number, column_number, next_section
  line_number,
  column_number,
  next_section,
  tokens,         \* what the actions saw since they last were cleared
  threw           \* a look-up of an action or of a section failed: at() threw

scope == <<range, line_number, column_number, next_section>>
lexer_vars == <<lexer, current_state, token_start, token_end, buffer, scope, tokens, threw>>

State(s) == lexer.dfa.states[s]
IsFinalDFAState(s) == s \in lexer.dfa.final_states

\* InvokeRuleAction: the scope's range is set before.
InvokeRuleAction(label) ==
  LET rule == lexer.pattern_actions[label]
  IN /\ range' = <<token_start, token_end>>
     /\ tokens' = Append(tokens, [rule |-> rule, range |-> range',
                                  line |-> line_number, column |-> column_number])
     /\ next_section' = IF rule \in DOMAIN lexer.jumps THEN lexer.jumps[rule]
                        ELSE next_section

SectionStarts == lexer.section_to_start_state_mapping
HasAction(label) == label \in DOMAIN lexer.pattern_actions

\* Mutant: a new line does not start a new count of columns.
AdvancedButColumn(line, column, text) ==
  LET at[i \in 0..Len(text)] ==
        IF i = 0 THEN <<line, column>>
        ELSE IF text[i] = NewLine THEN <<at[i - 1][1] + 1, at[i - 1][2]>>
        ELSE <<at[i - 1][1], at[i - 1][2] + 1>>
  IN at[Len(text)]

\* What the alphabets of a token do to the scope's position.
Advanced(line, column, text) ==
  LET at[i \in 0..Len(text)] ==
        IF i = 0 THEN <<line, column>>
        ELSE IF text[i] = NewLine THEN <<at[i - 1][1] + 1, 0>>
        ELSE <<at[i - 1][1], at[i - 1][2] + 1>>
  IN at[Len(text)]

\* The token so far cannot go on with a.
TokenEnds(a) == a \notin DOMAIN State(current_state).edges /\ IsFinalDFAState(current_state)

-------------------------------------------------------------------------------

\* a continues the token, or is refused: nothing changes then.
FeedContinues(a) ==
  /\ ~TokenEnds(a)
  /\ a \in DOMAIN State(current_state).edges
  /\ current_state' = State(current_state).edges[a]
  /\ buffer' = Append(buffer, a)
  /\ token_end' = token_end + 1
  /\ UNCHANGED <<lexer, token_start, scope, tokens, threw>>

FeedRefused(a) ==
  /\ ~TokenEnds(a)
  /\ a \notin DOMAIN State(current_state).edges
  /\ UNCHANGED lexer_vars

\* The token ends before a, its action runs, and a starts a token of the section
\* the action chose, or is refused: the token before it stays cut.
FeedCuts(a) ==
  /\ TokenEnds(a)
  /\ HasAction(State(current_state).label)
  /\ InvokeRuleAction(State(current_state).label)
  /\ next_section' \in DOMAIN SectionStarts
  /\ LET position == Advanced(line_number, column_number, buffer)
         start == SectionStarts[next_section']
         edges == State(start).edges
     IN /\ line_number' = position[1]
        /\ column_number' = position[2]
        /\ token_start' = token_end
        /\ \/ /\ a \in DOMAIN edges
              /\ current_state' = edges[a]
              /\ buffer' = <<a>>
              /\ token_end' = token_end + 1
           \/ /\ a \notin DOMAIN edges
              /\ current_state' = start
              /\ buffer' = << >>
              /\ UNCHANGED token_end
  /\ UNCHANGED <<lexer, threw>>

\* No action has the label; or it ran, and chose a section that does not exist.
FeedThrows(a) ==
  /\ TokenEnds(a)
  /\ \/ /\ ~HasAction(State(current_state).label)
        /\ range' = <<token_start, token_end>>
        /\ UNCHANGED <<next_section, tokens>>
     \/ /\ HasAction(State(current_state).label)
        /\ Len(tokens) < MaxTokens
        /\ InvokeRuleAction(State(current_state).label)
        /\ next_section' \notin DOMAIN SectionStarts
  /\ threw' = TRUE
  /\ UNCHANGED <<lexer, current_state, token_start, token_end, buffer,
                 line_number, column_number>>

FeedCharacter(a) ==
  /\ token_end < MaxText
  /\ FeedContinues(a) \/ FeedRefused(a) \/ FeedCuts(a) \/ FeedThrows(a)

\* End leaves the instance where it is: a second End runs the action again.
EndText ==
  /\ Len(tokens) < MaxTokens
  /\ IsFinalDFAState(current_state)
  /\ \/ /\ HasAction(State(current_state).label)
        /\ InvokeRuleAction(State(current_state).label)
        /\ UNCHANGED threw
     \/ /\ ~HasAction(State(current_state).label)
        /\ range' = <<token_start, token_end>>
        /\ threw' = TRUE
        /\ UNCHANGED <<next_section, tokens>>
  /\ UNCHANGED <<lexer, current_state, token_start, token_end, buffer,
                 line_number, column_number>>

\* Mutant: Reset forgets the section.
RestartedInSection(l) ==
  /\ next_section' = next_section
  /\ current_state' = l.dfa.start_state
  /\ token_start' = 0
  /\ token_end' = 0

\* What Reset assigns; buffer, range, line_number and column_number stay.
Restarted(l) ==
  /\ next_section' = l.main_section
  /\ current_state' = l.dfa.start_state
  /\ token_start' = 0
  /\ token_end' = 0

ResetLexer ==
  /\ line_number + column_number + Len(buffer) <= MaxPosition
  /\ Restarted(lexer)
  /\ UNCHANGED <<lexer, buffer, range, line_number, column_number, threw>>

\* Init with a new scope.
InitWithScope ==
  /\ Restarted(lexer)
  /\ range' = <<0, 0>>
  /\ line_number' = 1
  /\ column_number' = 0
  /\ UNCHANGED lexer

\* Of the same instance, whose buffer stays, and of a new one.
InitLexer ==
  Len(buffer) < MaxPosition /\ InitWithScope /\ UNCHANGED <<buffer, threw>>
CreateInstance == InitWithScope /\ buffer' = << >> /\ threw' = FALSE

LexerStart(l) ==
  /\ lexer = l
  /\ current_state = l.dfa.start_state
  /\ token_start = 0
  /\ token_end = 0
  /\ buffer = << >>
  /\ range = <<0, 0>>
  /\ line_number = 1
  /\ column_number = 0
  /\ next_section = l.main_section
  /\ tokens = << >>
  /\ threw = FALSE

LexerInit == \E l \in Lexers : LexerStart(l)

FeedOrEnd == (\E a \in Characters : FeedCharacter(a)) \/ EndText

\* The client drops its tokens when it starts the lexer anew.
LexerNext ==
  \/ FeedOrEnd
  \/ (ResetLexer \/ InitLexer \/ CreateInstance) /\ tokens' = << >>

LexerSpec == LexerInit /\ [][LexerNext]_lexer_vars
================================================================================
