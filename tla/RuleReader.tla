------------------------------- MODULE RuleReader -------------------------------
(***************************************************************************)
(* ParseRegexRule::Parse (src/parse_regex_rule.cpp): the text of a rule is  *)
(* cut into tokens by a lexer of its own, the tokens are fed to a parser of *)
(* its own, and the rule's value is made from the parse tree.  The call     *)
(* returns false, with an Error, at the first character or token refused.   *)
(*                                                                          *)
(* The 256 characters are classes: 0 any that no token begins with, 1 a     *)
(* letter or _, 2 a digit, 3 <, 4 >, 5 the double and 6 the single quote,   *)
(* 7 \, 8 a space, 9 (, 10 ), 11 [, 12 ], 13 +, 14 *, 15 ?, 16 ^, 17 :,     *)
(* 18 =, 19 |.                                                              *)
(***************************************************************************)
EXTENDS RuleStrings

CONSTANTS
  Texts,        \* what is read first: texts, each a sequence of [type, chars]: type is
                \* the TokenType that is meant, Space, or Broken for no token
  LaterTexts    \* bound: what later calls read

VARIABLES
  pieces,       \* the text of the call
  stage,        \* "idle", then of a call "lexing", "parsing", and "read" or "refused"
  error,
  lexer, current_state, token_start, token_end, buffer, range,
  line_number, column_number, next_section, tokens, threw

Space == -1
Broken == -2
AlphabetSize == 20

lexer_variables ==
  <<lexer, current_state, token_start, token_end, buffer, range, line_number,
    column_number, next_section, tokens, threw>>
reader_vars == <<system_vars, pieces, stage, error, lexer_variables>>

\* The lexer reads all the text of one call; its bounds do not matter.
Lexing == INSTANCE LexerInstance WITH
  Lexers <- {}, NewLine <- -1, Characters <- 0..AlphabetSize - 1,
  MaxText <- 1000, MaxTokens <- 1000, MaxPosition <- 1000
Builder == INSTANCE LexerMachineBuilder

-------------------------------------------------------------------------------
(* BuildGrammarRegexLexer *)

AtomsOf(chars) == Alt([k \in DOMAIN chars |-> Atom(chars[k])])
AnyOf(S) == AtomsOf(SelectSeq(Between(0, AlphabetSize - 1), LAMBDA a : a \in S))
AllAlphabetExceptSomeRegex(S) == AnyOf((0..AlphabetSize - 1) \ S)

Literal == Cat(<<Atom(1), Star(AnyOf({1, 2}))>>)
NonTerminal == Cat(<<Atom(3), Atom(1), Star(AnyOf({1, 2})), Atom(4)>>)
Quoted(quote) ==
  Cat(<<Atom(quote),
        Star(Alt(<<AllAlphabetExceptSomeRegex({quote, 7}),
                   Cat(<<Atom(7), AnyOf(0..AlphabetSize - 1)>>)>>)),
        Atom(quote)>>)

\* The first rules, and those of the table of symbols.
WordRules ==
  <<[regex |-> Literal, type |-> 1], [regex |-> NonTerminal, type |-> 0],
    [regex |-> Alt(<<Quoted(5), Quoted(6)>>), type |-> 6],
    [regex |-> Plus(AnyOf({8})), type |-> Space]>>

SymbolRules ==
  <<[regex |-> Atom(9), type |-> 5], [regex |-> Atom(10), type |-> 8],
    [regex |-> Atom(11), type |-> 9], [regex |-> Atom(12), type |-> 10],
    [regex |-> Atom(13), type |-> 2], [regex |-> Atom(14), type |-> 3],
    [regex |-> Atom(15), type |-> 7], [regex |-> Atom(16), type |-> 11],
    [regex |-> Cat(<<Atom(17), Atom(17), Atom(18)>>), type |-> 12],
    [regex |-> Atom(19), type |-> 13]>>

\* The table is walked in any order: here, in this one or backwards.
LexerRules(low) == WordRules \o (IF low THEN SymbolRules ELSE Reverse(SymbolRules))

RuleLexer(low) ==
  LET rules == LexerRules(low)
      g == [sections |-> 0 :> [k \in DOMAIN rules |-> rules[k].regex],
            main_section |-> 0, jumps |-> [r \in {} |-> 0]]
  IN [jumps |-> g.jumps, types |-> [k \in DOMAIN rules |-> rules[k].type]]
       @@ Builder!LexerOf(g, low)

-------------------------------------------------------------------------------
(* The call *)

Text(ps) == FlattenSeq([k \in DOMAIN ps |-> ps[k].chars])
text == Text(pieces)

\* The tokens of the lexer's scope: spaces have no action.
TypeOf(token) == lexer.types[token.rule[2]]
ScopeTokens == SelectSeq(tokens, LAMBDA token : TypeOf(token) # Space)

Success == [status |-> "SUCCESS", position |-> <<0, 0>>]
Error(status, first, second) == [status |-> status, position |-> <<first, second>>]

Refuse(e) == stage' = "refused" /\ error' = e

\* What the first call builds, and keeps for all.
ReaderInit ==
  \E low \in BOOLEAN :
    /\ pieces = << >>
    /\ grammar = RuleGrammar
    /\ built = MachineOf(RuleGrammar, low)
    /\ InstanceStart(built)
    /\ Lexing!LexerStart(RuleLexer(low))
    /\ stage = "idle"
    /\ error = Success

\* Mutant: the parser's instance is kept like the parser.
CallWithInstance(ps) ==
  /\ stage \in {"idle", "read", "refused"}
  /\ pieces' = ps
  /\ stage' = "lexing"
  /\ error' = Success
  /\ Lexing!CreateInstance /\ tokens' = << >>
  /\ UNCHANGED system_vars

\* A call has instances of its own.
Call(ps) ==
  /\ stage \in {"idle", "read", "refused"}
  /\ pieces' = ps
  /\ stage' = "lexing"
  /\ error' = Success
  /\ Lexing!CreateInstance /\ tokens' = << >>
  /\ ClientReset

\* Mutant: the position is read before the token is cut.
LexFeedReadBefore ==
  /\ stage = "lexing" /\ token_end < Len(text)
  /\ LET a == text[token_end + 1]
     IN Lexing!FeedContinues(a) \/ Lexing!FeedRefused(a) \/ Lexing!FeedCuts(a)
  /\ IF token_end' > token_end THEN UNCHANGED <<stage, error>>
     ELSE Refuse(Error("LEXER_ERROR_INVALID_TOKENS", token_start, token_end + 1))
  /\ UNCHANGED <<system_vars, pieces>>

\* A character that is refused may end the token before it.  (An exception would
\* end the call: it is no step here.)
LexFeed ==
  /\ stage = "lexing" /\ token_end < Len(text)
  /\ LET a == text[token_end + 1]
     IN Lexing!FeedContinues(a) \/ Lexing!FeedRefused(a) \/ Lexing!FeedCuts(a)
  /\ IF token_end' > token_end THEN UNCHANGED <<stage, error>>
     ELSE Refuse(Error("LEXER_ERROR_INVALID_TOKENS", token_start', token_end' + 1))
  /\ UNCHANGED <<system_vars, pieces>>

LexEnd ==
  /\ stage = "lexing" /\ token_end = Len(text)
  /\ IF Lexing!IsFinalDFAState(current_state)
     THEN Lexing!EndText /\ stage' = "parsing" /\ UNCHANGED error
     ELSE /\ Refuse(Error("LEXER_ERROR_INCOMPLETE_TOKENS", token_start, token_end + 1))
          /\ UNCHANGED lexer_variables
  /\ UNCHANGED <<system_vars, pieces>>

ParseFeed ==
  /\ stage = "parsing" /\ Len(stream) < Len(ScopeTokens)
  /\ LET a == TypeOf(ScopeTokens[Len(stream) + 1])
     IN /\ ClientFeed(a)
        /\ IF FeedSucceeds(a) THEN UNCHANGED <<stage, error>>
           ELSE Refuse(Error("PARSING_ERROR_INVALID_TOKENS", Len(stream), 1))
  /\ UNCHANGED <<pieces, lexer_variables>>

\* End, and the value that CreateSyntaxTree makes of the tree: Output.
ParseEnd ==
  /\ stage = "parsing" /\ Len(stream) = Len(ScopeTokens)
  /\ IF IsFinal
     THEN End /\ stage' = "read" /\ UNCHANGED <<parser, error>>
     ELSE /\ Refuse(Error("PARSING_ERROR_INCOMPLETE_TOKENS", 0, 0))
          /\ UNCHANGED system_vars
  /\ UNCHANGED <<pieces, lexer_variables>>

ParseNext == LexFeed \/ LexEnd \/ ParseFeed \/ ParseEnd
ReaderNext ==
  \/ ParseNext
  \/ stage = "idle" /\ \E ps \in Texts : Call(ps)
  \/ \E ps \in LaterTexts : Call(ps)

ReaderSpec == ReaderInit /\ [][ReaderNext]_reader_vars

-------------------------------------------------------------------------------

TypesOf(ps) == [k \in DOMAIN ps |-> ps[k].type]
Visible(ps) == SelectSeq(ps, LAMBDA p : p.type # Space)
IsMadeOfTokens == \A p \in ToSet(pieces) : p.type # Broken

\* Where in the text the k-th piece is, as [first, end[ from 0.
Place(k) == <<Len(Text(SubSeq(pieces, 1, k - 1))), Len(Text(SubSeq(pieces, 1, k)))>>
VisiblePlaces ==
  LET at == SelectSeq(Between(1, Len(pieces)), LAMBDA k : pieces[k].type # Space)
  IN [i \in DOMAIN at |-> Place(at[i])]

\* Parse reads exactly the texts of rules, however their tokens are spaced: the
\* parser is fed the tokens the text is made of, each with its own place in the
\* text, which is where the names in the rule's value come from, and the value
\* is what the text says (parse_regex_rule.hpp; IsPlain leaves out the shapes of
\* the README's finding 5).
TextsAreRead ==
  /\ stage = "read" =>
       /\ IsMadeOfTokens
       /\ stream = TypesOf(Visible(pieces))
       /\ [k \in DOMAIN ScopeTokens |-> ScopeTokens[k].range] = VisiblePlaces
       /\ IsPlain => Output = Meaning
  /\ stage = "refused" =>
       ~(IsMadeOfTokens /\ Accepts(RuleGrammar, TypesOf(Visible(pieces))))

BeginsToken(w) == \E rule \in ToSet(LexerRules(TRUE)) : Viable(<< >>, rule.regex, w, {0})
IsToken(w) == \E rule \in ToSet(LexerRules(TRUE)) : Len(w) \in Ends(<< >>, rule.regex, w, {0})

\* The position of an Error is where the text stops to be one: a range that no
\* token begins with, though one begins, and does not end, with all of it but the
\* last character; or the number of tokens that can begin a rule, though
\* not with the next one (lexer.hpp and v2/core_parser.cpp, Feed and End).
RefusalsPointAtTheCause ==
  LET part(last) == SubSeq(text, error.position[1] + 1, last)
      fed == [k \in DOMAIN ScopeTokens |-> TypeOf(ScopeTokens[k])]
  IN CASE error.status = "SUCCESS" -> stage # "refused"
       [] error.status = "LEXER_ERROR_INVALID_TOKENS" ->
            /\ ~BeginsToken(part(error.position[2]))
            /\ BeginsToken(part(error.position[2] - 1))
            /\ ~IsToken(part(error.position[2] - 1))
       [] error.status = "LEXER_ERROR_INCOMPLETE_TOKENS" ->
            /\ error.position[2] = Len(text) + 1
            /\ BeginsToken(part(Len(text))) /\ ~IsToken(part(Len(text)))
       [] error.status = "PARSING_ERROR_INVALID_TOKENS" ->
            /\ IsAcceptablePrefix(RuleGrammar, SubSeq(fed, 1, error.position[1]))
            /\ ~IsAcceptablePrefix(RuleGrammar, SubSeq(fed, 1, error.position[1] + 1))
       [] error.status = "PARSING_ERROR_INCOMPLETE_TOKENS" ->
            /\ IsAcceptablePrefix(RuleGrammar, fed)
            /\ ~Accepts(RuleGrammar, fed)
================================================================================
