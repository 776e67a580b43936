CONSTANTS
  Clients = {"one alphabet"}
  LexerGrammars <- SomeLexers
  Lexers <- NoLexers
  LexersOf <- BuiltLexers
  Begins <- BeginsToken
  Matches <- MatchingRules
  NewLine = 4
  Characters = {1, 2}
  MaxText = 3
  MaxTokens = 3
  MaxPosition = 3
  StringGrammars <- SomeGrammars
  RegexOf <- SomeStrings
  MaxBuilds = 4
SPECIFICATION ClientsSpec
INVARIANTS
  ActionsExist
