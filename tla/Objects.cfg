CONSTANTS
  Clients = {"one text", "texts", "builds"}
  LexerGrammars <- SomeLexers
  Lexers <- NoLexers
  LexersOf <- BuiltLexers
  Begins <- BeginsToken
  Matches <- MatchingRules
  NewLine = 4
  Characters = {0, 1, 2, 3, 4}
  MaxText = 4
  MaxTokens = 3
  MaxPosition = 2
  StringGrammars <- SomeGrammars
  RegexOf <- SomeStrings
  MaxBuilds = 4
  Grammars <- Releases
  OldFiles <- Version2
  Mixes = FALSE
  SimpleChecksum <- TextItself
  MaxMachines = 2
  Objects = {v1, v2, v3}
  Addresses = {p1, p2, p3, p4}
  Types = {"RuleAction", "LexerAction"}
  Data = {"f", "g"}
  null = null
  Free = Free
  NoType = NoType
  Regexes = {o1, o2}
  SymbolOrder <- TwoNames
  MaxNodes = 6
  MaxLabels = 2
  MaxWord = 3
SPECIFICATION ObjectsSpec
INVARIANTS
  StateKnowsToken
  FirstPositionsMatchText
  LexesAsBuilt
  StatesAreInside
  TablesHaveItsChecksum
  InstancesStayValid
  OwnedOnce
  CastsAreSound
  BuildsWhatIsMeant
PROPERTIES
  ImplementsTokenizer
  ImportsItsOwnExport
  ImplementsValues
CHECK_DEADLOCK FALSE
