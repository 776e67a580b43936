CONSTANTS
  Parsers <- BuiltParsers
  Acceptable <- IsAcceptablePrefix
  InLanguage <- Accepts
  IsTreeOf <- IsParseTree
  Grammars <- FrontEnd
  Machines <- None
  Alphabets = {0, 1, 2, 3, 4, 5, 6, 7, 8, 9, 10, 11, 12, 13, 14}
  MaxStream = 100
  MaxTree = 100
  EpsilonAt = {4}
  Typed <- TypedTokens
  MaxText <- TextLengths
  Texts <- SomeTexts
  LaterTexts <- OneName
  FrontEndParts = {"texts", "checks"}
  GraphNodes = 3
SPECIFICATION PartsSpec
INVARIANTS
  PlainTextsAreRead
  TextsAreRead
  RefusalsPointAtTheCause
  SearchesDetectCycles
  SortedAfterDependencies
  CyclesOutsideBracketsAreRefused
  ValidRulesNestBrackets
  ValidGrammarsAreBuildable
