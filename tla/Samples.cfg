CONSTANTS
  Parsers <- BuiltParsers
  Acceptable <- IsAcceptablePrefix
  InLanguage <- Accepts
  IsTreeOf <- IsParseTree
  Grammars <- Samples
  Machines <- BuiltMachines
  Region <- RegionOf
  Alphabets = {0, 1, 2, 3, 4, 5, 6, 7, 8, 9}
  MaxStream = 6
  MaxTree = 1
SPECIFICATION SamplesSpec
INVARIANTS
  IInv
  FollowsEveryRun
  PopsAreMatched
  WalksBackToStart
  AcceptsLanguage
  PossibleAlphabetsExact
  ParseTreesAreValid
  RefusalsAreExplained
PROPERTIES
  ImplementsRecognizer
  UnfinishedTextsAreExplained
CHECK_DEADLOCK FALSE
