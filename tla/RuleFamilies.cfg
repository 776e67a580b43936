CONSTANTS
  Parsers <- BuiltParsers
  Acceptable <- IsAcceptablePrefix
  InLanguage <- Accepts
  IsTreeOf <- IsParseTree
  Grammars <- RuleFamilies
  Machines <- NoMachines
  Written <- SomeWritten
  Alphabets = {0, 1, 2, 3, 4, 5, 6}
  MaxStream = 6
  MaxTree = 8
SPECIFICATION FamiliesSpec
INVARIANTS
  AcceptsLanguage
  FeedIffAcceptable
  TreesOfFlatUnionsAreValid
  BuiltMachineIsWellFormed
  RulesAreFollowed
CHECK_DEADLOCK FALSE
