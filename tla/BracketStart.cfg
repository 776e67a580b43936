CONSTANTS
  Parsers <- BuiltParsers
  Acceptable <- IsAcceptablePrefix
  InLanguage <- Accepts
  IsTreeOf <- IsParseTree
  Grammars <- BracketStart
  Machines <- NoMachines
  Written <- None
  Alphabets = {0, 1, 2, 3, 4}
  MaxStream = 4
  MaxTree = 8
SPECIFICATION FamiliesSpec
INVARIANTS
  FeedIffAcceptable
