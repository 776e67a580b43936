CONSTANTS
  Parsers <- BuiltParsers
  Acceptable <- IsAcceptablePrefix
  InLanguage <- Accepts
  IsTreeOf <- IsParseTree
  Grammars <- Optional
  Machines <- NoMachines
  Written <- None
  Alphabets = {0, 1}
  MaxStream = 3
  MaxTree = 8
SPECIFICATION FamiliesSpec
INVARIANTS
  ParseTreesAreValid
