CONSTANTS
  Parsers <- BuiltParsers
  Acceptable <- IsAcceptablePrefix
  InLanguage <- Accepts
  IsTreeOf <- IsParseTree
  Grammars <- EndsEmpty
  Machines <- NoMachines
  Alphabets <- ClientAlphabets
  MaxStream = 3
  MaxTree = 6
  Silent = {}
  MaxCalls = 0
SPECIFICATION MakerSpec
INVARIANTS
  ActionsSeeTheirInstance
