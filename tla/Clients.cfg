CONSTANTS
  Parsers <- BuiltParsers
  Acceptable <- IsAcceptablePrefix
  InLanguage <- Accepts
  IsTreeOf <- IsParseTree
  Grammars <- Client
  Machines <- NoMachines
  Alphabets <- ClientAlphabets
  MaxStream = 3
  MaxTree = 6
  Silent = {2}
  MaxCalls = 1
SPECIFICATION FairMakerSpec
INVARIANTS
  EndsComplete
  EndAddsParseTree
  ActionsSeeWhatIsMet
PROPERTIES
  TreeFitsUntilInit
  WalkReturns
