CONSTANTS
  Grammars <- Releases
  OldFiles <- Version2
  Mixes = FALSE
  SimpleChecksum <- TextItself
  MaxMachines = 2
  Objects = {v1, v2, v3}
  Addresses = {p1, p2, p3, p4}
  Types = {"RuleAction", "LexerAction"}
  Data = {"f", "g"}
  null = null
  Free = Free
  NoType = NoType
SPECIFICATION PartsSpec
INVARIANTS
  ParsesItsGrammar
