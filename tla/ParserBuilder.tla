------------------------------ MODULE ParserBuilder ------------------------------
(***************************************************************************)
(* ParserBuilder and InternalParserBuilder (src/parser_builder.cpp,         *)
(* src/internal_parser_builder.cpp): how a program gets its Parser object,  *)
(* by building it from a grammar or by importing the bytes that an earlier  *)
(* process exported, and the instances that point into the object.  A       *)
(* behaviour is a series of processes of a program; what a process holds in *)
(* memory is lost when it ends, the stored bytes are not, and the next      *)
(* process may be another release of the program, with another grammar.     *)
(*                                                                         *)
(* A grammar is a ParserGrammar: rules and their actions, symbols (pairs    *)
(* <<name, number>> of string_to_alphabet_map, in the order an iterator     *)
(* visits them), branching (pairs of names) and main.  Names and rules are  *)
(* sequences of characters, since the checksum is over the text they make   *)
(* together.  What is built from a grammar is a tagged value.               *)
(***************************************************************************)
EXTENDS Naturals, SequencesExt

CONSTANTS
  Grammars,      \* those that Build accepts
  OldFiles,      \* stored bytes of earlier releases of the library
  Mixes,         \* TRUE: a process uses one Parser object for several grammars
  MaxMachines,   \* bound: machines allocated by one process
  SimpleChecksum(_)   \* of a text

VARIABLES
  parser,        \* the Parser object of the process
  machines_made, \* machines allocated by the process: the last one's address
  instances,     \* addresses of the machines that ParserInstances point to
  file,          \* the stored bytes
  program,       \* the grammar of the program that runs
  reply          \* the last call and its result

store_vars == <<parser, machines_made, instances, file, program, reply>>

\* No machine; TLC can compare an empty tuple with one.
nullptr == << >>
ImportVersion == 3

\* What the language of a grammar depends on.  Branching alphabets only decide
\* whether a machine exists.
Meaning(g) == [rules |-> g.rules, symbols |-> Range(g.symbols), main |-> g.main]

HexDigits == <<"0", "1", "2", "3", "4", "5", "6", "7", "8", "9", "a", "b", "c", "d", "e", "f">>

\* A number as std::hex writes it; setw(4) is for the first one only.
Hex[n \in Nat] ==
  IF n < 16 THEN <<HexDigits[n + 1]>> ELSE Append(Hex[n \div 16], HexDigits[(n % 16) + 1])
Padded(digits) == [i \in 1..4 - Len(digits) |-> "0"] \o digits

Sized(string) == Hex[Len(string)] \o string

\* The text that AdvanceParserRulesToGrammarHash writes: nothing stands between a
\* number and the size or the name after it, and branching names have no size.
GrammarText(g) ==
  Padded(Hex[Len(g.rules)])
    \o FlattenSeq([i \in DOMAIN g.rules |-> Sized(g.rules[i])])
    \o Hex[Len(g.symbols)]
    \o FlattenSeq([i \in DOMAIN g.symbols |-> Sized(g.symbols[i][1]) \o Hex[g.symbols[i][2]]])
    \o Hex[Len(g.branching)]
    \o FlattenSeq([i \in DOMAIN g.branching |-> g.branching[i][1] \o g.branching[i][2]])
    \o Sized(g.main)

GrammarHash(g) == SimpleChecksum(GrammarText(g))

ASSUME OldFilesHaveOldVersions == \A f \in OldFiles : f[1] # ImportVersion
ASSUME MaxMachinesNat == MaxMachines \in Nat
ASSUME EachRuleHasAnAction == \A g \in Grammars : Len(g.actions) = Len(g.rules)

-------------------------------------------------------------------------------
\* Values of one grammar.

RuleAtoms(g) == <<"rule_atoms", Meaning(g)>>
RuleNonTerminals(g) == <<"rule_non_terminals", Meaning(g)>>

BuiltMachine(g) ==
  [nfa_map |-> <<"nfa_map", Meaning(g)>>,
   start_state |-> <<"start_state", Meaning(g)>>,
   final_states |-> <<"final_states", Meaning(g)>>,
   nfa_lookup_map |-> <<"nfa_lookup_map", Meaning(g)>>,
   enclosed_subnfa_map |-> <<"enclosed_subnfa_map", Meaning(g)>>]

\* AParseMachine::Serialize and Deserialize.
Serialize(m) ==
  <<m.nfa_map, m.start_state, m.final_states, m.nfa_lookup_map, m.enclosed_subnfa_map>>

\* Mutant: two fields are read in the wrong order.
DeserializeSwapped(bytes, from) ==
  [nfa_map |-> bytes[from],
   start_state |-> bytes[from + 2],
   final_states |-> bytes[from + 1],
   nfa_lookup_map |-> bytes[from + 3],
   enclosed_subnfa_map |-> bytes[from + 4]]

Deserialize(bytes, from) ==
  [nfa_map |-> bytes[from],
   start_state |-> bytes[from + 1],
   final_states |-> bytes[from + 2],
   nfa_lookup_map |-> bytes[from + 3],
   enclosed_subnfa_map |-> bytes[from + 4]]

NewParser ==
  [machine |-> nullptr, address |-> 0, rule_actions |-> << >>, rule_atoms |-> << >>,
   rule_non_terminals |-> << >>, is_finalized |-> FALSE]

\* Parser::Finalize, on the members that Build and Import set.
FinalizedParser(machine, address, rule_actions, rule_atoms, rule_non_terminals) ==
  [machine |-> machine, address |-> address, rule_actions |-> rule_actions,
   rule_atoms |-> rule_atoms, rule_non_terminals |-> rule_non_terminals,
   is_finalized |-> TRUE]

\* What InternalParserBuilder::Build makes of a grammar and actions.
BuiltParser(g, rule_actions, address) ==
  FinalizedParser(BuiltMachine(g), address, rule_actions, RuleAtoms(g), RuleNonTerminals(g))

-------------------------------------------------------------------------------
\* The steps of a process.

\* The grammars a process has in hand.
InHand == IF Mixes THEN Grammars ELSE {program}

NewMachine ==
  /\ machines_made < MaxMachines
  /\ machines_made' = machines_made + 1

\* ParserBuilder::Build: nothing happens if the object already is a parser.
Build(g) ==
  /\ reply' = [call |-> "Build", grammar |-> g, ok |-> TRUE]
  /\ IF parser.is_finalized
       THEN UNCHANGED <<parser, machines_made>>
       ELSE /\ NewMachine
            /\ parser' = BuiltParser(g, g.actions, machines_made + 1)
  /\ UNCHANGED <<instances, file, program>>

\* Mutant: the checksum is not compared.
ImportAcceptsAnyGrammar(bytes, hash, rule_actions) ==
  /\ bytes # << >>
  /\ bytes[1] = ImportVersion
  /\ bytes[3] = Len(rule_actions)

\* The checks of InternalParserBuilder::Import, in the order of its early returns.
ImportAccepts(bytes, hash, rule_actions) ==
  /\ bytes # << >>
  /\ bytes[1] = ImportVersion
  /\ bytes[2] = hash
  /\ bytes[3] = Len(rule_actions)

\* Mutant: an object that already is a parser is filled again.
ImportAnew(g) ==
  LET accepted == ImportAccepts(file, GrammarHash(g), g.actions)
  IN /\ reply' = [call |-> "Import", grammar |-> g, ok |-> accepted]
     /\ IF ~accepted
          THEN UNCHANGED <<parser, machines_made>>
          ELSE /\ NewMachine
               /\ parser' = FinalizedParser(Deserialize(file, 6), machines_made + 1,
                                            g.actions, file[4], file[5])
     /\ UNCHANGED <<instances, file, program>>

\* ParserBuilder::Import: an object that already is a parser is left alone, with
\* success.
Import(g) ==
  LET accepted == ImportAccepts(file, GrammarHash(g), g.actions)
  IN /\ reply' = [call |-> "Import", grammar |-> g, ok |-> parser.is_finalized \/ accepted]
     /\ IF parser.is_finalized \/ ~accepted
          THEN UNCHANGED <<parser, machines_made>>
          ELSE /\ NewMachine
               /\ parser' = FinalizedParser(Deserialize(file, 6), machines_made + 1,
                                            g.actions, file[4], file[5])
     /\ UNCHANGED <<instances, file, program>>

\* Mutant: the number of actions is off by one.
ExportedBytesMiscounted(p, hash) ==
  <<ImportVersion, hash, Len(p.rule_actions) + 1, p.rule_atoms, p.rule_non_terminals>>
    \o Serialize(p.machine)

ExportedBytes(p, hash) ==
  <<ImportVersion, hash, Len(p.rule_actions), p.rule_atoms, p.rule_non_terminals>>
    \o Serialize(p.machine)

\* ParserBuilder::Export, which dereferences the machine, and a client that
\* stores the bytes.
Export(g) ==
  /\ parser.is_finalized
  /\ file' = ExportedBytes(parser, GrammarHash(g))
  /\ reply' = [call |-> "Export", grammar |-> g, ok |-> TRUE]
  /\ UNCHANGED <<parser, machines_made, instances, program>>

\* ParserInstance::Init, which asserts that the object is a parser.
CreateParserInstance ==
  /\ parser.is_finalized
  /\ instances' = instances \cup {parser.address}
  /\ UNCHANGED <<parser, machines_made, file, program, reply>>

\* The process ends, at any time; a release of the program starts.
Restart ==
  /\ program' \in Grammars
  /\ parser' = NewParser
  /\ machines_made' = 0
  /\ instances' = {}
  /\ reply' = [call |-> "none", grammar |-> program', ok |-> TRUE]
  /\ UNCHANGED file

StoreInit ==
  /\ program \in Grammars
  /\ parser = NewParser
  /\ machines_made = 0
  /\ instances = {}
  /\ file \in {<< >>} \cup OldFiles
  /\ reply = [call |-> "none", grammar |-> program, ok |-> TRUE]

StoreNext ==
  \/ \E g \in InHand : Build(g) \/ Import(g) \/ Export(g)
  \/ CreateParserInstance
  \/ Restart

StoreSpec == StoreInit /\ [][StoreNext]_store_vars

-------------------------------------------------------------------------------

\* A parser object is complete or untouched, and its parts and those of the stored
\* bytes are where they belong (Finalize, Export and Import).
StoreTypeOK ==
  /\ program \in Grammars
  /\ machines_made \in 0..MaxMachines
  /\ instances \subseteq 1..machines_made
  /\ parser.is_finalized \in BOOLEAN
  /\ ~parser.is_finalized => parser = NewParser
  /\ parser.is_finalized =>
       \E g, h \in Grammars : parser = BuiltParser(g, h.actions, machines_made)
  /\ file \in {<< >>} \cup OldFiles \/ Len(file) = 10

\* The tables are those of `g`, up to what Meaning drops.
HasTablesOf(g) ==
  /\ parser.machine = BuiltMachine(g)
  /\ parser.rule_atoms = RuleAtoms(g)
  /\ parser.rule_non_terminals = RuleNonTerminals(g)

\* Whatever earlier releases stored and exported again, and whatever restarts fall
\* between the calls, a program that uses its Parser object for its own grammar runs
\* its own actions, and on tables of a grammar with the checksum of its own: "Import
\* will fail if the checksum of the given parser_grammar is different from the
\* checksum of the original grammar" (parser_builder.hpp; Build, Import, Export).
TablesHaveItsChecksum ==
  parser.is_finalized =>
    /\ parser.rule_actions = program.actions
    /\ \E g \in Grammars : GrammarHash(g) = GrammarHash(program) /\ HasTablesOf(g)

\* What the checksum is for: the tables are of the grammar that the program gives to
\* Build or Import, and not of one that it merely cannot be told from
\* (parser_builder.hpp, on Import and on Build).
ParsesItsGrammar ==
  parser.is_finalized => HasTablesOf(program) /\ parser.rule_actions = program.actions

\* No call takes the machine away that an instance points to: "Parser Object must
\* remain a constant object" (parser.hpp) is kept by Build and Import themselves.
InstancesStayValid == \A i \in instances : i = parser.address

\* The stored bytes are those of the parser that Build makes of g.
IsOwnExport(g) == file = ExportedBytes(BuiltParser(g, g.actions, 1), GrammarHash(g))

\* Bytes that were exported for a grammar are accepted in every later process that
\* has the same grammar, and make of an object that is no parser yet the parser that
\* Build would make (Export, Import, and the operators << and >> of the machine).
ImportsItsOwnExport ==
  [][\A g \in Grammars :
       reply'.call = "Import" /\ reply'.grammar = g /\ IsOwnExport(g) =>
         /\ reply'.ok
         /\ ~parser.is_finalized => parser' = BuiltParser(g, g.actions, machines_made')]_store_vars
================================================================================
