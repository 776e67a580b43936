--------------------------- MODULE ParserBuilderProofs ---------------------------
(***************************************************************************)
(* What holds of ParserBuilder for every set of grammars, every checksum and*)
(* any files of earlier releases; and that the any objects its actions are  *)
(* kept in own their values, for any objects, addresses, types and values.  *)
(***************************************************************************)
EXTENDS ParserBuilder, AnyValue, TLAPS

\* A parser object of a process: untouched, or the tables of one grammar with the
\* actions of one; unless the program mixes grammars the actions are its own, and the
\* tables are of a grammar with its checksum.
ParserObject ==
  /\ ~parser.is_finalized => parser = NewParser /\ instances = {}
  /\ parser.is_finalized =>
       \E g, h \in Grammars :
         /\ parser = BuiltParser(g, h.actions, machines_made)
         /\ ~Mixes => GrammarHash(g) = GrammarHash(program) /\ h = program

\* Stored bytes carry the checksum of the grammar they were exported with; unless a
\* program mixed grammars it is that of the grammar the tables are of.
StoredBytes ==
  \/ file = << >>
  \/ file \in OldFiles
  \/ \E g, h, k \in Grammars :
       /\ file = ExportedBytes(BuiltParser(g, h.actions, 1),
                               GrammarHash(k))
       /\ ~Mixes => GrammarHash(g) = GrammarHash(k) /\ h = k

StoreInv ==
  /\ program \in Grammars
  /\ machines_made \in 0..MaxMachines
  /\ instances \subseteq {parser.address}
  /\ parser.is_finalized \in BOOLEAN
  /\ parser.is_finalized => parser.address = machines_made /\ machines_made # 0
  /\ ParserObject
  /\ StoredBytes

-------------------------------------------------------------------------------

\* What is built of a grammar depends on its meaning only.
LEMMA SameMeaning ==
  ASSUME NEW g, NEW h, Meaning(g) = Meaning(h)
  PROVE  /\ BuiltMachine(g) = BuiltMachine(h)
         /\ RuleAtoms(g) = RuleAtoms(h)
         /\ RuleNonTerminals(g) = RuleNonTerminals(h)
BY DEF BuiltMachine, RuleAtoms, RuleNonTerminals

\* The words that an import reads back from exported bytes.
LEMMA ExportedWords ==
  ASSUME NEW g, NEW actions, NEW hash,
         NEW bytes, bytes = ExportedBytes(BuiltParser(g, actions, 1), hash)
  PROVE  /\ Len(bytes) = 10 /\ bytes # << >>
         /\ bytes[1] = ImportVersion
         /\ bytes[2] = hash
         /\ bytes[3] = Len(actions)
         /\ bytes[4] = RuleAtoms(g)
         /\ bytes[5] = RuleNonTerminals(g)
         /\ Deserialize(bytes, 6) = BuiltMachine(g)
<1> DEFINE m == BuiltMachine(g)
<1>2. bytes = <<ImportVersion, hash, Len(actions), RuleAtoms(g), RuleNonTerminals(g)>>
                \o <<m.nfa_map, m.start_state, m.final_states, m.nfa_lookup_map,
                     m.enclosed_subnfa_map>>
  BY DEF ExportedBytes, Serialize, BuiltParser, FinalizedParser
<1>3. bytes = <<ImportVersion, hash, Len(actions), RuleAtoms(g), RuleNonTerminals(g),
                m.nfa_map, m.start_state, m.final_states, m.nfa_lookup_map,
                m.enclosed_subnfa_map>>
  BY <1>2
<1>4. Deserialize(bytes, 6) =
        [nfa_map |-> m.nfa_map, start_state |-> m.start_state,
         final_states |-> m.final_states, nfa_lookup_map |-> m.nfa_lookup_map,
         enclosed_subnfa_map |-> m.enclosed_subnfa_map]
  BY <1>3 DEF Deserialize
<1>5. Deserialize(bytes, 6) = m
  BY <1>4 DEF BuiltMachine
<1>6. Len(bytes) = 10
  BY <1>3
<1>7. bytes # << >>
  BY <1>6
<1> QED
  BY <1>3, <1>5, <1>6, <1>7

-------------------------------------------------------------------------------

\* The invariant holds of a process that begins with an old file, or none.
LEMMA StoreInvInit == StoreInit => StoreInv
<1> SUFFICES ASSUME StoreInit PROVE StoreInv
  OBVIOUS
<1>1. ~parser.is_finalized /\ parser.is_finalized \in BOOLEAN
  BY DEF StoreInit, NewParser
<1> QED
  BY <1>1, MaxMachinesNat DEF StoreInit, StoreInv, ParserObject, StoredBytes

\* Build, Import, Export and restarts keep it.
LEMMA StoreInvStep == StoreInv /\ [StoreNext]_store_vars => StoreInv'
<1> SUFFICES ASSUME StoreInv, [StoreNext]_store_vars PROVE StoreInv'
  OBVIOUS
<1> USE DEF StoreInv
<1>1. ASSUME NEW g \in InHand, Build(g) PROVE StoreInv'
  <2>1. g \in Grammars /\ (~Mixes => g = program)
    BY DEF InHand
  <2>2. CASE parser.is_finalized
    BY <1>1, <2>2 DEF Build, ParserObject, StoredBytes
  <2>3. CASE ~parser.is_finalized
    <3>1. /\ parser' = BuiltParser(g, g.actions, machines_made') /\ machines_made' = machines_made + 1
          /\ machines_made < MaxMachines
          /\ instances' = {} /\ program' = program /\ file' = file
      BY <1>1, <2>3 DEF Build, NewMachine, ParserObject
    <3>2. /\ parser'.is_finalized
         /\ parser'.is_finalized \in BOOLEAN
         /\ parser'.address = machines_made'
      BY <3>1 DEF BuiltParser, FinalizedParser
    <3>4. ParserObject'
      BY <2>1, <3>1, <3>2 DEF ParserObject
    <3>5. StoredBytes'
      BY <3>1 DEF StoredBytes
    <3> QED
      BY <3>1, <3>2, <3>4, <3>5, MaxMachinesNat
  <2> QED
    BY <2>2, <2>3
<1>2. ASSUME NEW k \in InHand, Import(k) PROVE StoreInv'
  <2>1. k \in Grammars /\ (~Mixes => k = program)
    BY DEF InHand
  <2> DEFINE accepted == ImportAccepts(file, GrammarHash(k), k.actions)
  <2>2. CASE parser.is_finalized \/ ~accepted
    BY <1>2, <2>2 DEF Import, ParserObject, StoredBytes
  <2>3. CASE ~parser.is_finalized /\ accepted
    <3>1. file \notin {<< >>} \cup OldFiles
      BY <2>3, OldFilesHaveOldVersions DEF ImportAccepts
    <3>2. PICK g, h, n \in Grammars :
            /\ file = ExportedBytes(BuiltParser(g, h.actions, 1),
                                    GrammarHash(n))
            /\ ~Mixes => GrammarHash(g) = GrammarHash(n) /\ h = n
      BY <3>1 DEF StoredBytes
    <3>3. /\ file[2] = GrammarHash(n)
          /\ file[4] = RuleAtoms(g)
          /\ file[5] = RuleNonTerminals(g)
          /\ Deserialize(file, 6) = BuiltMachine(g)
      BY <3>2, ExportedWords
    <3>4. ~Mixes => GrammarHash(g) = GrammarHash(program)
      BY <2>1, <2>3, <3>2, <3>3 DEF ImportAccepts
    <3>5. /\ machines_made' = machines_made + 1 /\ machines_made < MaxMachines
          /\ parser' = BuiltParser(g, k.actions, machines_made')
          /\ parser = NewParser
          /\ instances' = {} /\ program' = program /\ file' = file
      BY <1>2, <2>3, <3>3 DEF Import, NewMachine, ParserObject, BuiltParser
    <3>6. /\ parser'.is_finalized
         /\ parser'.is_finalized \in BOOLEAN
         /\ parser'.address = machines_made'
      BY <3>5 DEF BuiltParser, FinalizedParser
    <3>7. ParserObject'
      BY <2>1, <3>4, <3>5, <3>6 DEF ParserObject
    <3>8. StoredBytes'
      BY <3>5 DEF StoredBytes
    <3> QED
      BY <3>5, <3>6, <3>7, <3>8, MaxMachinesNat
  <2> QED
    BY <2>2, <2>3
<1>3. ASSUME NEW k \in InHand, Export(k) PROVE StoreInv'
  <2>1. k \in Grammars /\ (~Mixes => k = program)
    BY DEF InHand
  <2>2. PICK g, h \in Grammars :
          /\ parser = BuiltParser(g, h.actions, machines_made)
          /\ ~Mixes => GrammarHash(g) = GrammarHash(program) /\ h = program
    BY <1>3 DEF Export, ParserObject
  <2>3. /\ file' = ExportedBytes(parser, GrammarHash(k))
        /\ UNCHANGED <<parser, machines_made, instances, program>>
    BY <1>3 DEF Export
  <2>4. ExportedBytes(parser, GrammarHash(k)) =
          ExportedBytes(BuiltParser(g, h.actions, 1), GrammarHash(k))
    BY <2>2 DEF ExportedBytes, BuiltParser, FinalizedParser
  <2>5. StoredBytes'
    BY <2>1, <2>2, <2>3, <2>4 DEF StoredBytes
  <2>6. ParserObject'
    BY <2>3 DEF ParserObject
  <2> QED
    BY <2>3, <2>5, <2>6
<1>4. CASE CreateParserInstance
  BY <1>4 DEF CreateParserInstance, ParserObject, StoredBytes
<1>5. CASE Restart
  <2>1. ~parser'.is_finalized /\ parser'.is_finalized \in BOOLEAN
    BY <1>5 DEF Restart, NewParser
  <2> QED
    BY <1>5, <2>1, MaxMachinesNat DEF Restart, ParserObject, StoredBytes
<1>6. CASE UNCHANGED store_vars
  BY <1>6 DEF store_vars, ParserObject, StoredBytes
<1> QED
  BY <1>1, <1>2, <1>3, <1>4, <1>5, <1>6 DEF StoreNext

\* Tables, actions and stored bytes stay what StoreInv says, whatever the calls and
\* the restarts.
THEOREM StoreInvariant == StoreSpec => []StoreInv
BY StoreInvInit, StoreInvStep, PTL DEF StoreSpec

\* A program that uses its Parser object for its own grammar never runs its actions
\* on tables of a grammar with another checksum, for every series of releases, restarts
\* and stored files.
THEOREM TablesOfItsChecksum == ASSUME ~Mixes PROVE StoreSpec => []TablesHaveItsChecksum
<1>1. StoreInv => TablesHaveItsChecksum
  <2> SUFFICES ASSUME StoreInv, parser.is_finalized
               PROVE  /\ parser.rule_actions = program.actions
                      /\ \E g \in Grammars : GrammarHash(g) = GrammarHash(program) /\ HasTablesOf(g)
    BY DEF TablesHaveItsChecksum
  <2>1. PICK g \in Grammars :
          /\ parser = BuiltParser(g, program.actions, machines_made)
          /\ GrammarHash(g) = GrammarHash(program)
    BY DEF StoreInv, ParserObject
  <2>2. HasTablesOf(g) /\ parser.rule_actions = program.actions
    BY <2>1 DEF BuiltParser, FinalizedParser, HasTablesOf
  <2> QED
    BY <2>1, <2>2
<1> QED
  BY <1>1, StoreInvariant, PTL

\* The checksum tells grammars of different meaning apart.
HashTellsMeaning ==
  \A g, h \in Grammars : GrammarHash(g) = GrammarHash(h) => Meaning(g) = Meaning(h)

\* Colliding checksums are all that stands between such a program and its own tables
\* (for grammars of which some collide, see the finding at parser_builder.cpp:33).
COROLLARY ParserOfItsGrammar ==
  ASSUME ~Mixes, HashTellsMeaning PROVE StoreSpec => []ParsesItsGrammar
<1>1. TablesHaveItsChecksum /\ StoreInv => ParsesItsGrammar
  <2> SUFFICES ASSUME TablesHaveItsChecksum, StoreInv, parser.is_finalized
               PROVE  HasTablesOf(program) /\ parser.rule_actions = program.actions
    BY DEF ParsesItsGrammar
  <2>1. PICK g \in Grammars : GrammarHash(g) = GrammarHash(program) /\ HasTablesOf(g)
    BY DEF TablesHaveItsChecksum
  <2>2. Meaning(g) = Meaning(program)
    BY <2>1 DEF HashTellsMeaning, StoreInv
  <2> QED
    BY <2>1, <2>2, SameMeaning DEF HasTablesOf, TablesHaveItsChecksum
<1> QED
  BY <1>1, TablesOfItsChecksum, StoreInvariant, PTL

\* No instance is left with the tables of a machine that a later Build or Import
\* freed, also in a program that mixes grammars.
THEOREM InstancesValid == StoreSpec => []InstancesStayValid
<1>1. StoreInv => InstancesStayValid
  BY DEF StoreInv, InstancesStayValid
<1> QED
  BY <1>1, StoreInvariant, PTL

\* The parts of the parser object and of the stored bytes are where they belong.
THEOREM StoreTypeCorrect == StoreSpec => []StoreTypeOK
<1>1. StoreInv => StoreTypeOK
  <2> SUFFICES ASSUME StoreInv PROVE StoreTypeOK
    OBVIOUS
  <2> USE DEF StoreInv
  <2>1. instances \subseteq 1..machines_made
    <3>1. CASE parser.is_finalized
      BY <3>1, MaxMachinesNat
    <3>2. CASE ~parser.is_finalized
      BY <3>2 DEF ParserObject
    <3> QED
      BY <3>1, <3>2
  <2>2. file \in {<< >>} \cup OldFiles \/ Len(file) = 10
    BY ExportedWords DEF StoredBytes
  <2> QED
    BY <2>1, <2>2 DEF StoreTypeOK, ParserObject
<1> QED
  BY <1>1, StoreInvariant, PTL

\* A failed Import leaves no parser, and nothing but another call forgets that it
\* failed: ParserInstance::Init keeps the reply and asserts a parser.
FailedImportsLeaveNoParser ==
  reply.call = "Import" /\ ~reply.ok => ~parser.is_finalized

\* Before any call no Import failed.
LEMMA FailedImportsInit == StoreInit => FailedImportsLeaveNoParser
BY DEF StoreInit, FailedImportsLeaveNoParser

\* After an Import that failed there is no parser, whatever was called before.
LEMMA FailedImportsStep ==
  FailedImportsLeaveNoParser /\ [StoreNext]_store_vars => FailedImportsLeaveNoParser'
<1> SUFFICES ASSUME FailedImportsLeaveNoParser, [StoreNext]_store_vars
             PROVE  FailedImportsLeaveNoParser'
  OBVIOUS
<1> USE DEF FailedImportsLeaveNoParser
<1>1. ASSUME NEW g \in InHand, Build(g) PROVE FailedImportsLeaveNoParser'
  BY <1>1 DEF Build
<1>2. ASSUME NEW g \in InHand, Import(g) PROVE FailedImportsLeaveNoParser'
  <2>1. /\ reply'.ok = (parser.is_finalized \/ ImportAccepts(file, GrammarHash(g), g.actions))
        /\ ~reply'.ok => parser' = parser /\ ~parser.is_finalized
    BY <1>2 DEF Import
  <2> QED
    BY <2>1
<1>3. ASSUME NEW g \in InHand, Export(g) PROVE FailedImportsLeaveNoParser'
  BY <1>3 DEF Export
<1>4. CASE CreateParserInstance
  BY <1>4 DEF CreateParserInstance
<1>5. CASE Restart
  BY <1>5 DEF Restart
<1>6. CASE UNCHANGED store_vars
  BY <1>6 DEF store_vars
<1> QED
  BY <1>1, <1>2, <1>3, <1>4, <1>5, <1>6 DEF StoreNext

\* What ImportsItsOwnExport says of grammar g.
Imported(g) ==
  /\ reply'.ok
  /\ ~parser.is_finalized => parser' = BuiltParser(g, g.actions, machines_made')

\* The import of own bytes passes the three checks, and reads back each field.
LEMMA OwnImport ==
  ASSUME NEW g, IsOwnExport(g), Import(g)
  PROVE  Imported(g)
<1>1. /\ file # << >> /\ file[1] = ImportVersion
      /\ file[2] = GrammarHash(g) /\ file[3] = Len(g.actions)
      /\ file[4] = RuleAtoms(g) /\ file[5] = RuleNonTerminals(g)
      /\ Deserialize(file, 6) = BuiltMachine(g)
  BY ExportedWords DEF IsOwnExport
<1>2. ImportAccepts(file, GrammarHash(g), g.actions)
  BY <1>1 DEF ImportAccepts
<1>3. reply' = [call |-> "Import", grammar |-> g, ok |-> TRUE]
  BY <1>2 DEF Import
<1>4. ASSUME ~parser.is_finalized PROVE parser' = BuiltParser(g, g.actions, machines_made')
  <2>1. /\ machines_made' = machines_made + 1
        /\ parser' = FinalizedParser(Deserialize(file, 6), machines_made + 1, g.actions,
                                     file[4], file[5])
    BY <1>2, <1>4 DEF Import, NewMachine
  <2> QED
    BY <1>1, <2>1 DEF BuiltParser
<1> QED
  BY <1>3, <1>4 DEF Imported

\* Whatever lies between, a process with the grammar that the stored bytes were
\* exported for imports them, and has the parser that Build would make.
THEOREM OwnExportIsImported == StoreSpec => ImportsItsOwnExport
<1> DEFINE Asked(g) == reply'.call = "Import" /\ reply'.grammar = g /\ IsOwnExport(g)
<1>1. ASSUME FailedImportsLeaveNoParser, StoreNext, NEW g \in Grammars, Asked(g)
      PROVE  Imported(g)
  <2>1. ASSUME NEW h \in InHand, Build(h) PROVE FALSE
    BY <1>1, <2>1 DEF Build
  <2>2. ASSUME NEW h \in InHand, Import(h) PROVE Imported(g)
    <3>1. h = g
      BY <1>1, <2>2 DEF Import
    <3> QED
      BY <1>1, <2>2, <3>1, OwnImport
  <2>3. ASSUME NEW h \in InHand, Export(h) PROVE FALSE
    BY <1>1, <2>3 DEF Export
  <2>4. CASE CreateParserInstance
    <3>1. parser.is_finalized /\ reply' = reply
      BY <2>4 DEF CreateParserInstance
    <3>2. reply.ok
      BY <1>1, <3>1 DEF FailedImportsLeaveNoParser
    <3> QED
      BY <3>1, <3>2 DEF Imported
  <2>5. CASE Restart
    BY <1>1, <2>5 DEF Restart
  <2> QED
    BY <1>1, <2>1, <2>2, <2>3, <2>4, <2>5 DEF StoreNext
<1>2. FailedImportsLeaveNoParser /\ [StoreNext]_store_vars =>
        [\A g \in Grammars : Asked(g) => Imported(g)]_store_vars
  BY <1>1
<1> QED
  BY <1>2, FailedImportsInit, FailedImportsStep, PTL
     DEF StoreSpec, ImportsItsOwnExport, Imported

-------------------------------------------------------------------------------
(* Every any owns its value alone and knows its type, and is a variable to its user. *)

\* The inductive invariant: that casts are sound is not inductive without the
\* ownership, as a write through one any could change the type of another's value.
AnyInv == AnyTypeOK /\ OwnedOnce /\ CastsAreSound

USE NullIsNoAddress, FreeIsNoValue

\* Storing a value keeps the invariant: it goes to an address of its own.
LEMMA StoreKeeps ==
  ASSUME AnyInv, NEW a \in Objects, NEW h \in Held, Store(a, h)
  PROVE  AnyInv'
<1>1. PICK p \in Addresses :
        /\ heap[p] = Free
        /\ heap' = Released([heap EXCEPT ![p] = h], ptr_[a])
        /\ ptr_' = [ptr_ EXCEPT ![a] = p]
        /\ copy_func_' = [copy_func_ EXCEPT ![a] = h.type]
  BY DEF Store
<1>2. h # Free /\ h.type \in Types
  BY DEF Held
<1>3. AnyTypeOK'
  BY <1>1, <1>2 DEF AnyInv, AnyTypeOK, Released
<1>4. OwnedOnce'
  BY <1>1, <1>2 DEF AnyInv, AnyTypeOK, OwnedOnce, HasValue, Released
<1>5. CastsAreSound'
  BY <1>1, <1>2 DEF AnyInv, AnyTypeOK, OwnedOnce, CastsAreSound, HasValue, Released
<1> QED
  BY <1>3, <1>4, <1>5 DEF AnyInv

\* So does copying: the copy gets an address, and the type of the copy function.
LEMMA CopyValueKeeps ==
  ASSUME AnyInv, NEW a \in Objects, NEW b \in Objects, CopyValue(a, b)
  PROVE  AnyInv'
<1> DEFINE h == [heap[ptr_[b]] EXCEPT !.type = copy_func_[b]]
<1>1. ptr_[b] \in Addresses /\ heap[ptr_[b]] \in Held /\ heap[ptr_[b]].type = copy_func_[b]
  BY DEF CopyValue, AnyInv, AnyTypeOK, OwnedOnce, CastsAreSound, HasValue
<1>2. h = heap[ptr_[b]]
  BY <1>1 DEF Held
<1>3. Store(a, h)
  BY <1>1, <1>2 DEF CopyValue, Store
<1> QED
  BY <1>1, <1>2, <1>3, StoreKeeps

\* Letting go of a value, as its any forgets it.
LEMMA ReleaseKeeps ==
  ASSUME AnyInv, NEW a \in Objects, NEW type \in Types \cup {NoType},
         heap' = Released(heap, ptr_[a]),
         ptr_' = [ptr_ EXCEPT ![a] = null],
         copy_func_' = [copy_func_ EXCEPT ![a] = type]
  PROVE  AnyInv'
<1>1. AnyTypeOK'
  BY DEF AnyInv, AnyTypeOK, Released
<1>2. OwnedOnce'
  BY DEF AnyInv, AnyTypeOK, OwnedOnce, HasValue, Released
<1>3. CastsAreSound'
  BY DEF AnyInv, AnyTypeOK, OwnedOnce, CastsAreSound, HasValue, Released
<1> QED
  BY <1>1, <1>2, <1>3 DEF AnyInv

\* So does moving: the owner changes.
LEMMA MoveAssignKeeps ==
  ASSUME AnyInv, NEW a \in Objects, NEW b \in Objects, MoveAssign(a, b)
  PROVE  AnyInv'
<1>1. AnyTypeOK'
  BY DEF MoveAssign, AnyInv, AnyTypeOK, Released
<1>2. OwnedOnce'
  BY DEF MoveAssign, AnyInv, AnyTypeOK, OwnedOnce, HasValue, Released
<1>3. CastsAreSound'
  BY DEF MoveAssign, AnyInv, AnyTypeOK, OwnedOnce, CastsAreSound, HasValue, Released
<1> QED
  BY <1>1, <1>2, <1>3 DEF AnyInv

\* So does writing through a cast that is allowed.
LEMMA WriteCastKeeps ==
  ASSUME AnyInv, NEW a \in Objects, NEW type \in Types, NEW v \in Data,
         WriteCast(a, type, v)
  PROVE  AnyInv'
<1> DEFINE h == [type |-> type, value |-> v]
<1>1. h \in Held /\ h # Free /\ h.type = type
  BY DEF Held
<1>2. /\ ptr_[a] # null /\ copy_func_[a] = type
      /\ heap' = [heap EXCEPT ![ptr_[a]] = h]
      /\ ptr_' = ptr_ /\ copy_func_' = copy_func_
  BY DEF WriteCast, can_cast_to, HasValue
<1>3. AnyTypeOK'
  BY <1>1, <1>2 DEF AnyInv, AnyTypeOK
<1>4. OwnedOnce'
  BY <1>1, <1>2 DEF AnyInv, AnyTypeOK, OwnedOnce, HasValue
<1>5. CastsAreSound'
  BY <1>1, <1>2 DEF AnyInv, AnyTypeOK, OwnedOnce, CastsAreSound, HasValue
<1> QED
  BY <1>3, <1>4, <1>5 DEF AnyInv

\* The invariant is kept by every operation (utils::any).
LEMMA AnyStep == AnyInv /\ [AnyNext]_any_vars => AnyInv'
<1> SUFFICES ASSUME AnyInv, [AnyNext]_any_vars PROVE AnyInv'
  OBVIOUS
<1>1. CASE \E a \in Objects, h \in Held : Store(a, h)
  BY <1>1, StoreKeeps
<1>2. CASE \E a, b \in Objects : CopyValue(a, b)
  BY <1>2, CopyValueKeeps
<1>3. CASE \E a, b \in Objects : CopyNothing(a, b)
  <2> PICK a \in Objects, b \in Objects : CopyNothing(a, b)
    BY <1>3
  <2>1. copy_func_[b] \in Types \cup {NoType}
    BY DEF AnyInv, AnyTypeOK
  <2> QED
    BY <2>1, ReleaseKeeps DEF CopyNothing
<1>4. CASE \E a, b \in Objects : MoveAssign(a, b)
  BY <1>4, MoveAssignKeeps
<1>5. CASE \E a \in Objects : Destroy(a)
  BY <1>5, ReleaseKeeps DEF Destroy
<1>6. CASE \E a \in Objects, type \in Types, v \in Data : WriteCast(a, type, v)
  BY <1>6, WriteCastKeeps
<1>7. CASE UNCHANGED any_vars
  BY <1>7 DEF any_vars, AnyInv, AnyTypeOK, OwnedOnce, CastsAreSound, HasValue
<1> QED
  BY <1>1, <1>2, <1>3, <1>4, <1>5, <1>6, <1>7 DEF AnyNext

\* For any objects, addresses, types and values: the types of the variables, that
\* no two any objects own one value, and that each copies its value as what it is
\* (create_in_place, the assignments and cast_to of utils::any).
THEOREM AnyInvariant == AnySpec => []AnyInv
<1>1. AnyInit => AnyInv
  BY DEF AnyInit, AnyInv, AnyTypeOK, OwnedOnce, CastsAreSound, HasValue
<1> QED
  BY <1>1, AnyStep, PTL DEF AnySpec

\* No value of utils::any is deleted twice, used after it was, or forgotten.
THEOREM ValuesAreOwnedOnce == AnySpec => []OwnedOnce
BY AnyInvariant, PTL DEF AnyInv

\* No cast or copy of utils::any reads a value as what it is not.
THEOREM CastsSound == AnySpec => []CastsAreSound
BY AnyInvariant, PTL DEF AnyInv

-------------------------------------------------------------------------------

\* Storing is Put of the abstract specification.
LEMMA StoreIsPut ==
  ASSUME AnyInv, NEW a \in Objects, NEW h \in Held, Store(a, h)
  PROVE  Contents' = [Contents EXCEPT ![a] = h]
<1>1. PICK p \in Addresses :
        /\ heap[p] = Free
        /\ heap' = Released([heap EXCEPT ![p] = h], ptr_[a])
        /\ ptr_' = [ptr_ EXCEPT ![a] = p]
  BY DEF Store
<1>2. \A x \in Objects : Contents'[x] = IF x = a THEN h ELSE Contents[x]
  <2> TAKE x \in Objects
  <2>1. ptr_[a] # p /\ (x # a => ptr_[x] # p)
    BY <1>1 DEF AnyInv, OwnedOnce, HasValue
  <2>2. x # a /\ ptr_[x] # null => ptr_[x] # ptr_[a]
    BY DEF AnyInv, OwnedOnce, HasValue
  <2>3. p # null
    OBVIOUS
  <2> QED
    BY <1>1, <2>1, <2>2, <2>3 DEF AnyInv, AnyTypeOK, Released, Contents
<1> QED
  BY <1>2 DEF Contents

\* Losing the value is Put of no value.
LEMMA ReleaseIsPut ==
  ASSUME AnyInv, NEW a \in Objects,
         heap' = Released(heap, ptr_[a]), ptr_' = [ptr_ EXCEPT ![a] = null]
  PROVE  Contents' = [Contents EXCEPT ![a] = Free]
<1>1. \A x \in Objects : Contents'[x] = IF x = a THEN Free ELSE Contents[x]
  <2> TAKE x \in Objects
  <2>1. /\ ptr_'[x] = IF x = a THEN null ELSE ptr_[x]
        /\ ptr_[x] # null => ptr_[x] \in Addresses
    BY DEF AnyInv, AnyTypeOK
  <2>2. /\ Contents[x] = IF ptr_[x] = null THEN Free ELSE heap[ptr_[x]]
        /\ Contents'[x] = IF ptr_'[x] = null THEN Free ELSE heap'[ptr_'[x]]
    BY DEF Contents
  <2>3. CASE x = a
    BY <2>1, <2>2, <2>3
  <2>4. CASE x # a /\ ptr_[x] # null
    <3>1. ptr_[x] # ptr_[a]
      BY <2>4 DEF AnyInv, OwnedOnce, HasValue
    <3>2. heap'[ptr_[x]] = heap[ptr_[x]]
      BY <2>1, <2>4, <3>1 DEF AnyInv, AnyTypeOK, Released
    <3> QED
      BY <2>1, <2>2, <2>4, <3>2
  <2> QED
    BY <2>1, <2>2, <2>3, <2>4
<1>2. /\ Contents = [x \in Objects |-> Contents[x]]
      /\ Contents' = [x \in Objects |-> Contents'[x]]
  BY DEF Contents
<1>3. [Contents EXCEPT ![a] = Free] = [x \in Objects |-> IF x = a THEN Free ELSE Contents[x]]
  BY <1>2
<1> QED
  BY <1>1, <1>2, <1>3

\* Copying is Put of what the other has.
LEMMA CopyIsPut ==
  ASSUME AnyInv, NEW a \in Objects, NEW b \in Objects, CopyValue(a, b) \/ CopyNothing(a, b)
  PROVE  Contents' = [Contents EXCEPT ![a] = Contents[b]]
<1>1. CASE CopyNothing(a, b)
  BY <1>1, ReleaseIsPut DEF CopyNothing, HasValue, Contents
<1>2. CASE CopyValue(a, b)
  <2> DEFINE h == [heap[ptr_[b]] EXCEPT !.type = copy_func_[b]]
  <2>1. /\ ptr_[b] \in Addresses /\ heap[ptr_[b]] \in Held
        /\ heap[ptr_[b]].type = copy_func_[b]
    BY <1>2 DEF CopyValue, AnyInv, AnyTypeOK, OwnedOnce, CastsAreSound, HasValue
  <2>2. h = heap[ptr_[b]]
    BY <2>1 DEF Held
  <2>3. Store(a, heap[ptr_[b]])
    BY <1>2, <2>1, <2>2 DEF CopyValue, Store
  <2>4. Contents[b] = heap[ptr_[b]]
    BY <2>1 DEF Contents
  <2> QED
    BY <2>1, <2>3, <2>4, StoreIsPut
<1> QED
  BY <1>1, <1>2

\* Moving is Move.
LEMMA MoveIsMove ==
  ASSUME AnyInv, NEW a \in Objects, NEW b \in Objects, MoveAssign(a, b)
  PROVE  Contents' = IF a = b THEN Contents
                     ELSE [Contents EXCEPT ![a] = Contents[b], ![b] = Free]
<1>1. CASE a = b
  BY <1>1 DEF AnyInv, AnyTypeOK, MoveAssign, Contents
<1>2. CASE a # b
  <2>1. \A x \in Objects : Contents'[x] = IF x = a THEN Contents[b]
                                          ELSE IF x = b THEN Free ELSE Contents[x]
    <3> TAKE x \in Objects
    <3>1. x # a /\ ptr_[x] # null => ptr_[x] # ptr_[a]
      BY DEF AnyInv, OwnedOnce, HasValue
    <3>2. ptr_[b] # null => ptr_[b] # ptr_[a]
      BY <1>2 DEF AnyInv, OwnedOnce, HasValue
    <3> QED
      BY <1>2, <3>1, <3>2 DEF AnyInv, AnyTypeOK, MoveAssign, Released, Contents
  <2> QED
    BY <1>2, <2>1 DEF Contents
<1> QED
  BY <1>1, <1>2

\* Writing through a cast is Write.
LEMMA WriteIsWrite ==
  ASSUME AnyInv, NEW a \in Objects, NEW type \in Types, NEW v \in Data,
         WriteCast(a, type, v)
  PROVE  /\ Contents[a] # Free /\ Contents[a].type = type
         /\ Contents' = [Contents EXCEPT ![a] = [type |-> type, value |-> v]]
<1> DEFINE h == [type |-> type, value |-> v]
<1>1. /\ ptr_[a] # null /\ copy_func_[a] = type
      /\ heap' = [heap EXCEPT ![ptr_[a]] = h] /\ ptr_' = ptr_
  BY DEF WriteCast, can_cast_to, HasValue
<1>2. Contents[a] # Free /\ Contents[a].type = type
  BY <1>1 DEF AnyInv, OwnedOnce, CastsAreSound, HasValue, Contents
<1>3. \A x \in Objects : Contents'[x] = IF x = a THEN h ELSE Contents[x]
  <2> HIDE DEF h
  <2> TAKE x \in Objects
  <2>1. x # a /\ ptr_[x] # null => ptr_[x] # ptr_[a]
    BY DEF AnyInv, OwnedOnce, HasValue
  <2> QED
    BY <1>1, <2>1 DEF AnyInv, AnyTypeOK, Contents
<1> QED
  BY <1>2, <1>3 DEF Contents

\* An any is a variable to its user: AnyValue implements ValueStore.
THEOREM AnyIsAValue == AnySpec => ImplementsValues
<1>1. AnyInit => Store_!Init
  BY DEF AnyInit, Store_!Init, Contents
<1>2. AnyInv /\ [AnyNext]_any_vars => [Store_!Next]_Contents
  <2> SUFFICES ASSUME AnyInv, [AnyNext]_any_vars PROVE [Store_!Next]_Contents
    OBVIOUS
  <2> USE DEF Store_!Next, Store_!Put, Store_!Move, Store_!Write, Store_!Held
  <2>1. CASE \E a \in Objects, h \in Held : Store(a, h)
    BY <2>1, StoreIsPut DEF Held
  <2>2. CASE \E a, b \in Objects : CopyValue(a, b) \/ CopyNothing(a, b)
    BY <2>2, CopyIsPut
  <2>3. CASE \E a, b \in Objects : MoveAssign(a, b)
    BY <2>3, MoveIsMove
  <2>4. CASE \E a \in Objects : Destroy(a)
    BY <2>4, ReleaseIsPut DEF Destroy
  <2>5. CASE \E a \in Objects, type \in Types, v \in Data : WriteCast(a, type, v)
    BY <2>5, WriteIsWrite
  <2>6. CASE UNCHANGED any_vars
    BY <2>6 DEF any_vars, Contents
  <2> QED
    BY <2>1, <2>2, <2>3, <2>4, <2>5, <2>6 DEF AnyNext
<1> QED
  BY <1>1, <1>2, AnyInvariant, PTL DEF AnySpec, ImplementsValues, Store_!Spec
================================================================================
