# AParse in TLA+

AParse is a C++ library that builds parsers and lexers at run time. A client
writes a grammar of regexes; the library turns it into an automaton with a stack
and drives it one alphabet at a time, telling after every alphabet whether the
string so far can still be completed; at the end it recovers a parse tree. This
directory models that path, from the grammar to the tree and from lexer rules
to tokens, together with the walk that runs a client's rule actions and the
front end in which the library reads rules with itself, and the builders that save
parsers to files and load them again. TLC checks it against what grammars and rules
mean, and TLAPS proves that the run-time parser follows its machine and finds its way
back, that its answers, errors and trees are those of the grammar if the machine was
built right, that the lexer is a tokenizer, and the core of the saved parsers and of the
values that hold a client's actions.

Paths below are relative to the root of the repository.

## 1. The system

### Components

**AParseGrammar** (`include/aparse/aparse_grammar.hpp`, `src/aparse_grammar.cpp`).
A record: the number of alphabets, the main non-terminal, pairs of *branching*
alphabets (brackets), and one regex per non-terminal. `Validate` refuses grammars
with symbols out of range or without rules, rules whose brackets do not nest, and
non-terminals that depend on each other in a cycle that no bracket encloses.
Correct if it refuses no more than that, and if what it lets through can be built.

**InternalAParseGrammar** (`src/v2/internal_aparse_grammar.cpp`). Rewrites a
grammar: every bracketed part of a regex becomes an *enclosed non-terminal*
(ent) of its own, and a graph says which non-terminal uses which outside
brackets. Immutable once built.

**AParseMachineBuilder** (`src/v2/aparse_machine_builder.cpp`). For every
non-terminal, in topological order, an NFA without epsilon edges. Edges carry
*parsing streams*: START and END markers of the rules that begin and end there.
States of a used non-terminal are not copied: a state is a path of instances and
a number. State while building: edges, incoming edges, a counter, instance
numbers. Correct if the machine accepts the language of the grammar, if markers
along every accepting path nest, and if the machine keeps the promises CoreParser
relies on.

**AParseMachine** (`src/v2/aparse_machine.cpp`). The result, immutable: one map of
edges per NFA, special edges (PUSH an ent on an opening alphabet, POP it on a
closing one), final states with their streams, the ents. Its operators resolve a
state's path: outgoing edges are those of every NFA on the path, with prefixes.

**CoreParser** (`src/v2/core_parser.cpp`). The run-time parser. State: the set
of NFA states the string so far can be in; a stack with a frame per open bracket;
the stream; the kind of every feed; and a back-tracker that remembers for each
feed the previous state of each state. Operations: `SetAParseMachine`, `Feed`
(three cases, two ways to refuse), `Reset`, `Parse`, `IsFinal`,
`PossibleAlphabets`. Correct if records and stream agree, if no closing alphabet
pops an empty stack, and if any choice the unordered containers make leads back
to the start.

**ParserInstance** (`include/aparse/parser.hpp`, `src/parser.cpp`). What clients
hold: a CoreParser and a `parse_tree`. `Feed`, `Reset`, `End`, `Init`, queries.
Correct if it answers as `parser.hpp` documents: an acceptable prefix, an
acceptable string, possible alphabets, a tree of the string. The overloads with an
`Error` tell where a string went wrong and what could have stood there.

**Graph searches** (`src/utils.cpp`, `src/aparse_grammar.cpp`): topological sort
and cycle detection by depth-first search.

**LexerMachineBuilder, InternalLexerBuilder** (`src/lexer_machine_builder.cpp`,
`src/internal_lexer_builder.cpp`). Each section of lexer rules becomes one union
with a label per rule, an NFA, a DFA by subset construction, and all DFAs are
merged into one vector. Correct if the DFA knows, for every word, which first rule
matches and what can follow.

**LexerInstance** (`include/aparse/lexer.hpp`). State: the DFA state, the range
and the alphabets of the current token, and a scope shared with rule actions
(range, line, column, next section). `Feed` continues the token, or cuts it, runs
the action of its rule and starts the next one in the section the action chose;
`End`, `Reset`, `Init`.

**SyntaxTreeMaker, ParserScope** (`include/aparse/syntax_tree_maker.hpp`,
`include/aparse/parser_scope.hpp`). `CreateSyntaxTree` walks the parse tree and
calls the action of each node's rule after those of its children. State during the
walk: the recursive calls, and one scope that all actions share, which is filled
anew for each and which some of their questions change. Correct if every action
sees its own instance.

**Rule strings and lexer regexes** (`src/parse_regex_rule.cpp`,
`src/parse_char_regex.cpp`, `src/parse_char_regex_rules.cpp`). The text of a rule is
cut into tokens by a lexer of this library, and the tokens, like the characters of a
lexer regex, are read by a parser of this library; grammar, lexer rules and actions
are written by hand. The lexer and the parsers are static and built by the first
call; their instances belong to one call. `StringRulesToAParseGrammar` then numbers
the names of all rules. Correct if the value that comes out is what the text says,
if an error points at its cause, and if the numbers mean the names, whatever order
the tables are walked in and whatever numbers the client chose.

**ParserBuilder, InternalParserBuilder** (`src/parser_builder.cpp`,
`src/internal_parser_builder.cpp`). `Build` makes a Parser of a grammar; `Export`
writes its tables as bytes that a later process gives to `Import`, with the actions
that bytes cannot hold. A format version and a checksum of the grammar's text guard
the import. State: the Parser object, which instances point into, and what is
stored. Correct if a program never runs its actions on tables of another grammar
(which takes a checksum that tells grammars apart, and its text does not: finding 7),
if no call pulls the machine from under an instance, and if what a program exports
it can import, and gets the parser that Build would make.

**LexerBuilder** (`src/lexer_builder.cpp`, `src/lexer.cpp`). Reads the strings of a
lexer grammar, builds the Lexer and asserts that it is complete. Correct if a Lexer
lexes as its grammar says, and is untouched when a rule is refused.

**RegexBuilderObject, SimpleAParseGrammarBuilder** (`src/regex_builder.cpp`,
`src/simple_aparse_grammar_builder.cpp`). Regexes of names, written with C++
operators that change and move their left operand, and a second numbering of names;
the integration tests write their grammars with them.

**utils::any** (`include/aparse/utils/any.hpp`). Holds the actions of rules, which
are copied from grammars to builders to parsers and lexers. State: an owning pointer
and the function that copies what it points to. Correct if each value has one owner,
and is read only as what it is.

**v1**: deprecated and not compiled (`src/v1/aparse_machine.hpp:7`), not modelled.

### How they interact

Everything is called synchronously in one thread: grammar -> InternalAParseGrammar
-> builder -> machine (owned by `Parser`) <- pointer from CoreParser <- owned by
ParserInstance <- client. The only callbacks are lexer rule actions, which run in
the middle of `LexerInstance::Feed` and change the scope, and the rule actions of
the syntax tree, which run in the middle of `CreateSyntaxTree`. What crosses
processes is the exported bytes. There is no message passing, and no concurrency
that the library answers for: threads may use instances of one constant Parser
(`include/aparse/parser.hpp`), which share nothing that changes. The static lexer and
parsers of the front end are built without a lock; no doc says that grammars may be
built in two threads, so this is a hazard without a property.

### What is hard here

* Sequences: any order of feeds, refused feeds, resets, ends and inits, on state
  kept in seven members that must agree.
* Unordered containers: which of several previous states is remembered, which
  final state Parse starts from, and the order of construction in the builder
  depend on hashes; every choice must be right.
* Nesting: brackets in instances in brackets, where an edge belongs to one of
  several NFAs on the path of a state.
* The empty string, which touches every case of the builder.
* An action that throws or changes section between two assignments of `Feed`, and
  actions that change by their questions the scope the next one gets.
* `parse_tree` outlives the CoreParser and the stream it was made from.
* Stored bytes outlive the process and the release of the program that wrote them.
* Objects that are static, built twice, copied to themselves or moved from.
* Errors that are made after the state they describe has changed.

`PROJECT.json` lists these at their lines under "hazards", with the properties
that watch them.

## 2. Modules

| module | models | state or kind |
| --- | --- | --- |
| `Regex` | `include/aparse/regex.hpp` | records |
| `GraphUtils` | the two graph searches | recursive operators |
| `AParseGrammar` | `Validate`, `ProcessRuleRegex` | operators |
| `InternalAParseGrammar` | `src/v2/internal_aparse_grammar.cpp` | operators |
| `AParseMachine` | `src/v2/aparse_machine.cpp`; also `WellFormed`, what CoreParser needs of a machine | operators |
| `AParseMachineBuilder` | `src/v2/aparse_machine_builder.cpp` | recursive operators over a record `b`, the builder's members |
| `CoreParser` | `src/v2/core_parser.cpp` without Parse | 8 variables, named as the members |
| `CoreParserRegions` | types and the inductive invariant | |
| `CoreParserProofs` | theorems about CoreParser | proofs |
| `MachineRuns` | the runs of a machine as a pushdown automaton, which CoreParser has to follow | definitions |
| `RunProofs` | CoreParser follows exactly the runs | proofs |
| `Induction` | induction and recursion over the numbers up to n, for the recursive functions | lemmas |
| `ParserInstance` | Parse, ConstructTree, `src/parser.cpp` | CoreParser + `parse_tree` |
| `BackTrackerProofs`, `ParseTreeProofs` | theorems about Parse and about the tree of End | proofs |
| `GrammarLanguage` | what a grammar means: strings, prefixes, parse trees, with no automaton | definitions |
| `Recognizer` | abstract specification of a ParserInstance | 3 variables |
| `ParserClient` | a client's instance of any of some parsers; the properties `parser.hpp` documents | ParserInstance + grammar, built machine |
| `ParserErrors` | the operations that report an Error | ParserClient + error, history |
| `ClientProofs` | theorems about ParserClient and ParserErrors | proofs |
| `ParserSystem` | grammar to tree: the parsers that the builder makes of the grammars | ParserClient + no state of its own |
| `ParserScope` | what an action sees of its node, and the questions it asks | operators |
| `SyntaxTreeMaker` | `CreateSyntaxTree`, step by step | ParserSystem + calls, scope, questions asked |
| `RuleStrings` | both grammars of the front end and their actions, against what a text says | ParserSystem + no state of its own |
| `RuleReader` | `ParseRegexRule::Parse` as a whole: lexer, parser, errors | RuleStrings + LexerInstance + the call |
| `RuleGrammars` | numbering of names, by `StringRulesToAParseGrammar` and by SimpleAParseGrammarBuilder | ParserSystem + the client's grammar, `string_map` |
| `RegexBuilder` | `RegexBuilderObject` | a client's objects, what they mean |
| `ParserBuilder` | Build, Import, Export over processes and releases | Parser object, instances, stored bytes, program |
| `AnyValue` | `utils::any` | pointers, copy functions, heap |
| `ValueStore` | abstract specification of `utils::any` | 1 variable |
| `ParserBuilderProofs` | theorems about ParserBuilder, and about AnyValue with its refinement | proofs |
| `LexerBuilder` | `LexerBuilder::Build`, `Lexer::Finalize` | Lexer object, history |
| `LexerMachineBuilder` | `InternalLexerBuilder`, `LexerMachineBuilder` | recursive operators |
| `LexerInstance` | `include/aparse/lexer.hpp` | 12 variables |
| `Tokenizer` | abstract specification of a lexer | 6 variables |
| `LexerText` | a client that remembers its text; what `lexer.hpp` promises, for any Lexer | LexerInstance + text, section |
| `LexerProofs` | theorems about LexerText | proofs |
| `LexerSystem` | rules to tokens: LexerText with the Lexers that are built | LexerText + no state of its own |
| `SampleGrammars` | the grammars that several runs use | |
| `MCSamples`, `MCParserSystem`, `MCClients`, `MCLexerSystem`, `MCParserBuilder` | instances for TLC | |
| `MCFrontEnd` | the same, and the properties of Validate and of the graph searches | texts, or a graph or grammar that is checked |
| `MCObjects` | lexers, releases, anys and regexes in one run | each part in behaviours of its own |

How state and actions correspond to the code:

* `CoreParser!Feed(a)` is one call of `CoreParser::Feed(Alphabet)`. Its cases are
  the branches of the code: `FeedPush`, `FeedPop`, `FeedNop`, `FeedInvalid`, and
  the early return. The other overloads call this one in a loop. An assertion is
  a guard, and a property says it never fails (`PopsAreMatched`).
* `nfa_states_map` and `pull_op_map` are the back-tracker's maps. Where the code
  keeps the first or last entry of an unordered walk, the model takes any
  (`Selections`).
* `Validate(g, low)` is the name of the error the code throws first, or "OK".
  `BuiltParsers` is `InternalParserBuilder::Build`, which asserts that the grammar is
  valid, for all grammars; `ClientStart` is `CreateInstance`. ParserClient knows a
  grammar's language and trees only as parameters, so that it can be proved about;
  the runs give it `BuiltParsers` and the definitions of GrammarLanguage.
* Positions start at 1 where the code's start at 0.
* `ParserInstance!Parse(output)` is the set of results the code can have, one per
  final state it may meet first, each with a status: done, aborted by an assertion
  of ConstructTree, or thrown by `at()`. The tree of CoreParseNodes is a sequence
  of nodes in the order of creation with indices of parents; node 1 is the node
  the client passed. `End` is Parse on `parse_tree`, which earlier Ends may have
  filled.
* The builder is a function of the grammar and of `low`, which chooses one of two
  orders of walking the containers where the result depends on the order. Both are
  checked wherever a run builds a machine. Other orders are not enumerated.
* `LexerInstance` has one action per outcome of a Feed: continue, refuse, cut, or
  throw. A client's action is external: it appends what it sees to `tokens` and
  jumps where `lexer.jumps` says. `text`, `section` and `first_text` in LexerText are
  history variables.
* A walk of `SyntaxTreeMaker` is a stack of `frames`, one per recursive call of
  `lCreateST`: `BuildChild` is a call, `BeginAction` fills the scope `tbc`,
  `AskValueList` is the one question that changes it, `EndAction` returns. A value
  is the index of the node whose action made it. The other operations of the client
  wait until `CreateSyntaxTree` returns or throws (`BuildThrows`).
* In `RuleStrings` a behaviour is one call of `ParseRegexRule::Parse` or
  `ParseCharRegex::Parse`; the value is computed from the tree with ParserScope's
  operators (`ValueOf`). Of 256 characters 15 are left: all that mean something,
  three that do not, one of them the character 0. The name in a value is the
  position of its token. `Meaning`, the reference, cuts the text at its outer bars,
  then into items, with no grammar and no tree.
* `Init` of an instance in use takes the same Parser or, in `samples`, any of the
  Parsers; a lexer is initialised anew with the same Lexer and a new scope.
* In `ParserErrors` a Feed of a string is its Feeds one by one, and the operations
  that throw are those that report: FeedOrDie throws what Feed writes.
* In `RuleReader` one action is one Feed of the lexer or of the parser in the loops of
  `ParseRegexRule::Parse`. The 256 characters are 20 classes. `stage` says where the
  call is; the static lexer and parser are made by ReaderInit, in one of two orders of
  the table of symbols, and each `Call` has new instances.
* `RuleGrammars` starts from rules that are read already, as regexes of names, and
  tries every numbering that some walk of the tables gives.
* `ParserBuilder` keeps of a table only whose it is: `BuiltMachine(g)` and the others
  are tagged with what they depend on. `GrammarText` is the text that goes into the
  checksum, as a sequence of characters: sizes and numbers in hex, names and rules, with
  nothing between them, as the code streams them. What SimpleChecksum makes of it is a
  parameter; the runs take the text itself, so that what collides there collides under
  any checksum. A stored file is the sequence of fields that Export writes; Import reads
  them back by place. `Restart` is the end of a process,
  at any time, and the start of one of any release. `Mixes` is a program that uses one
  Parser object for several grammars.
* In `LexerBuilder` the outcome of each Build is kept in `outcomes`; "abort" is a
  failed assertion, after which the process does nothing more.
* In `AnyValue` the address of a value is chosen among the free ones, and a new value
  is there before the old one is released.

## 3. Abstract specifications

`Recognizer` remembers the string and whether a feed was refused, and takes an
alphabet exactly if the longer string is a prefix of one in the language.
`ParserClient!ImplementsRecognizer` maps `stream` and `is_valid_path_so_far`
to it; it is checked as a refinement in the run `samples`, and proved for machines that
have the runs their grammar demands.

`MachineRuns!OfMachine` is the same abstract specification one level lower: the
language is that of the machine, a string is acceptable if the machine has a run over
it. A run is in one state and remembers its own open brackets; CoreParser has a set of
states and a stack of frames for all runs together. `FollowsEveryRun` is the relation
of the two, checked in `samples` and proved; that the machine has the runs the grammar
demands is the builder's part, and model-checked.

`Tokenizer` has the text, the start of the current token, its section and the
tokens seen, and cuts a token when no rule of its section can go on. The run
`objects` checks `LexerText!ImplementsTokenizer`, with the rules and the DFAs of
LexerSystem; the section of the current token, which the code does not keep, is the
history variable `section`. It is proved for every Lexer whose states know their
tokens.

`ValueStore` is a variable per any, empty or with a value of a type, that changes
only when it is given a value, moved from or written as what it is. The mapping reads
what the pointer points to; it is checked in the run `objects` and proved.

## 4. What the runs check

| run | what it shows |
| --- | --- |
| `samples` | The parsers of ten grammars, JSON with two kinds of brackets among them, strings to length 6, and one instance that changes from one parser to another: `IInv` (the inductive invariant), `FollowsEveryRun`, `PopsAreMatched` and `WalksBackToStart` (the states and brackets of the walk are one run of the machine) on built machines, `AcceptsLanguage`, `PossibleAlphabetsExact`, `ParseTreesAreValid`, the refinement of `Recognizer`; and for five of them, with strings to length 4 and the operations that report an Error, `RefusalsAreExplained`, `UnfinishedTextsAreExplained`. |
| `rule_families` | Three families of grammars, strings to length 4: every regex of height 2 over two alphabets and the empty string; every one whose leaves are an alphabet, a recursive bracket and a flat one; every one over an alphabet, the empty string and another non-terminal, with four rules for that one. `AcceptsLanguage`, `FeedIffAcceptable`, `TreesOfFlatUnionsAreValid` (trees, and that parsing streams nest, except for the grammars of finding 2), and `BuiltMachineIsWellFormed`, the assumption of the proofs. And nine grammars of names, with gaps in the client's numbers, with two names of one number, with a name no rule mentions, and three that fail an assertion; both builders, all numberings, strings to length 6: `RulesAreFollowed`. |
| `clients` | Feed, Reset, End, Init and CreateSyntaxTree in any order on five grammars, among them one with many trees: `EndAddsParseTree`, `EndsComplete`, `ActionsSeeWhatIsMet` (what the docs promise an action, for all instances but those of finding 6), `TreeFitsUntilInit`; and, under weak fairness, that every walk of every tree ends, with calls for nodes of zero width and skipped children: `WalkReturns`. |
| `front_end` | Every rule of up to 7 tokens and every regex of up to 5 characters that the front end accepts: `PlainTextsAreRead`. Some 3800 texts with every kind of token, tight and spaced, right and wrong, cut short or with a character of no token, each after and before other calls: `TextsAreRead`, `RefusalsPointAtTheCause`. Both searches on all 512 graphs of 3 nodes in two orders: `SearchesDetectCycles`, `SortedAfterDependencies`. `Validate` on every grammar of three rules from a set that brackets, nests and uses in all ways, and on one wrong grammar for each error: `CyclesOutsideBracketsAreRefused`, `ValidRulesNestBrackets`, `ValidGrammarsAreBuildable`. Deadlock is checked: a call always gets on until it is read or refused. |
| `objects` | *Lexers*, three clients. One text for each instance, to length 4, for four lexers and every pair of a first rule of height 2 over two alphabets and one of two second rules, none of which matches the empty string: `StateKnowsToken`, `FirstPositionsMatchText`. Text after text with Reset and Init in the middle, also for lexers where a look-up of an action or of a section fails in the middle of Feed. Both: `ImplementsTokenizer`. Seven lexer grammars of strings, up to four Builds on one Lexer: `LexesAsBuilt`, `StatesAreInside`. *Releases*: six that differ in one thing each and three pairs that write one text, processes of up to two machines, any number of restarts: `TablesHaveItsChecksum`, `InstancesStayValid`, `ImportsItsOwnExport`. *Values*: three any objects, four addresses, two types of two values: `OwnedOnce`, `CastsAreSound`, `ImplementsValues`. *Regexes*: two objects of RegexBuilder, constructors, copies, labels and operators up to six nodes and two labels: `BuildsWhatIsMeant`. |
| `nullable_start`, `optional`, `bracket_start`, `single_alphabets`, `blank_alternative`, `missed_child`, `colliding_texts` | One disagreement of code and documentation each (section 7). |

A run has several clients where their components belong together: a variable of the MC
module (`asks_errors`, `client`, `part`) or the initial state says which one a behaviour
is of, and the variables of the others do not change in it. `Clients` and
`FrontEndParts` say which of them a run has.

The bounds. `MaxStream` (and `MaxText`) bound the alphabets between two resets,
`MaxTree` the nodes of a tree End may add to, `MaxTokens` the tokens after which
End stops, `MaxPosition` the position and the buffer with which Reset and Init
still happen, since they keep them. The machines of a grammar with n states show
every transition after at most as many alphabets; with the regexes of height 2
used here a string of 3 or 4 passes every edge, and a second time every loop.
Two brackets deep and back, with two feeds to spare (6 alphabets in `samples`),
passes an ent from within itself. The queries are
evaluated for the next alphabet too, so FeedIffAcceptable at the bound speaks of
strings one longer. `rule_families` quantifies over grammars instead of lengths:
errors of a builder show on small regexes in odd combinations, not on long strings.
Three nodes are enough for self loops, two-cycles, a diamond without its fourth
node, and a finished node met again.

In `clients`, `MaxStream` is 3: a bracket around something, or two instances and one
more alphabet. `MaxCalls` bounds the questions one action asks: one is enough to change
the scope before the next action. `Silent` is a rule without an action, whose value is
the default. In `front_end`, `Typed` and `MaxText` bound the texts per grammar: 7 tokens
hold `A ::= ( x | y )` and 5 characters `[a-b]`, `(a|b)`, `[^\\]` and a suffix after an
alternative; `EpsilonAt` makes one position the literal EPSILON. `LaterTexts` are what
follow a first text: what a text leaves behind is seen by one text that is right, and by
it again. Characters are classes because the lexer rules ask nothing else of them; there
is one class per character that a rule names, one for letters, one for digits, one for
the rest.

`OffersAreSmall` (4) bounds the stream of clients that want errors: after a refusal they
are offered more, once the first refused alphabet is noted. `Longest` is the length of
strings in `rule_families`: 4, and `MaxStream` for the few grammars of names.
`MaxMachines` (2) is enough for a machine to be made again while instances point to the
first; a restart makes room for more. `MaxBuilds` (4) allows a Build that is refused
between two that are not, and one after. `MaxNodes` (6) holds an operator on an operator,
of both kinds, beside a second object; `MaxLabels` is 2, and strings of names are compared
to the length `MaxWord` (3). Four addresses for three objects leave one for the copy that
is made before the old value goes. `GraphNodes` is 3, see above.

`CHECK_DEADLOCK FALSE` is used for `samples` and `rule_families`, where the stream may
be full, for `objects`, where the process may abort or a text be as long as it may get,
and for `blank_alternative`, where a text is read once.

Every property of a passing run has a mutant in `PROJECT.json`: a change to a
definition that a plausible slip in the code would make (a reset that forgets a
member, a rule label that starts at 0), next to the definition it changes, under
which the run fails.

## 5. Fairness

AParse reacts to calls and promises nothing to a client that stops calling. The one
operation that is many steps of a model with code of the client's in between is
`CreateSyntaxTree`: `FairMakerSpec` assumes `WF_maker(Walk)`, that a walk which can go
on does go on. A step of it is either the library's own code, which does not wait for
anything, or an action of the client, which is taken to return or to throw. Nothing
is assumed about calls: a client need not start a walk, and a question an action asks
is its own choice. `WalkReturns` then says that each walk ends. The loops of
`ParseRegexRule::Parse` run over a text that is there; that a call gets on is the
deadlock check of `front_end`. All other operations are one step of a model.

## 6. What is proved

**The assumption on machines.** The proofs about the parser are for every set
`Machines`, every set of alphabets, and streams of any length, from one assumption,
`MachinesAreWellFormed` (`AParseMachine!WellFormed`): each machine has a map from
states to *regions* (the main NFA, or the ent whose NFA a state is in) such that
edges stay in their region, ents start in theirs, a POP of an ent leaves a final state
of the region of that ent, a PUSH has somewhere to go on after the bracket, all stack
operations on an alphabet have one type, an alphabet with a stack operation labels no
plain edge, and final states are in the main region (`RegionsAreApart`); what the
tables hold for final states and edges are parsing streams (`StreamsAreThere`); and no
entry of a table is empty (`EntriesLeadOn`). TLC
evaluates it in `samples` for the machines the builder makes of the sample grammars, and
`rule_families` checks it for all of its grammars.

**CoreParser** (`CoreParserProofs`).

* `Invariant`: `Spec => []IInv`.
* `PopsAlwaysMatched`: `Spec => []PopsAreMatched`. The assertion of Feed at
  `core_parser.cpp:202` never fails, and a feed never leaves the parser without a
  state while reporting success.

PopsAreMatched is not inductive: it says nothing of states that are not current.
`IInv == TypeOK /\ RecordsMatchStream /\ RegionsNest` is. `RegionsNest` says that
the states at depth 0 are in the main region, and that each state at depth i+1
(in a frame, or current) is in the region of an ent that the opening alphabet of
that frame pushes from some state of the frame. A push adds a level of start
states of such ents; a plain feed stays in its regions; a pop returns to targets
of the frame's states, which stay in theirs. Since a POP leaves the region of its
ent and the main region is no ent's, a POP implies a frame, and the frame's own
PUSH has targets. The proof has a lemma for each case of Feed (`FeedPushInv`,
`FeedPopInv`, `FeedNopInv`), lemmas for what the records of a feed are
(`RecordedFeeds`), and `Invariant` combines them.

**CoreParser follows its machine** (`RunProofs`).

* `EveryRunIsFollowed`: `Spec => []FollowsEveryRun`. The current states are those
  the runs over the stream are in, every run has as many open brackets as there are
  frames, IsFinal is true exactly if a run ends the parse, and PossibleAlphabets lists
  exactly the alphabets that some run goes on with. The last is not plain: the code
  collects what the states list at any depth and never looks at the stack. It is right
  because a state that lists a closing alphabet is in the bracket it closes
  (`ListedLeadsOn`).
* `MachineIsRecognised`: `Spec => RecognisesMachine`. CoreParser implements a
  recogniser of the strings its machine has a run over: a feed is refused only if the
  longer string has no run.

A frame joins all runs that opened the bracket, and a pop pairs every state below with
every ent that is closed, so FollowsEveryRun alone does not survive a step: which states
of a frame go with which current states is not kept. The invariant `RunsFit` says that
the runs over the stream are exactly those that *fit*: on every level their state is one
of the level's, their open brackets have the alphabets of the frames, and each ent is the
region of the state above it. Regions are what makes it true: a current state knows by
its region which ent it would close, so nothing is lost by joining. There is a lemma
that each case of Feed keeps it (`PushFits`, `PopFits`, `NopFits`). That every current
state has a run that fits follows from RegionsNest by induction over the frames
(`EveryStateHasRun`). `RunsFit` speaks of infinitely many runs and is not for TLC;
FollowsEveryRun is what `samples` checks. `MachineIsRecognised` is not checked in a run:
`samples` checks the refinement for the language of the grammar, which is more for the
machines it has.

**The back-tracker** (`BackTrackerProofs`, over `InstanceSpec`, all operations of a
ParserInstance).

* `WalksAlwaysLeadBack`: `InstanceSpec => []WalksBackToStart`.

The walk reads records of feeds that are long past, so the invariant must speak of the
past: `HasHistory` says that there are moments, one before each feed and one now, with
the states and the stack there were, such that every record leads from one to the next
(`Led`). Each case of Feed adds a moment, and the feeds before stay led
(`OldFeedsStayLed`), because they are indexed by the stream (`IInv`). From a history, the
walk from a final state is, before feed i, in a state of that moment, and what it has
stacked are brackets of the frames which a later pop recorded (`WalkedTo`), by induction
down the stream (`BackStepWalks`, `BackWalkWalks`). The choices of the unordered
containers are arbitrary throughout. WalksBackToStart asks for more than the end of the
walk: each turn of the loop undoes a step that the machine takes on that alphabet,
inside an NFA, into a bracket or out of one (`NopStep`, `PushStep`, `PopStep`), keeps
the parsing stream of that step and of no other, and a bracket is left where it says it
continues. So the records of all runs together give back one run (`SteppedIsStep`).

**The tree** (`ParseTreeProofs`, over `InstanceSpec`).

* `TreesFitUntilInit`: `InstanceSpec => TreeFitsUntilInit`, an action property.

Parsing streams carry no order of their own, but the loops of ConstructTree read them by
position, so markers come in order (`MarkersAreOrdered`). `NestsUpTo` holds of
ConstructTree after the markers before position p: the open nodes are a path from the
root, each starting within the one before, and every other node of the tree is closed
and within its parent (`OpenNodeNests`, `CloseNodeNests`). When the loops end without an
assertion only the root is open, so all nodes nest and end within the stream; feeds only
lengthen it, and Reset gives a fresh tree.

* `EndsAlwaysComplete`: `InstanceSpec => [](HasDepths(machine) => EndsComplete)`. For a
  machine whose parsing streams nest, no assertion of ConstructTree fails, the root gets
  a child, and the nodes that were there are as they were.

`HasDepths` is what the builder has to see to: a number of open nodes for every state,
from which each edge's stream goes to that of its target without closing what it did not
find open (`StreamsNest`). TLC evaluates it, with the depths it computes (`DepthsOf`), for
the machines of `clients` (`StreamsOfClientsNest`) and in `rule_families`, in
TreesOfFlatUnionsAreValid; it is false of machines with finding 2. At each moment of the
walk the open nodes are those of its state and of the states below its brackets
(`StepLevels`, `WalkLevels`), so all markers together climb from 0 and return to 0 without
going below it, and a tree that is built from such markers completes (`ClimbsComplete`).

* `WalkSpells`: the parsing streams that Parse gives to ConstructTree are those along
  *one* run of the machine, from its start to a final state outside all brackets
  (`Spells`).
* `AddedIsFresh`: what ConstructTree adds below the children of a tree that earlier Ends
  left is what it makes of the same streams alone, but for the place of the nodes. The two
  trees mirror each other after every marker (`Mirrors`): a node is further on by the
  nodes that were there, and only the root is shared.

**Clients** (`ClientProofs`, for any parsers of any grammars, over `ClientSpec`: Feed,
Reset, End, Init with the same parser or another, in any order; and over `ErrorsSpec`: the
Feed, Reset and End that report an Error, in any order).

The theorems above are about the machine. What a client is promised is about the grammar,
and between them is the builder, which the provers cannot follow. The theorems here say
that nothing else is. Each has one of two hypotheses about the parsers, of which no
operation is mentioned, only a machine and its grammar:

* `ParsersKnowLanguages`: the machine has a run over exactly the acceptable strings of
  its grammar, and one that ends the parse over exactly the strings of its language.
* `ParsersSpellTrees`: the streams along any single run over a string give ConstructTree
  a parse tree of it, from a fresh tree.

The first gives

* `ClientsAcceptLanguage`, `ClientsFeedAcceptable`, `ClientsListPossible`: AcceptsLanguage,
  FeedIffAcceptable and PossibleAlphabetsExact are invariants;
* `ClientsRecognise`: `ClientSpec => ImplementsRecognizer`, with Init of another parser as
  the recogniser's `Begin`;
* `RefusalsExplained`: `ErrorsSpec => []RefusalsAreExplained`, and
  `UnfinishedTextsExplained`, the action property of errors of End;

and the second

* `ClientsGetParseTrees`: `ClientSpec => []ParseTreesAreValid`;
* `EndsAddParseTrees`: `ClientSpec => []EndAddsParseTree`, for any number of Ends, of
  several parsers, and after refused feeds.

ClientSpec implements Spec and InstanceSpec, so IInv, RunsFit and HasHistory hold of it,
together with `Serves`: the CoreParser has the machine of the grammar in hand. Then runs
are what the queries are about (`FeedsGoOn`, `AnswersOfGrammar`). An error outlives the
state it was made in; `ErrorsInv` says what it keeps: while an error about invalid tokens
stands, the stream is what was offered before its position, the alphabet offered there
has no run, and nothing else is kept. For trees, WalkSpells finds the one run whose tree the hypothesis speaks of,
and AddedIsFresh moves it below what is there; that the client's tree has a root without a
rule is an invariant too (`RootInvariant`).

The hypotheses say something of all strings, which no run can evaluate. On the strings
that `samples` explores the first follows from FollowsEveryRun with AcceptsLanguage and
PossibleAlphabetsExact, and the second is what ParseTreesAreValid checks, since the
records may be those of any run. They are false of the grammars of findings 1 and 3, and of
finding 2. The theorems thus say for which part of the checks small strings are only a
sample: the builder's. That grammars with loops and calls of any depth, histories of any
length, and what is left from one operation to the next add nothing is proved.

**The lexer** (`LexerProofs`, over `TextSpec`, for every Lexer, every text, with actions
that jump, throw and name missing sections, and Reset and Init at any time).

* `TokenizerImplemented`: `TextSpec => ImplementsTokenizer`, with each step of the
  instance mapped to a step of the tokenizer or a stutter, for Lexers that satisfy
  `LexersKnowTokens`: wherever a word leads from the start of a section, the DFA's state
  answers for it as the rules demand (`Knows`). That is what the construction of the DFA
  has to guarantee, for all words; `objects` checks it, as `KnowsToken` in
  `StateKnowsToken`, for the words its clients feed to the DFAs the builder makes. The
  invariant is `FollowsToken`: the current token led to the current state from the
  start of the section the token is of, although the instance keeps neither token nor
  section. So what is proved is the part of the instance: ranges, sections, the one
  action per token, refusals and resets.
* `FirstPositionsAlwaysMatch`: `TextSpec => []FirstPositionsMatchText`, for every DFA.
  The invariant `PositionInv` adds that the ranges of the tokens seen lie in the text,
  whose positions a longer text keeps (`PositionStays`); the loop that advances line and
  column over the buffer is shown to compute the position after it, by induction
  (`AdvancedIsPosition`).

Its assumption `LexersFitGrammar`, which TLC evaluates for the built Lexers, names the
main section and the actions of a Lexer, and says that the DFA starts in the main
section, as `Lexer::Finalize` asserts that there is one.

`ParserBuilderProofs`, for every set of grammars, any old files, any bound on machines
and *any* function `SimpleChecksum` of texts, from `OldFilesHaveOldVersions` and
`EachRuleHasAnAction`:

* `StoreTypeCorrect`: `StoreSpec => []StoreTypeOK`, which is proved only.
* `TablesOfItsChecksum`: `StoreSpec => []TablesHaveItsChecksum`, for programs that do not
  use one object for several grammars: their own actions run on the tables of a grammar
  with the checksum of their own. That is all that the check gives, and it does hold over
  every series of releases, restarts and exports of what was imported. A corollary,
  `ParserOfItsGrammar`, says that a checksum under which no two grammars of different
  meaning collide (`HashTellsMeaning`, a hypothesis that finding 7 shows to be false of
  some grammars) would be enough for `ParsesItsGrammar`.
* `InstancesValid`: `StoreSpec => []InstancesStayValid`, for all programs.
* `OwnExportIsImported`: `StoreSpec => ImportsItsOwnExport`, for all programs: bytes that
  are an export for a grammar are accepted by a process with the same grammar, and
  give an object that is no parser yet the members that Build would give it
  (`OwnImport`). It needs an invariant of its own: a failed Import leaves no parser, so
  the calls after it cannot keep its reply.

What is true of the parser object depends on what is in the file, which an earlier
release wrote: the inductive invariant `StoreInv` says of the bytes that they are
nobody's, too old, or an export of the tables of one grammar with the number of the
actions and the checksum of another, which is the checksum of the first one too unless
programs mix grammars; and of the object that it is untouched, with no instances, or has
the tables of a grammar with the program's checksum and the program's actions, at the
address of the last machine. `ExportedWords` reads back what Export wrote.

`ParserBuilderProofs` also has, for any objects, addresses, types and values of AnyValue:

* `ValuesAreOwnedOnce`, `CastsSound`: `OwnedOnce` and `CastsAreSound` are invariants.
  They are inductive together with the types: a copy gives a value the type of the
  copy function, so one needs the other.
* `AnyIsAValue`: AnyValue implements ValueStore; each action of the one maps to an
  action of the other, since no object shares its value.

The recursive functions (`TreeWalk`, `BackWalk`, `Advanced`, `RunsUpTo`) are proved
about with `Induction`: a least counterexample exists because < is well-founded on the
naturals, which gives induction and the existence of a recursively defined function for
a fixed set, with no operator as a parameter.

Only model-checked, and why:

* What the builders make: InternalAParseGrammar, AParseMachineBuilder,
  LexerMachineBuilder, the searches and `GrammarLanguage` are RECURSIVE operators, with
  which the provers cannot work, and what they compute is true by induction over regexes,
  which no installed prover can use. So are the hypotheses of ClientProofs for the built
  machines, `Knows` of the built DFA, `BuiltMachineIsWellFormed`,
  `TreesOfFlatUnionsAreValid`, and the properties of Validate, of RegexBuilder, of
  LexerBuilder and of the front end, whose values are computed by recursion over a tree.
* The walk of SyntaxTreeMaker: its module gets its trees from ParserSystem, and with it
  the builder, and `ActionsSeeWhatIsMet` compares values that are computed by recursion
  over the tree.
* Which grammars write one text (`TextsCollide`): finite facts about some texts.
* Liveness (`WalkReturns`) and what says ENABLED.

## 7. Findings

1. `nullable_start`: `Main ::= B C`, `B ::= x*`, `C ::= y*` does not accept the
   empty string. `WrapWithParsingStream` replaces a start state inside an
   instance and does not make the new one final.
2. `optional`: in `(B x)?`, `MergeEquivalentFinalState` overwrites the stream of
   an edge with that of the final state; B's END marker is lost and End aborts.
3. `bracket_start`: an ent whose regex starts with a non-terminal loses edges to
   `RemoveUnreachableStates`: `'(' B x ')'` is refused at x.
4. `single_alphabets`: a lexer section whose rules are all single alphabets loses
   its labels to an optimisation; the look-up of the action throws.
5. `blank_alternative`: the front end takes `A ::= | x`, `A ::= x | | y` and
   `A ::= ( | x )`, and regexes such as `|a` and `a||b`, because
   `<concat_expression>` is built with `*` where the comments above both grammars
   say `+`. Its action then reads the first element of an empty vector.

6. `missed_child`: an instance of the empty string at the very end of its parent is
   never met by the loops of `lCreateST`, which run while `s < node.end`: its action
   does not run, `ValueList()` has a default value in its place, and `ValueList(i)`
   and `Exists(i)` do not know it. `docs/aparse_cpp.md` (210-211, 309, 335) promises
   actions that all of them are constructed and listed. (The front end depends on it:
   `A ::=`, `x |` and `()` are read well because a default value is EPSILON.)
7. `colliding_texts`: the text of the checksum has nothing between a number and the
   size or name after it, and branching names have no size. `x` = 4 with branching
   `("1(", "2)")` and `x` = 0x41 with branching `("(", "2)")` both end in `1x411(2)`:
   one text, two meanings, and `Import` takes the tables of one for the actions of the
   other. `OtherMain` in MCParserBuilder is a second such pair, with no unusual
   numbers. `include/aparse/parser_builder.hpp:53-56` gives the checksum as what tells
   the given grammar from the original one.

Observations, where no doc is definite unless one is named, and what the passing runs do
about them:

* Parse ignores `is_valid_path_so_far`, so after a refused feed End gives the tree of
  the string before it where IsFinal is false; a second End adds a second tree below
  the same root. Both are part of `EndAddsParseTree`.
* Init keeps `parse_tree`: CreateSyntaxTree afterwards reads a stream that is empty
  and throws from `stream.at`. `TreeFitsUntilInit` says that nothing else does.
* `ValueList(index)` moves the values of a term out of the shared list. An action that
  asks twice gets moved-from values the second time, and `Exists(index)` is true
  after it for a term that is absent. Other actions never notice.
* `Validate` accepts branching alphabets outside a CONCAT, for instance as parts of a
  union. The builder then treats them as plain alphabets. The properties of Validate
  in `front_end` except them.
* `[^a-c]` excludes character 0 only, since a range has no alphabet of its own, and
  `[b-a]` fails an assertion; `PlainTextsAreRead` excepts both. `[]` is a union of
  nothing.
* A second `Build` on one Lexer appends the new states and moves edges as if the
  vector were empty: the Lexer then follows edges of the first grammar with section
  starts and labels of the second. `StatesAreInside` says that it stays within its
  states; `LexesAsBuilt` speaks of Lexers that were built once.
* A section without rules is dropped, and if it is the main section the process
  aborts in `Lexer::Finalize`.
* `x + x` and `x | x` read the right operand after the left one was moved into the
  new node: the second copy is an empty node of x's type. `Kplus`, `Kstar` and
  `Optional` leave the label on the node they wrap and on the new one.
  `BuildsWhatIsMeant` excepts objects joined to themselves.
* `ParserBuilder::Import` into a Parser object that is already a parser returns true and
  compares nothing: a program that mixes grammars (`Mixes`) is told that it succeeded and
  goes on with the tables of the first, where `parser_builder.hpp:53-55` says that Import
  fails if the checksum differs. The runs and the theorems about tables are about
  programs that use an object for one grammar, which do not meet it; the theorems
  about instances and exports are about all programs.
* The error of an unsuccessful End has no position.

The passing runs keep clear of findings 1 and 3 by their choice of grammars: the
callees in `AllCallRules` do not accept the empty string, brackets do not start with
another non-terminal. Of finding 4 `StateKnowsToken` says exactly
where it may show (`LosesActions`). Of finding 2 they keep clear in a property,
`TreesOfFlatUnionsAreValid`, which speaks of trees where no union has a part that uses a
non-terminal outside brackets; of finding 5 in `IsPlain`; of finding 6 in
`ActionsSeeWhatIsMet`, which speaks of instances without such a child; and
`TablesHaveItsChecksum` says what the check of finding 7 does give.

## 8. Not modelled, and the plan

Left out within modelled components: the texts of Error messages, DebugStream,
hashing of states, the bytes of a field of an exported machine,
`LexerMachineBuilder::ReduceNFA` (no caller), `CoreParser::CanFeed` (asserts that it
is not implemented), ALL_EXCEPT in rules (no text gives it), C++ type errors of
actions. An alphabet is a small number: nothing in the modelled code looks inside one
except the lexer, for the new line. Version 1 is left out because it cannot be
compiled: its header begins with a failing `static_assert`, so there is no behaviour
to model; it is a fifth of the library's lines.

Done, in this order: CoreParser with its proof; machine and builder; ParserInstance
with the language of a grammar; the families of grammars; the lexer; Validate; the
walk of syntax trees, and that it ends; the front end from text to numbered grammar;
errors; the operators; LexerBuilder; parsers that are saved, with proofs; `utils::any`
with the proof of its refinement.

Then the proofs of section 6: that the sets of states and frames follow the runs of
the machine, that the back-tracker leads back, that trees nest, and the lexer, for which
LexerText was separated from the rules. At last what a client is promised, for which
ParserClient was separated from the builder: answers, errors, and that each End adds one
parse tree.

What could follow:

1. The walk of SyntaxTreeMaker, in a module that knows only a tree that fits: the frames
   are a path of the tree, and an action sees the values of its own children.
2. LexerBuilder, for any outcome of the builders.
