----------------------------- MODULE RuleGrammars ------------------------------
(***************************************************************************)
(* helpers::StringRulesToAParseGrammar (src/parse_regex_rule.cpp), with     *)
(* which ParserBuilder::Build numbers the names of the rules a client       *)
(* wrote, and SimpleAParseGrammarBuilder, with which the integration tests  *)
(* do.  The parser that is built knows numbers only; its client feeds the   *)
(* numbers of the alphabets it named, or that the walk of an unordered      *)
(* table gave them.                                                         *)
(*                                                                          *)
(* Here a rule is read already (see RuleReader and RuleStrings): a pair of  *)
(* a name and a regex whose atoms are names.                                *)
(***************************************************************************)
EXTENDS ParserSystem

CONSTANT Written   \* grammars as clients write them: [rules, alphabets,
                   \* branching_alphabets, main], all of names; alphabets maps
                   \* names to numbers and is empty when the client has none

VARIABLES written,     \* what the client gave to ParserBuilder
          string_map   \* the number of every name that is an alphabet

rule_grammar_vars == <<system_vars, written, string_map>>

\* The names that rules define, and those they mention.
Defined(w) == NonTerminals(w)
Mentioned(w) == UNION {Atoms(rule[2]) : rule \in ToSet(w.rules)}
BracketNames(w) == DOMAIN w.branching_alphabets \cup Range(w.branching_alphabets)

\* The walk of a table numbers its names in the order it meets them, from first.
Numberings(names, first) == Bijection(names, first .. first + Cardinality(names) - 1)

\* What a builder numbers: the alphabets, how many those are, the non-terminals.
TablesOf(map, size, all_nts) ==
  {[map |-> map, alphabet_size |-> size, non_terminals |-> nts] : nts \in all_nts}

-------------------------------------------------------------------------------
(* StringRulesToAParseGrammar *)

\* The client's numbers, or else numbers for the names no rule defines.
StringMaps(w) ==
  IF DOMAIN w.alphabets = {} THEN Numberings(Mentioned(w) \ Defined(w), 0)
  ELSE {w.alphabets}

\* Mutant: the client's numbers have no gaps.
CountedAlphabet(map) == Cardinality(DOMAIN map) - 1

MaxAlphabet(map) == Max({0} \cup Range(map))

\* The assertions: no alphabet is defined, every name mentioned is one or the
\* other, brackets are alphabets and the main name is defined.
NamesAreKnown(w, map) ==
  /\ DOMAIN map \cap Defined(w) = {}
  /\ Mentioned(w) \subseteq DOMAIN map \cup Defined(w)
  /\ BracketNames(w) \subseteq DOMAIN map
  /\ w.main \in Defined(w)

\* Non-terminals are numbered above the alphabets: index is incremented first.
RuleTables(w) ==
  UNION {TablesOf(map, 1 + MaxAlphabet(map), Numberings(Defined(w), MaxAlphabet(map) + 2)) :
           map \in {m \in StringMaps(w) : NamesAreKnown(w, m)}}

-------------------------------------------------------------------------------
(* AParseGrammarIntAssignment: it never looks at a client's numbers. *)

SimpleNonTerminals(w) == Defined(w) \cup {w.main}
SimpleTerminals(w) == (Mentioned(w) \cup BracketNames(w)) \ SimpleNonTerminals(w)

SimpleTables(w) ==
  LET size == Cardinality(SimpleTerminals(w))
  IN UNION {TablesOf(map, size, Numberings(SimpleNonTerminals(w), size)) :
              map \in Numberings(SimpleTerminals(w), 0)}

-------------------------------------------------------------------------------

\* The regex of a rule, with a number for each of its names.
RECURSIVE Numbered(_, _)
Numbered(r, number) ==
  IF r.type = "ATOMIC" THEN Atom(number[r.alphabet])
  ELSE [r EXCEPT !.children = [i \in DOMAIN @ |-> Numbered(@[i], number)]]

NumberedGrammar(w, t) ==
  LET number == t.map @@ t.non_terminals
      opening == DOMAIN w.branching_alphabets
  IN [alphabet_size |-> t.alphabet_size,
      main_non_terminal |-> number[w.main],
      branching_alphabets |->
        [n \in {number[o] : o \in opening} |->
           number[w.branching_alphabets[CHOOSE o \in opening : number[o] = n]]],
      rules |-> [i \in DOMAIN w.rules |->
                   <<number[w.rules[i][1]], Numbered(w.rules[i][2], number)>>]]

\* Build, for every order of the walks.  The client gets a parser only if no
\* assertion fails, here and in Validate.
RuleGrammarInit ==
  \E w \in Written, low \in BOOLEAN : \E t \in RuleTables(w) \cup SimpleTables(w) :
    /\ grammar = NumberedGrammar(w, t)
    /\ Validate(grammar, low) = "OK"
    /\ written = w
    /\ string_map = t.map
    /\ built = MachineOf(grammar, low)
    /\ InstanceStart(built)

RuleGrammarNext == RecognizerNext /\ UNCHANGED <<written, string_map>>

RuleGrammarSpec == RuleGrammarInit /\ [][RuleGrammarNext]_rule_grammar_vars

-------------------------------------------------------------------------------

\* The strings of names whose numbers were fed: two names may share a number.
NamesOf(a) == {n \in DOMAIN string_map : string_map[n] = a}
RECURSIVE Spellings(_)
Spellings(s) ==
  IF s = << >> THEN {s}
  ELSE {Append(w, n) : w \in Spellings(Front(s)), n \in NamesOf(Last(s))}

IsWritten(w) == Len(w) \in Ends(RulesOf(written), Atom(written.main), w, {0})
MayBeWritten(w) == Viable(RulesOf(written), Atom(written.main), w, {0})

\* However the tables are walked, and whatever numbers the client chose, gaps and
\* aliases included, the parser follows the rules as they were written: it
\* accepts the numbers of exactly their strings of names, and takes a number
\* exactly if one of its names can follow (parser_builder.hpp, Build).
RulesAreFollowed ==
  is_valid_path_so_far /\ DOMAIN string_map # {} =>
    /\ IsFinal <=> \E w \in Spellings(stream) : IsWritten(w)
    /\ \A a \in Alphabets :
         FeedSucceeds(a) <=> \E w \in Spellings(Append(stream, a)) : MayBeWritten(w)
================================================================================
