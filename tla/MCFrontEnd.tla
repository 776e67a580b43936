------------------------------- MODULE MCFrontEnd -------------------------------
(***************************************************************************)
(* Grammars before they are built, as text and as records.  Texts: texts of *)
(* rules for ParseRegexRule, from characters to the value (RuleReader),     *)
(* and, for more of them, the tokens of rules and the characters of regexes *)
(* as they reach the parser (RuleStrings).  Checks: Validate on a family of *)
(* grammars, right and wrong ones, and the two graph searches on every      *)
(* graph with nodes 1..GraphNodes, self loops included.                     *)
(***************************************************************************)
EXTENDS RuleReader, SampleGrammars

CONSTANTS
  FrontEndParts, \* "texts", "checks" or both
  GraphNodes

VARIABLES part, graph, candidate, low, result

checked_vars == <<graph, candidate, low, result>>

-------------------------------------------------------------------------------
(* Texts *)

\* The machines come from the builder.
None == {}
Rules == {RuleGrammar}

\* All that a rule or a regex is made of, with two of the suffixes + * ? each:
\* a rule has no STRING, whose action is that of the other atoms.
TypedTokens ==
  (RuleGrammar :> {0, 1, 3, 5, 7, 8, 12, 13}) @@
  (CharGrammar :> {1, 2, 3, 4, 5, 6, 9, 10, 11, 12, 13})
TextLengths == (RuleGrammar :> 7) @@ (CharGrammar :> 5)

-------------------------------------------------------------------------------
(* Texts of RuleReader *)

Piece(type, chars) == [type |-> type, chars |-> chars]

\* a, <a1>, "\"" and the symbols that a rule is made of, and [ and ^, which only
\* tokens of no rule need.
Word == Piece(1, <<1>>)
Assignment == Piece(12, <<17, 17, 18>>)
Tokens ==
  {Word, Piece(0, <<3, 1, 2, 4>>), Piece(6, <<5, 7, 5, 5>>), Piece(5, <<9>>),
   Piece(8, <<10>>), Piece(3, <<14>>), Piece(13, <<19>>)}
OtherTokens ==
  {Assignment, Piece(6, <<6, 6>>), Piece(2, <<13>>), Piece(7, <<15>>), Piece(9, <<11>>),
   Piece(10, <<12>>), Piece(11, <<16>>)}

\* A character of no token, a non-terminal, a string and a ::= that stop short.
Cuts == {Piece(Broken, <<0>>), Piece(Broken, <<3, 1>>), Piece(Broken, <<5, 0>>),
         Piece(Broken, <<17, 17>>)}

Blank == Piece(Space, <<8>>)
Spaced(ps) == FlattenSeq([k \in DOMAIN ps |-> <<Blank, ps[k]>>]) \o <<Blank, Blank>>

\* Two words need a space between them.
Tight(ps) ==
  FlattenSeq([k \in DOMAIN ps |->
                IF k > 1 /\ ps[k] = Word /\ ps[k - 1] = Word THEN <<Blank, Word>>
                ELSE <<ps[k]>>])

RuleTexts == {<<Word, Assignment>> \o ps : ps \in BoundedSeq(Tokens, 4)}
OtherTexts ==
  {<< >>} \cup {<<Word, Assignment, p, q>> : p \in Tokens, q \in OtherTokens}
    \cup {<<p, q>> : p, q \in Tokens \cup OtherTokens}
    \cup {<<Word, Assignment, p, q>> : p \in Tokens, q \in Cuts}
    \cup {<<q, p>> : p \in Tokens, q \in Cuts}

SomeTexts == {Tight(ps) : ps \in RuleTexts \cup OtherTexts}
           \cup {Spaced(ps) : ps \in {r \in RuleTexts : Len(r) < 6} \cup OtherTexts}

OneName == {<<Word, Assignment, Word>>}

-------------------------------------------------------------------------------

\* A call for tokens or characters that are there already: it feeds them one by one.
FrontEndInit ==
  \/ ReaderInit
  \/ /\ ClientStart
     /\ Lexing!LexerStart(RuleLexer(TRUE))
     /\ pieces = << >> /\ stage = "typing" /\ error = Success

Type == stage = "typing" /\ (TextFeed \/ TextEnd) /\ UNCHANGED <<pieces, stage, error, lexer_variables>>

\* What is typed may stop anywhere; a call of ReaderNext gets on.
Stop == stage = "typing" /\ UNCHANGED reader_vars

-------------------------------------------------------------------------------
(* Checks *)

\* Alphabets '(' 0, ')' 1, '[' 2, ']' 3, x 4; non-terminals A 10, B 11, C 12.
Pairs == (0 :> 1) @@ (2 :> 3)

AllPairs == <<12, Cat(<<Atom(0), Atom(4), Atom(1), Atom(2), Atom(4), Atom(3)>>)>>

RuleParts ==
  {Atom(a) : a \in {0, 1, 3, 4, 10, 11}}
    \cup {Star(Atom(11)), Alt(<<Atom(10), Atom(0)>>), Cat(<<Atom(0), Atom(11), Atom(1)>>)}

RulesForB ==
  {Eps, Atom(4), Atom(0), Atom(10), Plus(Atom(10)), Alt(<<Atom(4), Atom(12)>>),
   Alt(<<Atom(4), Atom(11)>>),
   Cat(<<Atom(0), Atom(10), Atom(1)>>), Star(Cat(<<Atom(2), Atom(10), Atom(3), Atom(4)>>)),
   Cat(<<Atom(0), Atom(2), Atom(11), Atom(3), Atom(1), Star(Atom(10))>>)}

RuleGrammars ==
  {Grammar(5, 10, Pairs, << <<10, Cat(<<p, q, r>>)>>, <<11, s>>, AllPairs >>) :
     p, q, r \in RuleParts, s \in RulesForB}

\* Grammars that are wrong before their rules are read.
WrongGrammars ==
  LET a == <<10, Plus(Atom(4))>>
      good == Grammar(5, 10, Pairs, <<a, AllPairs>>)
  IN {[good EXCEPT !.alphabet_size = 0], [good EXCEPT !.rules = << >>],
      [good EXCEPT !.alphabet_size = 11], [good EXCEPT !.main_non_terminal = 11],
      [good EXCEPT !.rules = <<a, AllPairs, a>>], [good EXCEPT !.alphabet_size = 4],
      [good EXCEPT !.rules = <<a>>], [good EXCEPT !.branching_alphabets = (0 :> 1) @@ (2 :> 1)],
      [good EXCEPT !.rules[1][2].label = 1]}

NoGrammar == Grammar(0, 0, << >>, << >>)

NoGraph == << >>

\* The front end rests while something is checked.
ChecksInit ==
  /\ ReaderInit /\ built = MachineOf(RuleGrammar, TRUE)
  /\ low \in BOOLEAN /\ result = << >>
  /\ \/ graph \in [1..GraphNodes -> SUBSET (1..GraphNodes)] /\ candidate = NoGrammar
     \/ graph = NoGraph /\ candidate \in RuleGrammars \cup WrongGrammars

NothingIsChecked == graph = NoGraph /\ candidate = NoGrammar /\ low = TRUE /\ result = << >>

Search ==
  /\ result = << >> /\ graph # NoGraph
  /\ result' = <<TopologicalSortingInGraph(graph, low), CycleDetectionInGraph(graph, low)>>
  /\ UNCHANGED <<graph, candidate, low>>

CheckGrammar ==
  /\ result = << >> /\ candidate # NoGrammar
  /\ result' = <<Validate(candidate, low)>>
  /\ UNCHANGED <<graph, candidate, low>>

\* What was checked stays.
Rest == result # << >> /\ UNCHANGED checked_vars

-------------------------------------------------------------------------------

PartsInit ==
  /\ part \in FrontEndParts
  /\ \/ part = "texts" /\ FrontEndInit /\ NothingIsChecked
     \/ part = "checks" /\ ChecksInit

PartsNext ==
  /\ \/ part = "texts" /\ (ReaderNext \/ Type \/ Stop) /\ UNCHANGED checked_vars
     \/ part = "checks" /\ (Search \/ CheckGrammar \/ Rest) /\ UNCHANGED reader_vars
  /\ UNCHANGED part

PartsSpec == PartsInit /\ [][PartsNext]_<<part, reader_vars, checked_vars>>

-------------------------------------------------------------------------------

\* The nodes on the paths, of one edge or more, from u.
RECURSIVE Reached(_, _)
Reached(g, S) ==
  LET next == S \cup UNION {g[v] : v \in S} IN IF next = S THEN S ELSE Reached(g, next)

HasCycle(g) == \E u \in DOMAIN g : u \in Reached(g, g[u])

Searched == graph # NoGraph /\ result # << >>
Checked == candidate # NoGrammar /\ result # << >>

\* Both searches answer true exactly for the graphs without a cycle: Validate
\* refuses a grammar, and the builder goes on to sort it, by this answer.
SearchesDetectCycles ==
  Searched => /\ result[1].ok <=> ~HasCycle(graph)
              /\ result[2] <=> ~HasCycle(graph)

IsSortedAfter(g, sorted) ==
  LET position(u) == CHOOSE i \in DOMAIN sorted : sorted[i] = u
  IN /\ Len(sorted) = Cardinality(DOMAIN g)
     /\ ToSet(sorted) = DOMAIN g
     /\ \A u \in DOMAIN g : \A v \in g[u] : position(v) < position(u)

\* A sorted graph lists every node once, after all the nodes it depends on: the
\* builder finds the NFA of every non-terminal a rule uses (BuildNFAs, at()).
SortedAfterDependencies ==
  Searched /\ result[1].ok => IsSortedAfter(graph, result[1].sorted)

\* The strings of alphabets and non-terminals a regex stands for, each starred
\* part taken at most once.
RECURSIVE SymbolStrings(_)
SymbolStrings(r) ==
  LET parts == [i \in DOMAIN r.children |-> SymbolStrings(r.children[i])]
  IN CASE r.type = "EPSILON" -> {<< >>}
       [] r.type = "ATOMIC" -> {<<r.alphabet>>}
       [] r.type \in {"UNION", "KPLUS"} -> UNION {parts[i] : i \in DOMAIN parts}
       [] r.type = "KSTAR" -> {<< >>} \cup parts[1]
       [] r.type = "CONCAT" ->
            LET from[i \in 1..Len(parts) + 1] ==
                  IF i > Len(parts) THEN {<< >>}
                  ELSE {w \o v : w \in parts[i], v \in from[i + 1]}
            IN from[1]

Occurring(w, i, S) == Cardinality({j \in 1..i : w[j] \in S})

\* The bracket depth of position i of the string w.
Depth(g, w, i) ==
  Occurring(w, i, DOMAIN g.branching_alphabets) - Occurring(w, i, ClosingAlphabets(g))

\* A string is nested if deleting innermost pairs leaves no bracket.
RECURSIVE IsNested(_, _)
IsNested(g, brackets) ==
  LET pairs == {i \in 1..Len(brackets) - 1 :
                  /\ brackets[i] \in DOMAIN g.branching_alphabets
                  /\ brackets[i + 1] = g.branching_alphabets[brackets[i]]}
      i == CHOOSE i \in pairs : TRUE
  IN IF brackets = << >> THEN TRUE
     ELSE pairs # {} /\ IsNested(g, SubSeq(brackets, 1, i - 1)
                                      \o SubSeq(brackets, i + 2, Len(brackets)))

Branching(g) == DOMAIN g.branching_alphabets \cup ClosingAlphabets(g)

\* A branching alphabet that is not a child of a CONCAT, which Validate lets pass.
RECURSIVE HasBareBracket(_, _)
HasBareBracket(g, r) ==
  \/ r.type = "ATOMIC" /\ r.alphabet \in Branching(g)
  \/ \E i \in DOMAIN r.children :
       /\ r.type = "CONCAT" => r.children[i].type # "ATOMIC"
       /\ HasBareBracket(g, r.children[i])

NoBareBracket(g) == \A rule \in ToSet(g.rules) : ~HasBareBracket(g, rule[2])

\* Which non-terminals a rule uses outside brackets, read off the strings it
\* stands for and not off its regex.
UsedOutsideBrackets(g) ==
  [nt \in NonTerminals(g) |->
     UNION {{w[i] : i \in {i \in DOMAIN w : w[i] \in NonTerminals(g) /\ Depth(g, w, i) = 0}} :
            w \in SymbolStrings((CHOOSE rule \in ToSet(g.rules) : rule[1] = nt)[2])}]

\* Validate refuses for a cycle exactly the grammars, right otherwise, where a
\* non-terminal can lead back to itself outside all brackets ("non enclosed
\* cyclic dependency"); with brackets outside a CONCAT it may refuse more.
CyclesOutsideBracketsAreRefused ==
  Checked /\ result[1] \in {"OK", "NON_ENCLOSED_CYCLIC_DEPENDENCY"} =>
    LET cyclic == HasCycle(UsedOutsideBrackets(candidate))
    IN /\ cyclic => result[1] # "OK"
       /\ NoBareBracket(candidate) /\ ~cyclic => result[1] = "OK"

\* Whatever strings the rules of a valid grammar stand for, their brackets are
\* nested ("Validates the proper use of branching alphabets"), those aside that
\* are not in a CONCAT.
ValidRulesNestBrackets ==
  Checked /\ result[1] = "OK" /\ NoBareBracket(candidate) =>
    \A rule \in ToSet(candidate.rules) : \A w \in SymbolStrings(rule[2]) :
      IsNested(candidate, SelectSeq(w, LAMBDA a : a \in Branching(candidate)))

\* InternalAParseGrammar, which finds brackets and dependencies with code of its
\* own, agrees with Validate: it sorts the non-terminals of a valid grammar, leaves
\* no bracket in a rule, and every other atom has a rule or is a terminal.
ValidGrammarsAreBuildable ==
  Checked /\ result[1] = "OK" =>
    LET i == InternalGrammar(candidate, low)
        nts == NonTerminals(candidate)
        regexes == {i.rules[nt] : nt \in nts}
                     \cup {i.enclosed_rules[e] : e \in DOMAIN i.enclosed_rules}
        atoms == UNION {Atoms(r) : r \in regexes}
    IN /\ IsSortedAfter([nt \in nts |-> ComputeDependency(i.rules[nt], nts)],
                        i.topological_sorted_non_terminals)
       /\ atoms \subseteq 0..candidate.alphabet_size - 1 \cup nts \cup DOMAIN i.enclosed_rules
       /\ NoBareBracket(candidate) => atoms \cap Branching(candidate) = {}
=================================================================================
