----------------------------- MODULE AParseGrammar -----------------------------
(***************************************************************************)
(* AParseGrammar::Validate (src/aparse_grammar.cpp): what a grammar must be *)
(* before a machine is built for it.  Validate(g) is "OK", or the code of   *)
(* the Error that the code throws first.  branching_alphabets is a map from *)
(* opening to closing alphabets here (see Regex), so two pairs with the     *)
(* same opening alphabet, which the code refuses as well, do not occur.     *)
(***************************************************************************)
EXTENDS Regex, GraphUtils, FiniteSets, FiniteSetsExt, SequencesExt

ClosingAlphabets(g) == {g.branching_alphabets[a] : a \in DOMAIN g.branching_alphabets}

IsOpening(g, r) == r.type = "ATOMIC" /\ r.alphabet \in DOMAIN g.branching_alphabets
IsClosing(g, r) == r.type = "ATOMIC" /\ r.alphabet \in ClosingAlphabets(g)

\* One child of a CONCAT against the openings not closed yet.  A child that is
\* not a branching alphabet changes nothing.
Match(g, open, child) ==
  IF IsOpening(g, child) THEN Append(open, child.alphabet)
  ELSE IF IsClosing(g, child) THEN SubSeq(open, 1, Len(open) - 1)
  ELSE open

\* Mutant: any closing alphabet closes any opening one.
BalancedInNumber(g, rs) ==
  LET open[i \in 0..Len(rs)] == IF i = 0 THEN << >> ELSE Match(g, open[i - 1], rs[i])
  IN /\ \A i \in DOMAIN rs :
          ~IsOpening(g, rs[i]) /\ IsClosing(g, rs[i]) => open[i - 1] # << >>
     /\ open[Len(rs)] = << >>

\* Every closing child closes the opening one before it, and none stays open.
Balanced(g, rs) ==
  LET open[i \in 0..Len(rs)] == IF i = 0 THEN << >> ELSE Match(g, open[i - 1], rs[i])
  IN /\ \A i \in DOMAIN rs :
          ~IsOpening(g, rs[i]) /\ IsClosing(g, rs[i]) =>
            /\ open[i - 1] # << >>
            /\ rs[i].alphabet = g.branching_alphabets[Last(open[i - 1])]
     /\ open[Len(rs)] = << >>

\* lValidateRuleRegex: what it throws for r and below, first things first.
RECURSIVE RegexErrors(_, _)
RegexErrors(g, r) ==
  (IF r.label # 0 THEN <<"REGEX_LABEL_MUST_BE_ZERO">> ELSE << >>)
    \o (IF r.type = "CONCAT" /\ ~Balanced(g, r.children)
        THEN <<"INVALID_USE_OF_BRANCHING_ALPHABET">> ELSE << >>)
    \o FlattenSeq([i \in DOMAIN r.children |-> RegexErrors(g, r.children[i])])

\* Mutant: what is in brackets counts as well.
RECURSIVE DependentInBracketsToo(_, _)
DependentInBracketsToo(g, r) ==
  IF r.type = "ATOMIC" THEN {a \in {r.alphabet} : a >= g.alphabet_size}
  ELSE UNION {DependentInBracketsToo(g, r.children[i]) : i \in DOMAIN r.children}

\* Mutant: a CONCAT is left at its first bracket.
RECURSIVE DependentBeforeBrackets(_, _)
DependentBeforeBrackets(g, r) ==
  LET rs == r.children
      outside == {i \in DOMAIN rs : r.type = "CONCAT" => \A j \in 1..i : ~IsOpening(g, rs[j])}
  IN IF r.type = "ATOMIC" THEN {a \in {r.alphabet} : a >= g.alphabet_size}
     ELSE UNION {DependentBeforeBrackets(g, rs[i]) : i \in outside}

\* lExtractDependentNonTerminals: the non-terminals of r, without the children
\* of a CONCAT that are brackets or between brackets of the same CONCAT.
RECURSIVE DependentNonTerminals(_, _)
DependentNonTerminals(g, r) ==
  LET rs == r.children
      isBracket(i) == IsOpening(g, rs[i]) \/ IsClosing(g, rs[i])
      opened(i) == Cardinality({j \in 1..i : IsOpening(g, rs[j])})
      closed(i) == Cardinality({j \in 1..i : ~IsOpening(g, rs[j]) /\ IsClosing(g, rs[j])})
      outside == {i \in DOMAIN rs :
                    r.type = "CONCAT" => ~isBracket(i) /\ opened(i) = closed(i)}
  IN IF r.type = "ATOMIC" THEN {a \in {r.alphabet} : a >= g.alphabet_size}
     ELSE UNION {DependentNonTerminals(g, rs[i]) : i \in outside}

\* dependency_graph, of a grammar whose rules have passed.
DependencyGraph(g) ==
  [nt \in NonTerminals(g) |->
     DependentNonTerminals(g, (CHOOSE rule \in ToSet(g.rules) : rule[1] = nt)[2])]

\* A rule is looked at for a direct copy, A ::= B, before its regex is.
RuleErrors(g, regex) ==
  (IF regex.type = "ATOMIC" /\ regex.alphabet \in NonTerminals(g)
   THEN <<"DIRECT_COPY_RULES_ARE_NOT_SUPPORTED_YET">> ELSE << >>)
    \o RegexErrors(g, regex)

AllAtoms(g) == UNION {Atoms(rule[2]) : rule \in ToSet(g.rules)}

\* The checks on the non-terminals and alphabets of g, before its rules are read.
SymbolErrors(g) ==
  LET terminals == {a \in AllAtoms(g) : 0 <= a /\ a < g.alphabet_size}
      pairs == DOMAIN g.branching_alphabets
      branching == pairs \cup ClosingAlphabets(g)
  IN (IF \E nt \in NonTerminals(g) : nt < g.alphabet_size
      THEN <<"INVALID_NON_TERMINAL">> ELSE << >>)
     \o (IF g.main_non_terminal \notin NonTerminals(g)
         THEN <<"INVALID_MAIN_NON_TERMINAL">> ELSE << >>)
     \o (IF Cardinality(NonTerminals(g)) # Len(g.rules)
         THEN <<"REPEATED_NON_TERMINALS_ARE_NOT_SUPPORTED_YET">> ELSE << >>)
     \o (IF ~(AllAtoms(g) \subseteq terminals \cup NonTerminals(g))
         THEN <<"UNDEFINED_NON_TERMINAL">> ELSE << >>)
     \o (IF ~(branching \subseteq terminals) THEN <<"INVALID_BRANCHING_ALPHABETS">> ELSE << >>)
     \o (IF Cardinality(branching) < 2 * Cardinality(pairs)
         THEN <<"REPEATED_BRANCHING_ALPHABETS">> ELSE << >>)

Validate(g, low) ==
  IF g.alphabet_size <= 0 THEN "MUST_HAVE_POSITIVE_ALPHABET_SIZE"
  ELSE IF g.rules = << >> THEN "MUST_HAVE_NON_ZERO_RULES"
  ELSE LET symbols == SymbolErrors(g)
           rules == FlattenSeq([i \in DOMAIN g.rules |-> RuleErrors(g, g.rules[i][2])])
       IN IF symbols # << >> THEN Head(symbols)
          ELSE IF rules # << >> THEN Head(rules)
          ELSE IF ~CycleDetectionInGraph(DependencyGraph(g), low)
          THEN "NON_ENCLOSED_CYCLIC_DEPENDENCY"
          ELSE "OK"
================================================================================
