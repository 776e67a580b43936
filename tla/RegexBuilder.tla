----------------------------- MODULE RegexBuilder ------------------------------
(***************************************************************************)
(* RegexBuilderObject (src/regex_builder.hpp), the regexes of names that    *)
(* tests and SimpleAParseGrammarBuilder write with operators.  Every        *)
(* operator changes its left operand, moves it into a child and returns it: *)
(* a client that keeps its objects sees them grow.                          *)
(***************************************************************************)
EXTENDS GrammarLanguage, SequencesExt

CONSTANTS
  Regexes,       \* the variables of the client
  SymbolOrder,   \* the names it uses, in the order of std::set<string>
  MaxNodes,      \* bound: nodes in all objects together
  MaxLabels,     \* bound: nodes with a label, of all objects together
  MaxWord        \* bound: length of the strings of names compared

VARIABLES
  object,   \* variable -> RegexBuilderObject
  meant,    \* history: variable -> the strings the client's operators denote
  aliased   \* history: variables that read an object after it was moved

regex_vars == <<object, meant, aliased>>

NoName == ""
Symbols == ToSet(SymbolOrder)
NameStrings == SeqOf(Symbols, MaxWord)

-------------------------------------------------------------------------------

NewObject(type, children) ==
  [type |-> type, alphabet |-> 0, alphabet_string |-> NoName, children |-> children,
   label |-> 0]

EpsilonObject == NewObject("EPSILON", << >>)
SymbolObject(name) == [NewObject("ATOMIC", << >>) EXCEPT !.alphabet_string = name]

RECURSIVE Nodes(_), Labels(_)
Nodes(o) == 1 + FoldSeq(LAMBDA c, n : n + Nodes(c), 0, o.children)
Labels(o) == o.label + FoldSeq(LAMBDA c, n : n + Labels(c), 0, o.children)

\* What a move leaves behind: the string and the vector are empty.
Moved(o) == [o EXCEPT !.alphabet_string = NoName, !.children = << >>]

\* Mutant: an operand of the other type is joined as well.
JoinedFlat(type, o, other, same) ==
  IF o.type \in {"CONCAT", "UNION"} THEN [o EXCEPT !.children = Append(@, other)]
  ELSE NewObject(type, <<o, IF same THEN Moved(o) ELSE other>>)

\* operator+ and operator|.  When both operands are the same object, the right
\* one is read after the left one was moved.
Joined(type, o, other, same) ==
  IF o.type = type THEN [o EXCEPT !.children = Append(@, other)]
  ELSE NewObject(type, <<o, IF same THEN Moved(o) ELSE other>>)

\* Kplus, Kstar and Optional: the label stays on both nodes.
Wrapped(type, o, children) == [Moved(o) EXCEPT !.type = type, !.children = children]

-------------------------------------------------------------------------------
(* BuildRegex, which numbers the names in their order *)

RECURSIVE GetSymbols(_)
GetSymbols(o) ==
  IF o.type = "ATOMIC" THEN {o.alphabet_string} \ {NoName}
  ELSE UNION {GetSymbols(o.children[i]) : i \in DOMAIN o.children}

\* A name's position among those of the object.
SymbolsMap(o) ==
  LET sorted == SelectSeq(SymbolOrder, LAMBDA s : s \in GetSymbols(o))
  IN [s \in GetSymbols(o) |-> (CHOOSE i \in DOMAIN sorted : sorted[i] = s) - 1]

RECURSIVE BuildWith(_, _)
BuildWith(o, symbols) ==
  [type |-> o.type, label |-> o.label,
   alphabet |-> IF o.type # "ATOMIC" THEN 0
                ELSE IF o.alphabet_string = NoName THEN o.alphabet
                ELSE symbols[o.alphabet_string],
   children |-> [i \in DOMAIN o.children |-> BuildWith(o.children[i], symbols)]]

BuildRegex(o) == BuildWith(o, SymbolsMap(o))

-------------------------------------------------------------------------------
(* The client *)

Concatenations(L, M) == {u \o v : u \in L, v \in M} \cap NameStrings
Repetitions(L) ==
  LET upto[n \in 0..MaxWord] ==
        IF n = 0 THEN {<< >>} ELSE {<< >>} \cup Concatenations(L, upto[n - 1])
  IN upto[MaxWord]

Becomes(x, o, language, isAliased) ==
  /\ object' = [object EXCEPT ![x] = o]
  /\ meant' = [meant EXCEPT ![x] = language]
  /\ aliased' = IF isAliased THEN aliased \cup {x} ELSE aliased \ {x}

ConstructObject(x) ==
  \/ Becomes(x, EpsilonObject, {<< >>}, FALSE)
  \/ \E s \in Symbols : Becomes(x, SymbolObject(s), {<<s>>}, FALSE)

Copy(x, y) == x # y /\ Becomes(x, object[y], meant[y], y \in aliased)

\* x + y and x | y, where y may be x.
Combine(x, y) ==
  \E type \in {"CONCAT", "UNION"} :
    Becomes(x, Joined(type, object[x], object[y], x = y),
            IF type = "UNION" THEN meant[x] \cup meant[y]
            ELSE Concatenations(meant[x], meant[y]),
            \/ {x, y} \cap aliased # {}
            \/ x = y /\ object[x].type # type)

Kplus(x) ==
  Becomes(x, Wrapped("KPLUS", object[x], <<object[x]>>),
          Concatenations(meant[x], Repetitions(meant[x])), x \in aliased)

Kstar(x) ==
  Becomes(x, Wrapped("KSTAR", object[x], <<object[x]>>), Repetitions(meant[x]), x \in aliased)

Optional(x) ==
  Becomes(x, Wrapped("UNION", object[x], <<EpsilonObject, object[x]>>),
          meant[x] \cup {<< >>}, x \in aliased)

\* One label is as good as another.
SetLabel(x) ==
  /\ object' = [object EXCEPT ![x].label = 1]
  /\ UNCHANGED <<meant, aliased>>

BuilderInit ==
  /\ object = [x \in Regexes |-> EpsilonObject]
  /\ meant = [x \in Regexes |-> {<< >>}]
  /\ aliased = {}

BuilderNext ==
  /\ \E x \in Regexes :
       \/ ConstructObject(x) \/ Kplus(x) \/ Kstar(x) \/ Optional(x) \/ SetLabel(x)
       \/ \E y \in Regexes : Copy(x, y) \/ Combine(x, y)
  /\ MapThenSumSet(LAMBDA x : Nodes(object'[x]), Regexes) <= MaxNodes
  /\ MapThenSumSet(LAMBDA x : Labels(object'[x]), Regexes) <= MaxLabels

BuilderSpec == BuilderInit /\ [][BuilderNext]_regex_vars

-------------------------------------------------------------------------------

\* The strings of the regex built, in the names of the alphabet map built with it.
Language(regex, symbols) ==
  {w \in SeqOf(DOMAIN symbols, MaxWord) :
     Len(w) \in Ends(<< >>, regex, [i \in DOMAIN w |-> symbols[w[i]]], {0})}

\* Whatever an object went through, joined into lists that grow in place, wrapped,
\* copied before and after, the regex built from it has the strings its
\* operators denote (regex_builder.hpp).  Left out are objects joined to
\* themselves with an operator that moves them first.
BuildsWhatIsMeant ==
  \A x \in Regexes \ aliased : Language(BuildRegex(object[x]), SymbolsMap(object[x])) = meant[x]
================================================================================
