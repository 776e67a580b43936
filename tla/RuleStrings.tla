------------------------------ MODULE RuleStrings ------------------------------
(***************************************************************************)
(* The front end: rules and lexer regexes are written as text, which this   *)
(* library parses itself, with a grammar and rule actions made by hand.     *)
(* ParseRegexRule (src/parse_regex_rule.cpp) reads the tokens of a rule of  *)
(* a grammar, ParseCharRegex (src/parse_char_regex_rules.cpp) the           *)
(* characters of a lexer rule.  Both grammars are modelled as they are      *)
(* built, and their actions as what they make of the scope and the values   *)
(* of the children, on the tree End leaves in parse_tree.                   *)
(*                                                                          *)
(* A value, ParsedGrammarRule or Regex, is a record of type, value and      *)
(* children.  The name in a rule is the position of its token.  Of the 256  *)
(* characters 15 are left: one with the code 0, which a Regex that is not   *)
(* ATOMIC has as its alphabet, two others that need no quoting, and the 12  *)
(* that do.                                                                 *)
(***************************************************************************)
EXTENDS ParserScope

CONSTANTS
  EpsilonAt,    \* the positions where a literal reads "EPSILON"
  Typed,        \* bound: per grammar, the tokens that texts have
  MaxText       \* bound: per grammar, the length of a text

G(size, main, ba, rules) ==
  [alphabet_size |-> size, main_non_terminal |-> main,
   branching_alphabets |-> ba, rules |-> rules]

A(a) == Atom(a)
Suffix(plus, star, option) == Alt(<<Eps, A(plus), A(star), A(option)>>)

-------------------------------------------------------------------------------
(* BuildGrammarRegexParser.  Terminals are TokenTypes: NON_TERMINAL 0,       *)
(* LITERAL 1, PLUS_SYMBOL 2, STAR_SYMBOL 3, OPEN_B1 5, STRING 6,             *)
(* QUESTION_MARK_SYMBOL 7, CLOSE_B1 8, OPEN_B3 9, CLOSE_B3 10,               *)
(* GROUP_NEGATION_SYMBOL 11, ASSIGNMENT_OP 12, OR_SYMBOL 13.                 *)
(* Non-terminals: <main> 50, <main_expression> 51, <atoms> 52,               *)
(* <atomic_expression> 53, <concat_expression> 54, <unary_op_expression> 55, *)
(* <alphabet_union> 56.                                                      *)

RuleGrammar ==
  G(50, 50, 5 :> 8, <<
    <<50, Cat(<<Alt(<<A(0), A(1)>>), A(12), A(51)>>)>>,
    <<52, Alt(<<A(1), A(0), A(6)>>)>>,
    <<53, Alt(<<A(52), Cat(<<A(5), A(51), A(8)>>)>>)>>,
    <<51, Cat(<<Star(Cat(<<A(54), A(13)>>)), A(54)>>)>>,
    <<55, Cat(<<A(53), Suffix(2, 3, 7)>>)>>,
    <<54, Star(A(55))>>,
    <<56, Cat(<<A(9), Alt(<<Eps, A(11)>>), Star(A(52)), A(10)>>)>> >>)

\* CharRegexParserRules.  Characters 0 to 2 stand for themselves; then \ 3, ( 4,
\* ) 5, + 6, * 7, ? 8, | 9, ^ 10, - 11, [ 12, ] 13, . 14.
\* Non-terminals: <simple_char_set> 20, <quoted_char_set> 21, <atomic_char> 22,
\* <in_union_range_element> 23, <in_union_element> 24, <char_union> 25,
\* <atomic_expression> 26, <main> 27, <unary_op_expression> 28,
\* <concat_expression> 29.
CharGrammar ==
  G(15, 27, 4 :> 5, <<
    <<20, Alt(<<A(0), A(1), A(2)>>)>>,
    <<21, Cat(<<A(3), Alt([i \in 1..12 |-> A(i + 2)])>>)>>,
    <<22, Alt(<<A(20), A(21)>>)>>,
    <<23, Cat(<<A(20), A(11), A(20)>>)>>,
    <<24, Alt(<<A(23), A(22)>>)>>,
    <<25, Cat(<<A(12), Alt(<<Eps, A(10)>>), Star(A(24)), A(13)>>)>>,
    <<26, Alt(<<Cat(<<A(4), A(27), A(5)>>), A(22), A(25)>>)>>,
    <<27, Cat(<<Star(Cat(<<A(29), A(9)>>)), A(29)>>)>>,
    <<28, Cat(<<A(26), Suffix(6, 7, 8)>>)>>,
    <<29, Star(A(28))>> >>)

-------------------------------------------------------------------------------
(* The rule actions                                                          *)

Value(type, v, children) == [type |-> type, value |-> v, children |-> children]

\* A value no action has set, the first value of an empty list, and none because
\* an assertion failed.
DefaultValue == Value("EPSILON", 0, << >>)
Undefined == Value("UNDEFINED", 0, << >>)
Aborted == Value("ABORTED", 0, << >>)

FirstValue(scope) ==
  IF scope.child_st_list_2 = << >> THEN Undefined ELSE Head(scope.child_st_list_2)

\* A list of one is that one.
OneOr(type, values) == IF Len(values) = 1 THEN Head(values) ELSE Value(type, 0, values)

Concatenated(scope) ==
  IF Len(scope.child_st_list_2) > 1 THEN Value("CONCAT", 0, scope.child_st_list_2)
  ELSE FirstValue(scope)

\* Mutant: the suffixes are counted from the first one.
RepeatedBySuffix(scope) ==
  LET v == FirstValue(scope)
  IN IF Exists(scope, 1) THEN Value("KPLUS", 0, <<v>>)
     ELSE IF Exists(scope, 2) THEN Value("KSTAR", 0, <<v>>)
     ELSE IF Exists(scope, 3) THEN Value("UNION", 0, <<DefaultValue, v>>)
     ELSE v

\* <unary_op_expression>, whose atoms 2 to 4 are the suffixes.
Repeated(scope) ==
  LET v == FirstValue(scope)
  IN IF Exists(scope, 2) THEN Value("KPLUS", 0, <<v>>)
     ELSE IF Exists(scope, 3) THEN Value("KSTAR", 0, <<v>>)
     ELSE IF Exists(scope, 4) THEN Value("UNION", 0, <<DefaultValue, v>>)
     ELSE v

\* <atoms>: the position of its one token, from 1.
AtomOf(scope) ==
  LET position(i) == Head(AlphabetIndexList(scope, i)) + 1
  IN IF Exists(scope, 1)
     THEN IF position(1) \in EpsilonAt THEN DefaultValue
          ELSE Value("LITERAL", position(1), << >>)
     ELSE IF Exists(scope, 2) THEN Value("NON_TERMINAL", position(2), << >>)
     ELSE Value("STRING", position(3), << >>)

\* The actions of RuleGrammar.  No rule uses <alphabet_union>, and <main> is only
\* at the root.
RuleAction(label, n, scope) ==
  CASE label = 0 -> Value("RULE", Head(Met(n, "token")) + 1, <<FirstValue(scope)>>)
    [] label = 1 -> AtomOf(scope)
    [] label = 2 -> FirstValue(scope)
    [] label = 3 -> OneOr("UNION", scope.child_st_list_2)
    [] label = 4 -> Repeated(scope)
    [] label = 5 -> Concatenated(scope)

Letter(a) == Value("ATOMIC", a, << >>)
Letters(as) == Value("UNION", 0, [k \in DOMAIN as |-> Letter(as[k])])
Between(a, b) == [k \in 1..b - a + 1 |-> a + k - 1]
AllBut(S) == SelectSeq(Between(0, grammar.alphabet_size - 1), LAMBDA a : a \notin S)

\* The actions of CharGrammar.
CharAction(label, n, scope) ==
  LET values == scope.child_st_list_2
      negated == {values[k].value : k \in DOMAIN values}
  IN CASE label = 0 -> Letter(Head(scope.token_list_2))
       [] label = 1 -> Letter(stream[Head(Met(n, "token")) + 2])
       [] label \in {2, 4, 6} -> FirstValue(scope)
       [] label = 3 -> IF values[1].value > values[2].value THEN Aborted
                       ELSE Letters(Between(values[1].value, values[2].value))
       [] label = 5 -> IF Exists(scope, 2)
                       THEN Letters(AllBut(negated))
                       ELSE OneOr("UNION", values)
       [] label = 7 -> OneOr("UNION", values)
       [] label = 8 -> Repeated(scope)
       [] label = 9 -> Concatenated(scope)

\* The value CreateSyntaxTree leaves for node n: the walk meets the first
\* children, and those it does not meet keep the default value.
RECURSIVE ValueOf(_)
ValueOf(n) ==
  LET met == Len(Met(n, "child"))
      values == [c \in DOMAIN Children(n) |->
                   IF c <= met THEN ValueOf(Children(n)[c]) ELSE DefaultValue]
      scope == ScopeFor(n, values)
  IN IF grammar = RuleGrammar THEN RuleAction(parse_tree[n].label, n, scope)
     ELSE CharAction(parse_tree[n].label, n, scope)

FrontEnd == {RuleGrammar, CharGrammar}

\* ParseRegexRule::Parse and ParseCharRegex::Parse: a new instance, a Feed for
\* each token until one is refused, and one End, which leaves no trace when it
\* is refused.  CreateSyntaxTree comes last.
TextFeed ==
  /\ Len(parse_tree) = 1 /\ is_valid_path_so_far
  /\ Len(stream) < MaxText[grammar]
  /\ \E a \in Typed[grammar] : ClientFeed(a)

TextEnd ==
  /\ Len(parse_tree) = 1 /\ is_valid_path_so_far
  /\ End /\ UNCHANGED parser

HasParsed == Len(parse_tree) > 1
Output == ValueOf(Children(1)[1])

-------------------------------------------------------------------------------
(* What a text says, read off the text and not off a parse tree: by cutting  *)
(* it at the bars, then before every item, outside all brackets.             *)

Signs ==
  IF grammar = RuleGrammar
  THEN [quote |-> -1, open |-> {5}, close |-> {8}, bar |-> 13,
        plus |-> 2, star |-> 3, option |-> 7]
  ELSE [quote |-> 3, open |-> {4, 12}, close |-> {5, 13}, bar |-> 9,
        plus |-> 6, star |-> 7, option |-> 8]

SuffixSigns == {Signs.plus, Signs.star, Signs.option}

\* A character after the quote stands for itself.
RECURSIVE IsQuoted(_)
IsQuoted(i) == i > 1 /\ stream[i - 1] = Signs.quote /\ ~IsQuoted(i - 1)

Bare(i, j, S) == {k \in i..j : stream[k] \in S /\ ~IsQuoted(k)}

\* Outside the brackets of i..j: before position k as many close as open.
IsOuter(i, k) ==
  Cardinality(Bare(i, k - 1, Signs.open)) = Cardinality(Bare(i, k - 1, Signs.close))

Bars(i, j) == {k \in Bare(i, j, {Signs.bar}) : IsOuter(i, k)}

\* Where the items of a part without outer bars begin.
Items(i, j) ==
  {k \in i..j : /\ IsOuter(i, k) /\ ~IsQuoted(k)
                /\ stream[k] \notin SuffixSigns}

\* The parts of first..j between the cuts: from a cut on, with it or without.
PartsAt(first, j, at, skip) ==
  [k \in 1..Len(at) + 1 |-> <<IF k = 1 THEN first ELSE at[k - 1] + skip,
                              IF k > Len(at) THEN j ELSE at[k] - 1>>]
Parts(first, j, cuts, skip) == PartsAt(first, j, SetToSortSeq(cuts, <), skip)

\* An element of [...]: a character, a quoted one, or a range.
Element(i, j) ==
  IF i = j THEN Letter(stream[i])
  ELSE IF IsQuoted(j) THEN Letter(stream[j])
  ELSE Letters(Between(stream[i], stream[j]))

\* Where the elements after the first begin: not at a dash, nor after one.
ElementStarts(i, j) ==
  {k \in i + 1..j : ~IsQuoted(k) /\ Bare(i, j, {11}) \cap {k - 1, k} = {}}

Elements(parts) == [k \in DOMAIN parts |-> Element(parts[k][1], parts[k][2])]

CharactersOf(elements) ==
  UNION {IF e.type = "ATOMIC" THEN {e.value} ELSE {v.value : v \in ToSet(e.children)} :
           e \in ToSet(elements)}

UnionOf(negates, elements) ==
  IF negates THEN Letters(AllBut(CharactersOf(elements))) ELSE OneOr("UNION", elements)

\* A [...] between i and j.
CharUnion(i, j) ==
  LET negates == i <= j /\ stream[i] = 10
      first == IF negates THEN i + 1 ELSE i
  IN UnionOf(negates,
       IF first > j THEN << >> ELSE Elements(Parts(first, j, ElementStarts(first, j), 0)))

Named(i) ==
  IF i \in EpsilonAt /\ stream[i] = 1 THEN DefaultValue
  ELSE Value(CASE stream[i] = 0 -> "NON_TERMINAL" [] stream[i] = 1 -> "LITERAL"
               [] stream[i] = 6 -> "STRING", i, << >>)

Suffixed(sign, v) ==
  CASE sign = Signs.plus -> Value("KPLUS", 0, <<v>>)
    [] sign = Signs.star -> Value("KSTAR", 0, <<v>>)
    [] sign = Signs.option -> Value("UNION", 0, <<DefaultValue, v>>)

\* The text from i to j as alternatives, as a concatenation, as one item with a
\* suffix or without.
RECURSIVE Read(_, _), ReadConcat(_, _), ReadItem(_, _)
Alternatives(parts) ==
  OneOr("UNION", [k \in DOMAIN parts |-> ReadConcat(parts[k][1], parts[k][2])])
Read(i, j) == Alternatives(Parts(i, j, Bars(i, j), 1))

ItemsOf(parts) ==
  OneOr("CONCAT", [k \in DOMAIN parts |-> ReadItem(parts[k][1], parts[k][2])])
ReadConcat(i, j) ==
  IF i > j THEN DefaultValue ELSE ItemsOf(Parts(i, j, Items(i, j) \ {i}, 0))

ReadItem(i, j) ==
  IF j \in Bare(i + 1, j, SuffixSigns) THEN Suffixed(stream[j], ReadItem(i, j - 1))
  ELSE IF stream[i] \in Signs.open \ {12} THEN Read(i + 1, j - 1)
  ELSE IF grammar = RuleGrammar THEN Named(i)
  ELSE IF stream[i] = 12 THEN CharUnion(i + 1, j - 1)
  ELSE Letter(stream[j])

Meaning ==
  IF grammar = RuleGrammar THEN Value("RULE", 1, <<Read(3, Len(stream))>>)
  ELSE Read(1, Len(stream))

-------------------------------------------------------------------------------

BareOf(S) == Bare(1, Len(stream), S)

\* A bar with nothing before it, as in A ::= x | | y.
BlankBeforeBar ==
  \E k \in BareOf({Signs.bar}) :
    k = 1 \/ k - 1 \in BareOf({Signs.bar, 12} \cup Signs.open)

\* In characters, [^...] with a range, and a range that runs backwards.
ExcludesRange ==
  \E i \in BareOf({10}), k \in BareOf({11}) : i < k /\ Bare(i, k, {13}) = {}

RunsBackwards == \E k \in BareOf({11}) : stream[k - 1] > stream[k + 1]

IsPlain ==
  /\ ~BlankBeforeBar
  /\ grammar = CharGrammar => ~ExcludesRange /\ ~RunsBackwards

\* The value ParseRegexRule::Parse or ParseCharRegex::Parse hands out is what the
\* text says, with * + ? taken before concatenation and that before |, whatever
\* brackets are nested and characters quoted.  Left out are the three shapes of
\* text of the README's finding 5 and its observations.
PlainTextsAreRead ==
  grammar \in FrontEnd /\ HasParsed /\ IsPlain => Output = Meaning

RECURSIVE MentionsType(_, _)
MentionsType(v, type) ==
  v.type = type \/ \E k \in DOMAIN v.children : MentionsType(v.children[k], type)

\* <concat_expression> ::= <unary_op_expression>+, say the rules above the code:
\* so an action that takes the first value of its children finds one.
FirstValuesExist ==
  grammar \in FrontEnd /\ HasParsed => ~MentionsType(Output, "UNDEFINED")
================================================================================
