-------------------------------- MODULE Tokenizer --------------------------------
(***************************************************************************)
(* What a lexer promises, with no automaton: the text is cut into tokens,   *)
(* each as long as a rule of its section allows the next alphabet to be     *)
(* part of it, and for each the first rule that matches runs its action,    *)
(* once, with the token's range; an action may choose the section the next  *)
(* tokens are of.                                                           *)
(***************************************************************************)
EXTENDS Integers, Sequences

CONSTANTS
  Characters,
  Viable(_, _, _),   \* Viable(g, s, w): w begins a string of a rule of section s
  Matching(_, _, _), \* Matching(g, s, w): the rules of section s that match w
  Jumps(_)           \* Jumps(g): rule -> the section its action jumps to

VARIABLES
  language,
  text,       \* the alphabets taken since the last reset
  first,      \* where the current token starts in text
  section,    \* the section of the current token
  chosen,     \* the section of the next one, unless an action chooses another
  seen        \* the <<rule, range>> pairs the actions saw

tokenizer_vars == <<language, text, first, section, chosen, seen>>

Token == SubSeq(text, first + 1, Len(text))

\* The first rule that matches the token runs its action.
Emit ==
  LET rules == Matching(language, section, Token)
      rule == CHOOSE r \in rules : \A q \in rules : r[2] <= q[2]
  IN /\ rules # {}
     /\ seen' = Append(seen, <<rule, <<first, Len(text)>> >>)
     /\ chosen' = IF rule \in DOMAIN Jumps(language) THEN Jumps(language)[rule] ELSE chosen

Continue(a) ==
  /\ Viable(language, section, Append(Token, a))
  /\ text' = Append(text, a)
  /\ UNCHANGED <<language, first, section, chosen, seen>>

Cut(a) ==
  /\ ~Viable(language, section, Append(Token, a))
  /\ Emit
  /\ section' = chosen'
  /\ first' = Len(text)
  /\ text' = IF Viable(language, section', <<a>>) THEN Append(text, a) ELSE text
  /\ UNCHANGED language

Finish == Emit /\ UNCHANGED <<language, text, first, section>>

Restart(main) ==
  /\ text' = << >> /\ first' = 0 /\ seen' = << >>
  /\ section' = main /\ chosen' = main
  /\ UNCHANGED language

Next ==
  \/ \E a \in Characters : Continue(a) \/ Cut(a)
  \/ Finish
  \/ Restart(language.main_section)

Init == text = << >> /\ first = 0 /\ seen = << >> /\ section = chosen

Spec == Init /\ [][Next]_tokenizer_vars
==================================================================================
