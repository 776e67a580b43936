------------------------------- MODULE Recognizer -------------------------------
(***************************************************************************)
(* What include/aparse/parser.hpp promises of a ParserInstance, with no     *)
(* automaton, stack or back-tracker: it remembers the string fed since the  *)
(* last reset, takes an alphabet exactly when the longer string is still a  *)
(* prefix of a string of the language, and after one refusal refuses all.   *)
(***************************************************************************)
EXTENDS Sequences

CONSTANTS
  Alphabets,
  Languages,
  Acceptable(_, _)   \* Acceptable(language, string): an acceptable prefix

VARIABLES
  language,
  fed,               \* the alphabets taken
  valid              \* none was refused

recognizer_vars == <<language, fed, valid>>

Init == fed = << >> /\ valid = TRUE

Accept(a) ==
  /\ valid
  /\ Acceptable(language, Append(fed, a))
  /\ fed' = Append(fed, a)
  /\ UNCHANGED <<language, valid>>

Refuse(a) ==
  /\ ~Acceptable(language, Append(fed, a))
  /\ valid' = FALSE
  /\ UNCHANGED <<language, fed>>

Reset == fed' = << >> /\ valid' = TRUE /\ UNCHANGED language

\* Init: from now on for the language of another parser.
Begin == fed' = << >> /\ valid' = TRUE /\ language' \in Languages

Next == Reset \/ Begin \/ \E a \in Alphabets : Accept(a) \/ Refuse(a)

Spec == Init /\ [][Next]_recognizer_vars
=================================================================================
