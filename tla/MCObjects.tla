-------------------------------- MODULE MCObjects --------------------------------
(***************************************************************************)
(* The objects of a client beside the parser, each part in behaviours of    *)
(* its own while the others rest: lexers and builders of lexers             *)
(* (MCLexerSystem), releases of a program and the anys that hold its        *)
(* actions (MCParserBuilder), and regexes written with operators.           *)
(***************************************************************************)
EXTENDS MCLexerSystem, MCParserBuilder, RegexBuilder

\* The names that the regexes are made of.
TwoNames == <<"a", "b">>

LexersRest ==
  /\ client = "nobody" /\ LexerBuilderInit
  /\ TextInit /\ lexer_grammar = SingleAlphabets /\ lexer = CHOOSE l \in LexersOf(SingleAlphabets) : TRUE

ReleasesRest == StoreInit /\ program = First /\ file = << >>

ObjectsInit ==
  /\ AnyInit /\ BuilderInit
  /\ \/ part = "lexers" /\ ClientsInit /\ ReleasesRest
     \/ part = "releases" /\ StoreInit /\ LexersRest
     \/ part \in {"values", "regexes"} /\ ReleasesRest /\ LexersRest

lexers_vars == <<client, text_vars, builder_vars>>

ObjectsNext ==
  /\ \/ part = "lexers" /\ ClientsNext /\ UNCHANGED <<store_vars, any_vars, regex_vars>>
     \/ part = "releases" /\ StoreNext /\ UNCHANGED <<lexers_vars, any_vars, regex_vars>>
     \/ part = "values" /\ AnyNext /\ UNCHANGED <<lexers_vars, store_vars, regex_vars>>
     \/ part = "regexes" /\ BuilderNext /\ UNCHANGED <<lexers_vars, store_vars, any_vars>>
  /\ UNCHANGED part

ObjectsSpec == ObjectsInit /\ [][ObjectsNext]_<<part, lexers_vars, store_vars, any_vars, regex_vars>>
================================================================================
