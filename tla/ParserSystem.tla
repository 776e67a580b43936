----------------------------- MODULE ParserSystem ------------------------------
(***************************************************************************)
(* The whole path of a parse, grammar -> InternalAParseGrammar -> machine   *)
(* builder -> AParseMachine -> CoreParser -> parse tree, against what the   *)
(* grammar means (GrammarLanguage).                                         *)
(*                                                                          *)
(* A behaviour is the life of a client's instance (ParserClient) of a Parser*)
(* that was built for one of Grammars.  The builder's unordered containers  *)
(* are walked in either order.                                              *)
(***************************************************************************)
EXTENDS ParserClient, AParseMachineBuilder, AParseGrammar, GrammarLanguage

\* The documented properties speak of strings that can be completed.
ASSUME GrammarsAreProductive == \A g \in Grammars : IsProductive(g)

\* ParserBuilder::Build(grammar), which asserts that it is valid: the Parser objects
\* of Grammars, for either order of the builder's walks.
BuiltParsers ==
  {[grammar |-> b[1], machine |-> MachineOf(b[1], b[2])] :
     b \in {b \in Grammars \X BOOLEAN : Validate(b[1], b[2]) = "OK"}}

-------------------------------------------------------------------------------

\* Where the machine can go from a state, an opening alphabet and its closing one
\* taken together, and the parsing stream of that step.
StepsFrom(m, s) ==
  UNION {{<<t, GetParsingStream(m, s, a, t)>> : t \in GetNextStates(m, s, a)}
           \cup UNION {{<<t, GetSpecialParsingStream(m, s, a, e, t)>> :
                          t \in GetSpecialNextStates(m, s, a, e)} :
                        e \in DOMAIN m.enclosed_subnfa_map} :
         a \in StateAlphabets(m, s)}

\* The region of every state a parser can reach, by closure from the start
\* states of the main and of the enclosed NFAs.
RECURSIVE Regions(_, _)
Regions(m, R) ==
  LET reached == UNION {{<<step[1], R[s]>> : step \in StepsFrom(m, s)} : s \in DOMAIN R}
      new == {p[1] : p \in reached} \ DOMAIN R
  IN IF new = {} THEN R
     ELSE Regions(m, [t \in new |-> (CHOOSE p \in reached : p[1] = t)[2]] @@ R)

RegionsOf(m) ==
  LET ents == DOMAIN m.enclosed_subnfa_map
      start(e) == m.enclosed_subnfa_map[e].start_state
      inner == {start(e) : e \in ents}
  IN Regions(m, (m.start_state :> MainRegion) @@
                [s \in inner |-> CHOOSE e \in ents : s = start(e)])

\* How many nodes are open in each of them, by the same closure.
RECURSIVE DepthsFrom(_, _)
DepthsFrom(m, D) ==
  LET reached == UNION {{<<step[1], D[s] + Height(step[2], Len(step[2]))>> :
                           step \in StepsFrom(m, s)} : s \in DOMAIN D}
      new == {p[1] : p \in reached} \ DOMAIN D
  IN IF new = {} THEN D
     ELSE DepthsFrom(m, [t \in new |-> (CHOOSE p \in reached : p[1] = t)[2]] @@ D)

DepthsOf(m) ==
  LET ents == m.enclosed_subnfa_map
  IN DepthsFrom(m, [s \in {m.start_state} \cup {ents[e].start_state : e \in DOMAIN ents} |-> 0])

\* The builder keeps its promise to the parser (CoreParserProofs assumes it).
BuiltMachineIsWellFormed ==
  stream = << >> => WellFormed(built, RegionsOf(built), Alphabets)
===============================================================================
