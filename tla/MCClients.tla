------------------------------- MODULE MCClients -------------------------------
(***************************************************************************)
(* A client of a ParserInstance, which calls its operations in any order    *)
(* and walks the trees.                                                     *)
(***************************************************************************)
EXTENDS SyntaxTreeMaker, SampleGrammars

\* The machines come from the builder: CoreParser's own set is not used.
NoMachines == {}

Client == {SampleGrammar1, SampleGrammar2, PairsGrammar, AmbiguousGrammar, TermsGrammar}
ClientAlphabets == 0..3

\* The last instances of its main rule may be empty.
EndsEmpty == {TermsGrammar}

\* The streams of these machines nest, as the theorem on EndsComplete requires.
ASSUME StreamsOfClientsNest ==
  \A g \in Client, low \in BOOLEAN :
    LET m == MachineOf(g, low)
    IN StreamsNest(m, RegionsOf(m), DepthsOf(m), ClientAlphabets)
================================================================================
