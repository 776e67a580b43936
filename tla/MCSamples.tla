------------------------------- MODULE MCSamples -------------------------------
(***************************************************************************)
(* Parsers of the sample grammars and their clients: one that asks whether  *)
(* strings are acceptable, and uses its instance for one parser after the   *)
(* other; and one that wants to know where a string goes wrong.  The        *)
(* invariants of CoreParser are checked on the machines that the builder    *)
(* makes for these grammars.                                                *)
(***************************************************************************)
EXTENDS ParserErrors, ParserSystem, MachineRuns, SampleGrammars

VARIABLE asks_errors   \* the client is the second one

samples_vars == <<errors_vars, asks_errors>>

Samples ==
  {SampleGrammar1, SampleGrammar2, SampleGrammar4, CommentGrammar, CallGrammar,
   PairsGrammar, ChoiceGrammar, AmbiguousGrammar, InstancesGrammar, SampleGrammar3}

BuiltMachines == {p.machine : p \in BuiltParsers}
RegionOf == [m \in BuiltMachines |-> RegionsOf(m)]

\* The grammars whose clients may ask for errors.
Explained == {CallGrammar, PairsGrammar, ChoiceGrammar, CommentGrammar, SampleGrammar2}

SamplesInit ==
  ErrorsInit /\ asks_errors \in (IF grammar \in Explained THEN BOOLEAN ELSE {FALSE})

\* Bound: a client that asks for errors feeds shorter strings.
OffersAreSmall == Len(stream) <= 4

AskErrors == ErrorsNext /\ OffersAreSmall'

AskQuestions ==
  /\ RecognizerNext \/ \E p \in Parsers : ClientInitWith(p)
  /\ UNCHANGED <<error, offered>>

SamplesSpec ==
  SamplesInit /\ [][/\ IF asks_errors THEN AskErrors ELSE AskQuestions
                   /\ UNCHANGED asks_errors]_samples_vars
================================================================================
