----------------------------- MODULE ParserClient ------------------------------
(***************************************************************************)
(* A ParserInstance in a client's hands, for parsers however built: each of *)
(* Parsers is a grammar with the machine that was made for it.  What the    *)
(* properties say of strings is what include/aparse/parser.hpp documents.   *)
(***************************************************************************)
EXTENDS ParserInstance

CONSTANTS
  Grammars,
  Parsers,             \* the Parser objects, of some of Grammars: [grammar, machine]
  Acceptable(_, _),    \* Acceptable(grammar, string): a prefix of one that is in
  InLanguage(_, _),    \* the grammar's language, InLanguage(grammar, string)
  IsTreeOf(_, _, _),   \* IsTreeOf(grammar, string, nodes): one of its parse trees
  MaxTree              \* bound: no End on a parse tree with more nodes than this

ASSUME ParsersOfGrammars == {p.grammar : p \in Parsers} \subseteq Grammars

VARIABLES grammar,  \* the grammar the parser was built for
          built     \* the AParseMachine the Parser object owns

parser == <<grammar, built>>
system_vars == <<instance_vars, parser>>

\* CreateInstance of one of the parsers.
ClientStart ==
  \E p \in Parsers : grammar = p.grammar /\ built = p.machine /\ InstanceStart(built)

ClientFeed(a) == InstanceFeed(a) /\ UNCHANGED parser
ClientReset == InstanceReset /\ UNCHANGED parser
ClientEnd == Len(parse_tree) <= MaxTree /\ End /\ UNCHANGED parser
ClientInit == InstanceInit(built) /\ UNCHANGED parser

\* Init with another Parser object.
ClientInitWith(p) == InstanceInit(p.machine) /\ grammar' = p.grammar /\ built' = p.machine

\* A client that asks questions only; parse trees are then a query too.
RecognizerNext == (\E a \in Alphabets : ClientFeed(a)) \/ ClientReset

\* A client that uses every operation, in any order.
ClientNext == RecognizerNext \/ ClientEnd \/ ClientInit

\* It may also use its instance for one parser after the other.
ClientSpec ==
  ClientStart /\ [][ClientNext \/ \E p \in Parsers : ClientInitWith(p)]_system_vars

-------------------------------------------------------------------------------

\* IsFinal holds exactly for the strings of the grammar's language, whatever
\* feeds and resets came before (parser.hpp, IsFinal).
AcceptsLanguage == is_valid_path_so_far => (IsFinal <=> InLanguage(grammar, stream))

\* Feed returns true iff the string fed is an acceptable prefix (parser.hpp, Feed).
FeedIffAcceptable ==
  is_valid_path_so_far =>
    \A a \in Alphabets : FeedSucceeds(a) <=> Acceptable(grammar, Append(stream, a))

\* The alphabets that could follow w.
CouldFollow(w) == {a \in Alphabets : Acceptable(grammar, Append(w, a))}

\* PossibleAlphabets lists the alphabets that keep the string an acceptable
\* prefix: none that does not (parser.hpp, PossibleAlphabets), and all that do.
PossibleAlphabetsExact == is_valid_path_so_far => PossibleAlphabets = CouldFollow(stream)

\* Hence a ParserInstance, whatever is inside, behaves as a recogniser of its
\* grammar: each feed takes or refuses the alphabet as the abstract one would.
Abstract == INSTANCE Recognizer WITH Languages <- Grammars,
  language <- grammar, fed <- stream, valid <- is_valid_path_so_far
ImplementsRecognizer == Abstract!Spec

\* Whichever recorded path the back-tracker follows, Parse neither throws nor
\* aborts, and its tree is a parse tree of the stream (docs/aparse_cpp.md).
ParseTreesAreValid ==
  is_valid_path_so_far =>
    \A result \in Parse(FreshTree) :
      result.status = "done" /\ IsTreeOf(grammar, stream, result.nodes)

\* Every End, after refused feeds too, adds to the children that earlier ones left in
\* parse_tree one complete parse tree of the stream fed by then (ParserInstance::End
\* never clears parse_tree; only Reset does).
EndAddsParseTree ==
  \A result \in Parse(parse_tree) :
    IsTreeOf(grammar, stream, AddedNodes(result.nodes, Len(parse_tree)))
===============================================================================
