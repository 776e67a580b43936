------------------------------ MODULE ClientProofs ------------------------------
(***************************************************************************)
(* That a client gets right answers about its grammar reduces to the        *)
(* builder: if the strings a machine has runs over are the acceptable ones  *)
(* of its grammar, and the streams of one run give a parse tree, then       *)
(* whatever is fed, refused, reset, ended or set to another parser before,  *)
(* each answer, each error and each tree is right.                          *)
(***************************************************************************)
EXTENDS RunProofs, ParseTreeProofs, ParserErrors

\* The machine of p was built right: what it has runs over, and recognises, is what its
\* grammar says.
KnowsLanguage(p) ==
  \A w \in Seq(Alphabets) :
    /\ Acceptable(p.grammar, w) <=> HasRun(p.machine, w)
    /\ InLanguage(p.grammar, w) <=> Recognises(p.machine, w)

\* p has a machine that keeps its streams so that any one run over a string of its grammar
\* gives a parse tree of it.
SpellsTrees(p) ==
  \A w \in Seq(Alphabets) : \A pss \in Streams(Len(w)) :
    Spells(p.machine, w, pss) =>
      LET made == ConstructTree(pss, FreshTree)
      IN made.status = "done" /\ IsTreeOf(p.grammar, w, made.nodes)

MachinesOfParsers == \A p \in Parsers : p.machine \in Machines
ParsersKnowLanguages == MachinesOfParsers /\ \A p \in Parsers : KnowsLanguage(p)
ParsersSpellTrees == MachinesOfParsers /\ \A p \in Parsers : SpellsTrees(p)

\* The CoreParser follows the machine of the Parser object that the client thinks of.
Serves == \E p \in Parsers : grammar = p.grammar /\ built = p.machine /\ machine = p.machine

-------------------------------------------------------------------------------
(* A client's instance is a CoreParser of one of the parsers. *)

\* What the actions of a client do to what they share.
LEMMA ClientSteps ==
  ASSUME Serves, [ClientNext \/ \E p \in Parsers : ClientInitWith(p)]_system_vars
  PROVE  /\ \/ \E a \in Alphabets : Feed(a) /\ UNCHANGED <<machine, parser>>
            \/ Reset /\ UNCHANGED <<machine, parser>>
            \/ \E p \in Parsers : /\ SetAParseMachine(p.machine) /\ machine' = p.machine
                                  /\ grammar' = p.grammar /\ built' = p.machine
            \/ UNCHANGED <<vars, parser>>
         /\ Serves'
<1>1. ASSUME NEW a \in Alphabets, ClientFeed(a)
      PROVE  Feed(a) /\ UNCHANGED <<machine, parser>>
  BY <1>1 DEF ClientFeed, InstanceFeed, Feed, FeedPush, FeedPop, FeedNop, FeedInvalid, Record, vars
<1>2. ASSUME NEW p \in Parsers, ClientInitWith(p)
      PROVE  /\ SetAParseMachine(p.machine) /\ machine' = p.machine
             /\ grammar' = p.grammar /\ built' = p.machine
  BY <1>2 DEF ClientInitWith, InstanceInit, SetAParseMachine
<1>3. \/ \E a \in Alphabets : Feed(a) /\ UNCHANGED <<machine, parser>>
      \/ Reset /\ UNCHANGED <<machine, parser>>
      \/ \E p \in Parsers : /\ SetAParseMachine(p.machine) /\ machine' = p.machine
                            /\ grammar' = p.grammar /\ built' = p.machine
      \/ UNCHANGED <<vars, parser>>
  <2>1. CASE ClientReset
    BY <2>1 DEF ClientReset, InstanceReset, Reset
  <2>2. CASE ClientInit
    <3>1. PICK p \in Parsers : grammar = p.grammar /\ built = p.machine
      BY DEF Serves
    <3>2. /\ SetAParseMachine(p.machine) /\ machine' = p.machine
          /\ grammar' = p.grammar /\ built' = p.machine
      BY <2>2, <3>1 DEF ClientInit, InstanceInit, SetAParseMachine, parser
    <3> QED
      BY <3>2
  <2>3. CASE ClientEnd
    BY <2>3 DEF ClientEnd, End
  <2> QED
    BY <1>1, <1>2, <2>1, <2>2, <2>3 DEF ClientNext, RecognizerNext, system_vars, instance_vars
<1> QED
  BY <1>3 DEF Serves, parser, vars

LEMMA ClientsParse ==
  ASSUME MachinesOfParsers
  PROVE  ClientSpec => Spec /\ []Serves
<1>1. ClientStart => Init /\ Serves
  BY DEF ClientStart, InstanceStart, InitWith, Init, Serves, MachinesOfParsers
<1>2. Serves /\ [ClientNext \/ \E p \in Parsers : ClientInitWith(p)]_system_vars
      => [Next]_vars /\ Serves'
  <2> SUFFICES ASSUME Serves, [ClientNext \/ \E p \in Parsers : ClientInitWith(p)]_system_vars
               PROVE  [Next]_vars /\ Serves'
    OBVIOUS
  <2>1. ASSUME NEW p \in Parsers, SetAParseMachine(p.machine)
        PROVE  \E m \in Machines : SetAParseMachine(m)
    BY <2>1 DEF MachinesOfParsers
  <2> QED
    BY <2>1, ClientSteps DEF Next
<1> QED
  BY <1>1, <1>2, PTL DEF ClientSpec, Spec

LEMMA ClientInvariant ==
  ASSUME MachinesOfParsers
  PROVE  ClientSpec => [](IInv /\ RunsFit /\ Serves)
BY ClientsParse, Invariant, RunsInvariant, PTL

-------------------------------------------------------------------------------
(* The answers *)

\* Feed would take an alphabet exactly if some run goes on with it.
LEMMA FeedsGoOn ==
  ASSUME IInv, RunsFit, NEW a \in Alphabets
  PROVE  /\ a \in PossibleAlphabets <=> HasRun(machine, Append(stream, a))
         /\ (OpTypes(nfa_states, a) # {"NOP"} \/ NextStatesMap(nfa_states, a) # {})
              <=> HasRun(machine, Append(stream, a))
<1>1. PICK m, w, top :
         /\ m = machine /\ w = stream /\ top = nfa_states
         /\ m \in Machines /\ w \in Seq(Alphabets)
         /\ top \in SUBSET DOMAIN Region[m]
  BY StatesOfRuns
<1>2. /\ top = {r.state : r \in RunsOver(m, w)}
      /\ PossibleAlphabets = GoesOnWith(m, w)
  BY <1>1, InvFollowsRuns DEF FollowsEveryRun
<1>3. a \in PossibleAlphabets <=> HasRun(m, Append(w, a))
  <2>1. RunsOver(m, Append(w, a)) = UNION {RunSteps(m, r, a) : r \in RunsOver(m, w)}
    BY <1>1, RunsGrow DEF StepAll
  <2> QED
    BY <1>2, <2>1 DEF GoesOnWith, HasRun
<1>4. ASSUME OpTypes(top, a) # {"NOP"} \/ NextStatesMap(top, a) # {}
      PROVE  a \in PossibleAlphabets
  <2>1. \E s \in top : GetNextStates(m, s, a) # {} \/ GetNextStackOps(m, s, a) # {}
    BY <1>1, <1>4 DEF OpTypes, NextStatesMap
  <2> QED
    BY <1>1, <2>1, EntriesAreListed DEF PossibleAlphabets
<1>5. ASSUME HasRun(m, Append(w, a)), OpTypes(top, a) = {"NOP"}, NextStatesMap(top, a) = {}
      PROVE  FALSE
  <2>1. PICK r \in RunsOver(m, w) : RunSteps(m, r, a) # {}
    BY <1>1, <1>5, RunsGrow DEF StepAll, HasRun
  <2>2. r.state \in top
    BY <1>2
  <2>3. GetNextStackOps(m, r.state, a) = {}
    BY <1>1, <1>5, <2>2, NoOperation
  <2>4. GetNextStates(m, r.state, a) = {}
    <3> SUFFICES ASSUME NEW t \in GetNextStates(m, r.state, a)
                 PROVE  FALSE
      OBVIOUS
    <3>1. <<t, r.state>> \in NextStatesMap(top, a)
      BY <1>1, <2>2 DEF NextStatesMap
    <3> QED
      BY <1>5, <3>1
  <2> QED
    BY <2>1, <2>3, <2>4 DEF RunSteps, StepInside, StepInto, StepOut, EntsOf
<1> QED
  BY <1>1, <1>3, <1>4, <1>5

\* A state from which nothing leads on: no operation but "NOP", and no next states.
LEMMA OnlyNops ==
  ASSUME NEW S, NEW a, "NOP" \in OpTypes(S, a),
         \A s \in S : GetNextStackOps(machine, s, a) = {}
  PROVE  OpTypes(S, a) = {"NOP"}
BY DEF OpTypes

\* A feed that FeedSucceeds refuses is no operation, and the other way round.
LEMMA RefusedFeeds ==
  ASSUME IInv, RunsFit, NEW a \in Alphabets
  PROVE  /\ FeedInvalid(a) => ~FeedSucceeds(a) /\ ~HasRun(machine, Append(stream, a))
         /\ FeedPush(a) \/ FeedPop(a) \/ FeedNop(a) => HasRun(machine, Append(stream, a))
<1>1. ASSUME FeedInvalid(a)
      PROVE  OpTypes(nfa_states, a) = {"NOP"} /\ NextStatesMap(nfa_states, a) = {}
  <2>1. "NOP" \in OpTypes(nfa_states, a) /\ NextStatesMap(nfa_states, a) = {}
    BY <1>1 DEF FeedInvalid
  <2>2. \A s \in nfa_states : GetNextStackOps(machine, s, a) = {}
    BY <2>1, StatesOfRuns, NoOperation
  <2> QED
    BY <2>1, <2>2, OnlyNops
<1>2. ASSUME FeedPush(a) \/ FeedPop(a) \/ FeedNop(a)
      PROVE  OpTypes(nfa_states, a) # {"NOP"} \/ NextStatesMap(nfa_states, a) # {}
  <2>1. \/ "PUSH" \in OpTypes(nfa_states, a) \/ "POP" \in OpTypes(nfa_states, a)
        \/ NextStatesMap(nfa_states, a) # {}
    BY <1>2 DEF FeedPush, FeedPop, FeedNop
  <2> QED
    BY <2>1
<1> QED
  BY <1>1, <1>2, FeedsGoOn DEF FeedSucceeds

\* What the grammar says of the stream is what the runs over it do.
LEMMA AnswersOfGrammar ==
  ASSUME ParsersKnowLanguages, IInv, RunsFit, Serves
  PROVE  /\ PossibleAlphabets = CouldFollow(stream)
         /\ \A a \in Alphabets : Acceptable(grammar, Append(stream, a)) <=>
              HasRun(machine, Append(stream, a))
         /\ is_valid_path_so_far => (IsFinal <=> InLanguage(grammar, stream))
         /\ InLanguage(grammar, stream) => \E s \in nfa_states : IsFinalState(machine, s)
<1>1. PICK p \in Parsers : grammar = p.grammar /\ machine = p.machine /\ KnowsLanguage(p)
  BY DEF Serves, ParsersKnowLanguages
<1>2. stream \in Seq(Alphabets) /\ FollowsEveryRun
  BY StatesOfRuns, InvFollowsRuns
<1>3. InLanguage(grammar, stream) <=> Recognises(machine, stream)
  BY <1>1, <1>2 DEF KnowsLanguage
<1>4. ASSUME NEW a \in Alphabets
      PROVE  Acceptable(grammar, Append(stream, a)) <=> HasRun(machine, Append(stream, a))
  <2>1. Append(stream, a) \in Seq(Alphabets)
    BY <1>2, OneMore
  <2> QED
    BY <1>1, <2>1 DEF KnowsLanguage
<1>5. PossibleAlphabets = CouldFollow(stream)
  <2>1. PossibleAlphabets \subseteq Alphabets
    BY <1>2 DEF FollowsEveryRun, GoesOnWith
  <2> QED
    BY <1>4, <2>1, FeedsGoOn DEF CouldFollow
<1>6. InLanguage(grammar, stream) => \E s \in nfa_states : IsFinalState(machine, s)
  BY <1>2, <1>3 DEF FollowsEveryRun, Recognises
<1> QED
  BY <1>2, <1>3, <1>4, <1>5, <1>6 DEF FollowsEveryRun

\* Of every parser whose machine has runs over the acceptable strings of its grammar,
\* and whatever its client did before, an instance is final exactly on the strings of
\* the language (ParserInstance::IsFinal).
THEOREM ClientsAcceptLanguage ==
  ASSUME ParsersKnowLanguages
  PROVE  ClientSpec => []AcceptsLanguage
<1>1. IInv /\ RunsFit /\ Serves => AcceptsLanguage
  BY AnswersOfGrammar DEF AcceptsLanguage
<1> QED
  BY <1>1, ClientInvariant, PTL DEF ParsersKnowLanguages

\* Feed returns true exactly if the longer string is acceptable (ParserInstance::Feed).
THEOREM ClientsFeedAcceptable ==
  ASSUME ParsersKnowLanguages
  PROVE  ClientSpec => []FeedIffAcceptable
<1>1. IInv /\ RunsFit /\ Serves => FeedIffAcceptable
  BY AnswersOfGrammar, FeedsGoOn DEF FeedIffAcceptable, FeedSucceeds
<1> QED
  BY <1>1, ClientInvariant, PTL DEF ParsersKnowLanguages

\* PossibleAlphabets lists the alphabets that keep the string acceptable, all of them and
\* no other, although it looks at no stack (ParserInstance::PossibleAlphabets).
THEOREM ClientsListPossible ==
  ASSUME ParsersKnowLanguages
  PROVE  ClientSpec => []PossibleAlphabetsExact
<1>1. IInv /\ RunsFit /\ Serves => PossibleAlphabetsExact
  BY AnswersOfGrammar DEF PossibleAlphabetsExact
<1> QED
  BY <1>1, ClientInvariant, PTL DEF ParsersKnowLanguages

-------------------------------------------------------------------------------
(* A client's instance is a recogniser of its grammar. *)

\* A feed is taken or refused as the abstract one.
LEMMA FeedsRecognise ==
  ASSUME ParsersKnowLanguages, IInv, RunsFit, Serves, NEW a \in Alphabets, Feed(a),
         UNCHANGED <<machine, parser>>
  PROVE  [Abstract!Next]_(Abstract!recognizer_vars)
<1>1. /\ Acceptable(grammar, Append(stream, a)) <=> HasRun(machine, Append(stream, a))
      /\ UNCHANGED grammar
  BY AnswersOfGrammar DEF parser
<1>2. CASE is_valid_path_so_far /\ (FeedPush(a) \/ FeedPop(a) \/ FeedNop(a))
  <2>1. /\ stream' = Append(stream, a) /\ is_valid_path_so_far' = is_valid_path_so_far
    BY <1>2 DEF FeedPush, FeedPop, FeedNop, Record
  <2>2. HasRun(machine, Append(stream, a))
    BY <1>2, RefusedFeeds
  <2>3. Abstract!Accept(a)
    BY <1>1, <1>2, <2>1, <2>2 DEF Abstract!Accept
  <2> QED
    BY <2>3 DEF Abstract!Next
<1>3. CASE FeedInvalid(a)
  <2>1. Abstract!Refuse(a)
    BY <1>1, <1>3, RefusedFeeds DEF FeedInvalid, Abstract!Refuse
  <2> QED
    BY <2>1 DEF Abstract!Next
<1>4. CASE UNCHANGED vars
  BY <1>1, <1>4 DEF vars, Abstract!recognizer_vars
<1> QED
  BY <1>2, <1>3, <1>4 DEF Feed

\* Hence an instance implements the recogniser of its grammar's language, and of
\* another parser's from Init on (ParserInstance::Feed, Reset, Init).
THEOREM ClientsRecognise ==
  ASSUME ParsersKnowLanguages
  PROVE  ClientSpec => ImplementsRecognizer
<1>1. ClientStart => Abstract!Init
  BY DEF ClientStart, InstanceStart, InitWith, Abstract!Init
<1>2. /\ IInv /\ RunsFit /\ Serves
      /\ [ClientNext \/ \E p \in Parsers : ClientInitWith(p)]_system_vars
      => [Abstract!Next]_(Abstract!recognizer_vars)
  <2> SUFFICES ASSUME IInv, RunsFit, Serves,
                      [ClientNext \/ \E p \in Parsers : ClientInitWith(p)]_system_vars
               PROVE  [Abstract!Next]_(Abstract!recognizer_vars)
    OBVIOUS
  <2>1. ASSUME NEW a \in Alphabets, Feed(a), UNCHANGED <<machine, parser>>
        PROVE  [Abstract!Next]_(Abstract!recognizer_vars)
    BY <2>1, FeedsRecognise
  <2>2. CASE Reset /\ UNCHANGED <<machine, parser>>
    BY <2>2 DEF Reset, Cleared, parser, Abstract!Reset, Abstract!Next
  <2>3. ASSUME NEW p \in Parsers, SetAParseMachine(p.machine), grammar' = p.grammar
        PROVE  Abstract!Next
    BY <2>3, ParsersOfGrammars DEF SetAParseMachine, Cleared, Abstract!Begin, Abstract!Next
  <2>4. CASE UNCHANGED <<vars, parser>>
    BY <2>4 DEF vars, parser, Abstract!recognizer_vars
  <2> QED
    BY <2>1, <2>2, <2>3, <2>4, ClientSteps
<1> QED
  BY <1>1, <1>2, ClientInvariant, PTL
     DEF ParsersKnowLanguages, ClientSpec, ImplementsRecognizer, Abstract!Spec

-------------------------------------------------------------------------------
(* Errors *)

\* Offered is what was fed, and after a refusal the alphabet that no run goes on with; an
\* error about invalid tokens is about that one, as long as it stands.
ErrorsInv ==
  /\ is_valid_path_so_far => offered = stream
  /\ ~is_valid_path_so_far =>
       \E a \in Alphabets : offered = Append(stream, a) /\ ~HasRun(machine, Append(stream, a))
  /\ error.status = "PARSING_ERROR_INVALID_TOKENS" =>
       /\ ~is_valid_path_so_far
       /\ error.position = Len(stream) /\ error.possible_alphabets = PossibleAlphabets

\* A client that wants errors is a client.
LEMMA ErrorsAreOfClients == ErrorsSpec => ClientSpec
<1>1. ErrorsInit => ClientStart
  BY DEF ErrorsInit
<1>2. [ErrorsNext]_errors_vars =>
      [ClientNext \/ \E p \in Parsers : ClientInitWith(p)]_system_vars
  <2>1. ASSUME NEW a \in Alphabets, FeedWithError(a)
        PROVE  ClientNext
    BY <2>1 DEF FeedWithError, ClientFeed, RecognizerNext, ClientNext
  <2>2. ASSUME Len(parse_tree) <= MaxTree, EndWithError
        PROVE  ClientNext \/ UNCHANGED system_vars
    BY <2>2 DEF EndWithError, ClientEnd, ClientNext, system_vars
  <2>3. ASSUME ResetWithError
        PROVE  ClientNext
    BY <2>3 DEF ResetWithError, ClientReset, RecognizerNext, ClientNext
  <2>4. ASSUME UNCHANGED errors_vars
        PROVE  UNCHANGED system_vars
    BY <2>4 DEF errors_vars
  <2> QED
    BY <2>1, <2>2, <2>3, <2>4 DEF ErrorsNext
<1> QED
  BY <1>1, <1>2, PTL DEF ErrorsSpec, ClientSpec

\* A feed keeps the invariant: only the first that is refused is offered, and a later one
\* gives the same error again.
LEMMA FeedErrors ==
  ASSUME IInv, RunsFit, ErrorsInv, NEW a \in Alphabets, FeedWithError(a)
  PROVE  ErrorsInv'
<1>1. Feed(a) /\ error' = (IF FeedSucceeds(a) THEN error ELSE InvalidTokens)
      /\ offered' = (IF is_valid_path_so_far THEN Append(offered, a) ELSE offered)
  BY DEF FeedWithError, InstanceFeed
<1>2. InvalidTokens.position = Len(stream) /\ InvalidTokens.possible_alphabets = PossibleAlphabets
  BY DEF InvalidTokens
<1>3. CASE is_valid_path_so_far /\ (FeedPush(a) \/ FeedPop(a) \/ FeedNop(a))
  <2>1. stream' = Append(stream, a) /\ is_valid_path_so_far' = is_valid_path_so_far
    BY <1>3 DEF FeedPush, FeedPop, FeedNop, Record
  <2>2. FeedSucceeds(a)
    BY <1>3, RefusedFeeds, FeedsGoOn DEF FeedSucceeds
  <2>3. error' = error /\ offered' = stream'
    BY <1>1, <1>3, <2>1, <2>2 DEF ErrorsInv
  <2> QED
    BY <1>3, <2>1, <2>3 DEF ErrorsInv
<1>4. CASE is_valid_path_so_far /\ FeedInvalid(a)
  <2>1. /\ ~is_valid_path_so_far' /\ UNCHANGED <<machine, nfa_states, stream>>
        /\ PossibleAlphabets' = PossibleAlphabets
    BY <1>4 DEF FeedInvalid, PossibleAlphabets
  <2>2. ~FeedSucceeds(a) /\ ~HasRun(machine, Append(stream, a))
    BY <1>4, RefusedFeeds
  <2>3. offered' = Append(stream, a) /\ error' = InvalidTokens
    BY <1>1, <1>4, <2>2 DEF ErrorsInv
  <2> QED
    BY <1>2, <2>1, <2>2, <2>3 DEF ErrorsInv
<1>5. CASE ~is_valid_path_so_far /\ UNCHANGED vars
  <2>1. /\ UNCHANGED <<is_valid_path_so_far, machine, nfa_states, stream>>
        /\ PossibleAlphabets' = PossibleAlphabets
    BY <1>5 DEF vars, PossibleAlphabets
  <2>2. offered' = offered /\ error' = InvalidTokens
    BY <1>1, <1>5 DEF FeedSucceeds
  <2> QED
    BY <1>2, <1>5, <2>1, <2>2 DEF ErrorsInv
<1> QED
  BY <1>1, <1>3, <1>4, <1>5 DEF Feed

LEMMA ErrorsInvariant ==
  ASSUME ParsersKnowLanguages
  PROVE  ErrorsSpec => [](IInv /\ RunsFit /\ Serves /\ ErrorsInv)
<1>1. ErrorsInit => ErrorsInv
  BY DEF ErrorsInit, ClientStart, InstanceStart, InitWith, NoError, ErrorsInv
<1>2. IInv /\ RunsFit /\ ErrorsInv /\ [ErrorsNext]_errors_vars => ErrorsInv'
  <2> SUFFICES ASSUME IInv, RunsFit, ErrorsInv, [ErrorsNext]_errors_vars
               PROVE  ErrorsInv'
    OBVIOUS
  <2>1. ASSUME NEW a \in Alphabets, FeedWithError(a)
        PROVE  ErrorsInv'
    BY <2>1, FeedErrors
  <2>2. ASSUME UNCHANGED <<vars, offered>>,
               error' = error \/ error'.status # "PARSING_ERROR_INVALID_TOKENS"
        PROVE  ErrorsInv'
    <3>1. /\ UNCHANGED <<is_valid_path_so_far, machine, nfa_states, stream>>
          /\ PossibleAlphabets' = PossibleAlphabets
      BY <2>2 DEF vars, PossibleAlphabets
    <3> QED
      BY <2>2, <3>1 DEF ErrorsInv
  <2>3. CASE EndWithError
    <3>1. UNCHANGED <<vars, offered>>
      BY <2>3 DEF EndWithError, End, instance_vars
    <3>2. error' = error \/ error'.status # "PARSING_ERROR_INVALID_TOKENS"
      BY <2>3 DEF EndWithError, IncompleteTokens
    <3> QED
      BY <2>2, <3>1, <3>2
  <2>4. CASE ResetWithError
    BY <2>4 DEF ResetWithError, InstanceReset, Reset, Cleared, NoError, ErrorsInv
  <2>5. CASE UNCHANGED errors_vars
    BY <2>2, <2>5 DEF errors_vars, system_vars, instance_vars
  <2> QED
    BY <2>1, <2>3, <2>4, <2>5 DEF ErrorsNext
<1> QED
  BY <1>1, <1>2, ErrorsAreOfClients, ClientInvariant, PTL DEF ParsersKnowLanguages, ErrorsSpec

\* However much is offered, ended and asked after it, an error about invalid tokens points
\* at the alphabet that first made the string unacceptable and lists exactly those that
\* could have stood there (CoreParser::Feed(Alphabet, Error*)).
THEOREM RefusalsExplained ==
  ASSUME ParsersKnowLanguages
  PROVE  ErrorsSpec => []RefusalsAreExplained
<1>1. IInv /\ RunsFit /\ Serves /\ ErrorsInv => RefusalsAreExplained
  <2> SUFFICES ASSUME IInv, RunsFit, Serves, ErrorsInv,
                      error.status = "PARSING_ERROR_INVALID_TOKENS"
               PROVE  /\ error.position < Len(offered)
                      /\ offered[error.position + 1] \notin
                           CouldFollow(SubSeq(offered, 1, error.position))
                      /\ error.possible_alphabets =
                           CouldFollow(SubSeq(offered, 1, error.position))
    BY DEF RefusalsAreExplained
  <2>1. PICK a \in Alphabets :
          offered = Append(stream, a) /\ ~HasRun(machine, Append(stream, a))
    BY DEF ErrorsInv
  <2>2. /\ stream \in Seq(Alphabets) /\ Len(stream) \in Nat
        /\ Len(offered) = Len(stream) + 1 /\ offered[Len(stream) + 1] = a
        /\ SubSeq(offered, 1, Len(offered) - 1) = stream
    BY <2>1, StatesOfRuns, OneMore
  <2>3. error.position = Len(stream) /\ error.possible_alphabets = PossibleAlphabets
    BY DEF ErrorsInv
  <2>4. SubSeq(offered, 1, error.position) = stream
    BY <2>2, <2>3
  <2>5. PossibleAlphabets = CouldFollow(stream) /\ a \notin CouldFollow(stream)
    BY <2>1, AnswersOfGrammar DEF CouldFollow
  <2>6. error.position < Len(offered) /\ offered[error.position + 1] = a
    BY <2>2, <2>3
  <2> QED
    BY <2>3, <2>4, <2>5, <2>6
<1> QED
  BY <1>1, ErrorsInvariant, PTL

\* An error of End is about a string that is not in the language, and lists exactly what it
\* could go on with, after a refused feed too (CoreParser::Parse(CoreParseNode*, Error*)).
THEOREM UnfinishedTextsExplained ==
  ASSUME ParsersKnowLanguages
  PROVE  ErrorsSpec => UnfinishedTextsAreExplained
<1>1. IInv /\ RunsFit /\ Serves /\ [ErrorsNext]_errors_vars =>
        [error'.status = "PARSING_ERROR_INCOMPLETE_TOKENS" /\ error' # error =>
           /\ ~InLanguage(grammar, stream)
           /\ error'.possible_alphabets = CouldFollow(stream)]_errors_vars
  <2> SUFFICES ASSUME IInv, RunsFit, Serves, ErrorsNext,
                      error'.status = "PARSING_ERROR_INCOMPLETE_TOKENS", error' # error
               PROVE  /\ ~InLanguage(grammar, stream)
                      /\ error'.possible_alphabets = CouldFollow(stream)
    OBVIOUS
  <2>1. ASSUME NEW a \in Alphabets, FeedWithError(a)
        PROVE  FALSE
    BY <2>1 DEF FeedWithError, InvalidTokens
  <2>2. ~ResetWithError
    BY DEF ResetWithError, NoError
  <2>3. Parse(parse_tree) = {} /\ error' = IncompleteTokens
    BY <2>1, <2>2 DEF ErrorsNext, EndWithError
  <2>4. \A s \in nfa_states : ~IsFinalState(machine, s)
    BY <2>3 DEF Parse
  <2> QED
    BY <2>3, <2>4, AnswersOfGrammar DEF IncompleteTokens
<1> QED
  BY <1>1, ErrorsInvariant, PTL DEF ErrorsSpec, UnfinishedTextsAreExplained

-------------------------------------------------------------------------------
(* Parse trees *)

\* What a client does with its instance is what an instance can do.
LEMMA ClientsAreInstances ==
  ASSUME MachinesOfParsers
  PROVE  ClientSpec => InstanceSpec
<1>1. ClientStart => InstanceInitial
  BY DEF ClientStart, InstanceInitial, MachinesOfParsers
<1>2. Serves /\ [ClientNext \/ \E p \in Parsers : ClientInitWith(p)]_system_vars
        => [InstanceNext]_instance_vars
  <2> SUFFICES ASSUME Serves, [ClientNext \/ \E p \in Parsers : ClientInitWith(p)]_system_vars
               PROVE  [InstanceNext]_instance_vars
    OBVIOUS
  <2>1. CASE ClientNext
    BY <2>1 DEF ClientNext, RecognizerNext, ClientFeed, ClientReset, ClientEnd, ClientInit,
                Serves, MachinesOfParsers, InstanceNext
  <2>2. ASSUME NEW p \in Parsers, ClientInitWith(p)
        PROVE  InstanceNext
    BY <2>2 DEF ClientInitWith, MachinesOfParsers, InstanceNext
  <2>3. CASE UNCHANGED system_vars
    BY <2>3 DEF system_vars
  <2> QED
    BY <2>1, <2>2, <2>3
<1> QED
  BY <1>1, <1>2, ClientsParse, PTL DEF ClientSpec, InstanceSpec

\* Whatever was in the tree before, Parse adds the tree that the run spells alone.
LEMMA ParseAddsTree ==
  ASSUME ParsersSpellTrees, IInv, HasHistory, Serves,
         NEW output \in Seq(Node), output # << >>, IsRoot(output[1]), NEW result \in Parse(output)
  PROVE  /\ result.status = "done" /\ IsRoot(result.nodes[1])
         /\ IsTreeOf(grammar, stream, AddedNodes(result.nodes, Len(output)))
         /\ output = FreshTree => IsTreeOf(grammar, stream, result.nodes)
<1>1. PICK s \in nfa_states :
        /\ IsFinalState(machine, s)
        /\ result = IF Backtrack(s).status = "done" THEN ConstructTree(Backtrack(s).pss, output)
                    ELSE [status |-> Backtrack(s).status, nodes |-> output]
  BY DEF Parse
<1> DEFINE pss == Backtrack(s).pss
           fresh == ConstructTree(pss, FreshTree)
           made == ConstructTree(pss, output)
<1>2. result = made /\ pss \in Streams(Len(stream)) /\ Spells(machine, stream, pss)
  BY <1>1, WalkSpells
<1>3. stream \in Seq(Alphabets) /\ Len(stream) \in Nat
  BY DEF IInv, TypeOK
<1>4. PICK p \in Parsers : grammar = p.grammar /\ machine = p.machine /\ SpellsTrees(p)
  BY DEF Serves, ParsersSpellTrees
<1> HIDE DEF pss
<1>5. fresh.status = "done" /\ IsTreeOf(grammar, stream, fresh.nodes)
  BY <1>2, <1>3, <1>4 DEF SpellsTrees
<1>6. /\ made.status = "done" /\ IsRoot(made.nodes[1])
      /\ AddedNodes(made.nodes, Len(output)) = fresh.nodes
  BY <1>2, <1>3, <1>5, AddedIsFresh
<1> QED
  BY <1>2, <1>5, <1>6

\* A client's tree always has its root.
HasRoot == TreeTyped /\ IsRoot(parse_tree[1])

LEMMA FreshRoot == FreshTree \in Seq(Node) /\ FreshTree # << >> /\ IsRoot(FreshTree[1])
<1>1. IsRoot(FreshTree[1])
  BY DEF FreshTree, IsRoot
<1> QED
  BY <1>1, FreshTreeFits

LEMMA RootInvariant ==
  ASSUME ParsersSpellTrees
  PROVE  ClientSpec => [](IInv /\ HasHistory /\ Serves /\ HasRoot)
<1>1. ClientSpec => [](IInv /\ HasHistory /\ Serves /\ TreeTyped)
  BY ClientsParse, ClientsAreInstances, HistoryInvariant, TreeAlwaysTyped, PTL
     DEF ParsersSpellTrees
<1>2. ClientStart => IsRoot(parse_tree[1])
  BY FreshRoot DEF ClientStart, InstanceStart
<1>3. /\ IInv /\ HasHistory /\ Serves /\ TreeTyped /\ IsRoot(parse_tree[1])
      /\ [ClientNext \/ \E p \in Parsers : ClientInitWith(p)]_system_vars
      => IsRoot(parse_tree[1])'
  <2> SUFFICES ASSUME IInv, HasHistory, Serves, TreeTyped, IsRoot(parse_tree[1]),
                      [ClientNext \/ \E p \in Parsers : ClientInitWith(p)]_system_vars
               PROVE  IsRoot(parse_tree'[1])
    OBVIOUS
  <2>1. CASE End
    <3>1. PICK result \in Parse(parse_tree) : parse_tree' = result.nodes
      BY <2>1 DEF End
    <3>2. IsRoot(result.nodes[1])
      BY ParseAddsTree DEF TreeTyped
    <3> QED
      BY <3>1, <3>2
  <2>2. CASE InstanceReset
    BY <2>2, FreshRoot DEF InstanceReset
  <2>3. CASE parse_tree' = parse_tree
    BY <2>3
  <2>4. End \/ InstanceReset \/ parse_tree' = parse_tree
    BY DEF ClientNext, RecognizerNext, ClientFeed, ClientReset, ClientEnd, ClientInit,
           ClientInitWith, InstanceFeed, InstanceInit, system_vars, instance_vars
  <2> QED
    BY <2>1, <2>2, <2>3, <2>4
<1> QED
  BY <1>1, <1>2, <1>3, PTL DEF ClientSpec, HasRoot

\* However the stream was fed, and whichever of the states and records the hash maps give
\* it, Parse follows one run through the records of all, and its tree is a parse tree of
\* the stream (CoreParser::Parse, ConstructTree).
THEOREM ClientsGetParseTrees ==
  ASSUME ParsersSpellTrees
  PROVE  ClientSpec => []ParseTreesAreValid
<1>1. IInv /\ HasHistory /\ Serves => ParseTreesAreValid
  BY ParseAddsTree, FreshRoot DEF ParseTreesAreValid
<1> QED
  BY <1>1, RootInvariant, PTL

\* And so is what every End adds to the tree, after any number of other Ends, of this
\* parser or another, and after refused feeds (ParserInstance::End, Init).
THEOREM EndsAddParseTrees ==
  ASSUME ParsersSpellTrees
  PROVE  ClientSpec => []EndAddsParseTree
<1>1. IInv /\ HasHistory /\ Serves /\ HasRoot => EndAddsParseTree
  BY ParseAddsTree DEF EndAddsParseTree, HasRoot, TreeTyped
<1> QED
  BY <1>1, RootInvariant, PTL
=================================================================================
