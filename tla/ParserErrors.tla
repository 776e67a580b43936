------------------------------ MODULE ParserErrors ------------------------------
(***************************************************************************)
(* The operations of a ParserInstance that report an Error, and those that  *)
(* take a string at once (src/parser.cpp, src/v2/core_parser.cpp).  FeedOrDie*)
(* and EndOrDie throw the error that the others write.                      *)
(***************************************************************************)
EXTENDS ParserClient

VARIABLES
  error,       \* the client's Error object
  offered      \* history: what the parser was fed since it was reset, with the
               \* first alphabet that it refused

errors_vars == <<system_vars, error, offered>>

\* Error(): status SUCCESS, position 0.
NoError == [status |-> "SUCCESS", position |-> 0, possible_alphabets |-> {}]

\* Mutant: the alternatives are those of the start of the string.
InvalidTokensFromStart ==
  [status |-> "PARSING_ERROR_INVALID_TOKENS", position |-> Len(stream),
   possible_alphabets |-> StateAlphabets(machine, machine.start_state)]

\* Position has the length 1 wherever it is set.
InvalidTokens ==
  [status |-> "PARSING_ERROR_INVALID_TOKENS", position |-> Len(stream),
   possible_alphabets |-> PossibleAlphabets]

IncompleteTokens ==
  [status |-> "PARSING_ERROR_INCOMPLETE_TOKENS", position |-> 0,
   possible_alphabets |-> PossibleAlphabets]

\* Feed(a, error): the error describes the instance as the refused feed left it.
FeedWithError(a) ==
  /\ InstanceFeed(a)
  /\ error' = IF FeedSucceeds(a) THEN error ELSE InvalidTokens
  /\ offered' = IF is_valid_path_so_far THEN Append(offered, a) ELSE offered
  /\ UNCHANGED parser

\* Feed(s, error) of a string is a Feed of each alphabet and stops at the first
\* that is refused: its steps are those of FeedWithError.  What is left of the
\* string is never offered.

\* Mutant: an unsuccessful End reports what an earlier error did.
EndWithOldError ==
  /\ IF Parse(parse_tree) # {} THEN End /\ UNCHANGED error
     ELSE error' = [error EXCEPT !.status = IncompleteTokens.status]
          /\ UNCHANGED instance_vars
  /\ UNCHANGED <<parser, offered>>

EndWithError ==
  /\ IF Parse(parse_tree) # {} THEN End /\ UNCHANGED error
     ELSE error' = IncompleteTokens /\ UNCHANGED instance_vars
  /\ UNCHANGED <<parser, offered>>

\* A client has a new Error for each string.
ResetWithError ==
  /\ InstanceReset
  /\ offered' = << >>
  /\ error' = NoError
  /\ UNCHANGED parser

ErrorsInit == ClientStart /\ error = NoError /\ offered = << >>
ErrorsNext ==
  \/ \E a \in Alphabets : FeedWithError(a)
  \/ Len(parse_tree) <= MaxTree /\ EndWithError
  \/ ResetWithError
ErrorsSpec == ErrorsInit /\ [][ErrorsNext]_errors_vars

-------------------------------------------------------------------------------

\* However much is offered after it, an error about invalid tokens points at the
\* first alphabet that made the string unacceptable, and lists exactly those that
\* could have stood there ("Error detail includes: Alternative possible alphabets
\* which could have fed, error position in the string", parser.hpp).
RefusalsAreExplained ==
  error.status = "PARSING_ERROR_INVALID_TOKENS" =>
    LET accepted == SubSeq(offered, 1, error.position)
    IN /\ error.position < Len(offered)
       /\ offered[error.position + 1] \notin CouldFollow(accepted)
       /\ error.possible_alphabets = CouldFollow(accepted)

\* An error of End is about a string that is not acceptable as it is, and lists
\* exactly what it could go on with, after a refused feed too.
UnfinishedTextsAreExplained ==
  [][error'.status = "PARSING_ERROR_INCOMPLETE_TOKENS" /\ error' # error =>
       /\ ~InLanguage(grammar, stream)
       /\ error'.possible_alphabets = CouldFollow(stream)]_errors_vars
================================================================================
