------------------------------- MODULE MachineRuns -------------------------------
(***************************************************************************)
(* What an AParseMachine means, with no sets of states and no frames: the   *)
(* runs of a pushdown automaton, which is in one state, and remembers for   *)
(* each open bracket the state it was in, the alphabet that opened it and   *)
(* the enclosed non-terminal it expects to close.  CoreParser follows all   *)
(* runs at once, and forgets which state belongs to which.                  *)
(***************************************************************************)
EXTENDS CoreParserRegions

StartRun(m) == [state |-> m.start_state, open |-> << >>]

\* One alphabet: along an edge, into a bracket, or out of the innermost one.
StepInside(m, r, a) == {[r EXCEPT !.state = t] : t \in GetNextStates(m, r.state, a)}

EntsOf(m, s, a, type) ==
  {e \in DOMAIN m.enclosed_subnfa_map : <<type, e>> \in GetNextStackOps(m, s, a)}

StepInto(m, r, a) ==
  {[state |-> m.enclosed_subnfa_map[e].start_state,
    open |-> Append(r.open, [state |-> r.state, alphabet |-> a, ent |-> e])] :
     e \in EntsOf(m, r.state, a, "PUSH")}

StepOut(m, r, a) ==
  LET depth == Len(r.open)
      bracket == r.open[depth]
  IN IF depth = 0 \/ bracket.ent \notin EntsOf(m, r.state, a, "POP") THEN {}
     ELSE {[state |-> t, open |-> SubSeq(r.open, 1, depth - 1)] :
             t \in GetSpecialNextStates(m, bracket.state, bracket.alphabet, bracket.ent)}

RunSteps(m, r, a) == StepInside(m, r, a) \cup StepInto(m, r, a) \cup StepOut(m, r, a)

\* The runs over the first i alphabets of w, and over all of them.
RunsUpTo(m, w) ==
  LET runs[i \in 0..Len(w)] ==
        IF i = 0 THEN {StartRun(m)} ELSE UNION {RunSteps(m, r, w[i]) : r \in runs[i - 1]}
  IN runs
RunsOver(m, w) == RunsUpTo(m, w)[Len(w)]

HasRun(m, w) == RunsOver(m, w) # {}

\* Some run ends outside all brackets, in a final state.
Recognises(m, w) == \E r \in RunsOver(m, w) : r.open = << >> /\ IsFinalState(m, r.state)

\* The alphabets after which some run over w goes on.
GoesOnWith(m, w) ==
  LET runs == RunsOver(m, w) IN {a \in Alphabets : \E r \in runs : RunSteps(m, r, a) # {}}

\* The states of CoreParser are those its machine's runs over the stream are in, as
\* many brackets are open, and IsFinal and PossibleAlphabets answer for the runs (Feed,
\* IsFinal, PossibleAlphabets): joining the runs at an opening alphabet and pairing them
\* with the frame at the closing one adds and loses none, and every alphabet that a state
\* lists goes on from there in some run.
FollowsEveryRun ==
  /\ nfa_states = {r.state : r \in RunsOver(machine, stream)}
  /\ \A r \in RunsOver(machine, stream) : Len(r.open) = Len(stack)
  /\ is_valid_path_so_far => (IsFinal <=> Recognises(machine, stream))
  /\ PossibleAlphabets = GoesOnWith(machine, stream)

\* Hence Feed takes an alphabet exactly when the machine has a run over the longer
\* string (Feed, Reset, SetAParseMachine).
OfMachine == INSTANCE Recognizer WITH Languages <- Machines,
  Acceptable <- HasRun, language <- machine, fed <- stream, valid <- is_valid_path_so_far
RecognisesMachine == OfMachine!Spec
================================================================================
