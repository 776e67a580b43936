------------------------------ MODULE CoreParser ------------------------------
(***************************************************************************)
(* src/v2/core_parser: the push-down recogniser that runs an AParseMachine  *)
(* over a stream of alphabets, and the back-tracking that turns an accepted *)
(* stream into a parse tree.                                                *)
(*                                                                          *)
(* The parser keeps the set of NFA states the stream fed so far can be in,  *)
(* a stack with one frame per open branching alphabet (the alphabet and the *)
(* states the parser was in before it), and a back-tracker: for each feed,  *)
(* the previous state of every state it led to.                             *)
(*                                                                          *)
(* Positions count from 1 here: feed_index 0 of the code is 1.              *)
(* Where the code walks an unordered container and keeps the first (emplace,*)
(* insert) or the last (operator[]) entry for a key, the entry kept depends *)
(* on the hash order: the model keeps any one of them.                      *)
(***************************************************************************)
EXTENDS AParseMachine, FiniteSets

CONSTANTS
  Machines,     \* the AParseMachines clients have built
  Alphabets,    \* the alphabets clients feed
  MaxStream     \* bound: length of the stream fed between two resets

VARIABLES
  machine,               \* the machine in use (the code keeps a pointer to it)
  is_valid_path_so_far,
  nfa_states,            \* current_state.nfa_states
  stack,                 \* << [alphabet, nfa_states] >>, top last
  stream,                \* the alphabets fed so far
  stack_op_list,         \* for each of them, the stack operation done
  nfa_states_map,        \* back_tracker: NOP feed -> state -> previous state
  pull_op_map            \* back_tracker: POP feed ->
                         \*   state -> <<state in the frame, ent, previous state>>

vars == <<machine, is_valid_path_so_far, nfa_states, stack, stream,
          stack_op_list, nfa_states_map, pull_op_map>>

\* R has exactly one value for the key k; a value it has for k.
HasOneValue(R, k) ==
  \E p \in R : <<k, p[2]>> \in R /\ \A q \in R : <<k, q[2]>> \in R => q[2] = p[2]
AValue(R, k) == CHOOSE v \in {p[2] : p \in R} : <<k, v>> \in R

\* The maps an unordered walk over the <<key, value>> pairs of R can leave: for
\* each key one of its values.
Selections(R) ==
  LET keys == {p[1] : p \in R}
      open == {k \in keys : ~HasOneValue(R, k)}
      choices == {f \in [open -> {p[2] : p \in R}] : \A k \in open : <<k, f[k]>> \in R}
  IN {[k \in keys |-> IF k \in open THEN f[k] ELSE AValue(R, k)] : f \in choices}

-------------------------------------------------------------------------------
(* CurrentState *)

\* <<target, source>> for every edge that leaves S on alphabet a.
NextStatesMap(S, a) ==
  UNION {{<<t, s>> : t \in GetNextStates(machine, s, a)} : s \in S}

\* <<target, <<source, ent>>>> for the special edges on a of the ents given.
SpecialNextStates(S, a, ents) ==
  UNION {UNION {{<<t, <<s, e>>>> : t \in GetSpecialNextStates(machine, s, a, e)} :
                  s \in S} : e \in ents}

\* <<ent, source>> for the special edges that leave S on a.
NextStackOps(S, a) ==
  UNION {{<<op[2], s>> : op \in GetNextStackOps(machine, s, a)} : s \in S}

\* op_type: the type of whichever operation the walk meets last.
OpTypes(S, a) ==
  LET types == UNION {{op[1] : op \in GetNextStackOps(machine, s, a)} : s \in S}
  IN IF types = {} THEN {"NOP"} ELSE types

-------------------------------------------------------------------------------
(* Operations *)

\* Mutant: the POP records outlive a reset.
ClearedButPullOps ==
  /\ is_valid_path_so_far' = TRUE
  /\ stack' = << >>
  /\ stream' = << >>
  /\ stack_op_list' = << >>
  /\ nfa_states_map' = EmptyMap
  /\ UNCHANGED pull_op_map

Cleared ==
  /\ is_valid_path_so_far' = TRUE
  /\ stack' = << >>
  /\ stream' = << >>
  /\ stack_op_list' = << >>
  /\ nfa_states_map' = EmptyMap
  /\ pull_op_map' = EmptyMap

SetAParseMachine(m) ==
  /\ machine' = m
  /\ nfa_states' = {m.start_state}
  /\ Cleared

Reset ==
  /\ UNCHANGED machine
  /\ nfa_states' = {machine.start_state}
  /\ Cleared

Record(a, type) ==
  /\ stack_op_list' = Append(stack_op_list, type)
  /\ stream' = Append(stream, a)
  /\ UNCHANGED <<machine, is_valid_path_so_far>>

\* Mutant: the frame keeps the states after the opening alphabet.
FeedPushLate(a) ==
  LET inner == {machine.enclosed_subnfa_map[p[1]].start_state :
                  p \in NextStackOps(nfa_states, a)}
  IN /\ "PUSH" \in OpTypes(nfa_states, a)
     /\ stack' = Append(stack, [alphabet |-> a, nfa_states |-> inner])
     /\ nfa_states' = inner
     /\ UNCHANGED <<nfa_states_map, pull_op_map>>
     /\ Record(a, "PUSH")

\* Mutant: an opening alphabet enters every enclosed NFA there is.
FeedPushAnywhere(a) ==
  /\ "PUSH" \in OpTypes(nfa_states, a)
  /\ stack' = Append(stack, [alphabet |-> a, nfa_states |-> nfa_states])
  /\ nfa_states' = {machine.enclosed_subnfa_map[e].start_state :
                      e \in DOMAIN machine.enclosed_subnfa_map}
  /\ UNCHANGED <<nfa_states_map, pull_op_map>>
  /\ Record(a, "PUSH")

\* a opens a bracket: continue in the sub-NFAs of every ent it may open.
FeedPush(a) ==
  /\ "PUSH" \in OpTypes(nfa_states, a)
  /\ stack' = Append(stack, [alphabet |-> a, nfa_states |-> nfa_states])
  /\ nfa_states' = {machine.enclosed_subnfa_map[p[1]].start_state :
                      p \in NextStackOps(nfa_states, a)}
  /\ UNCHANGED <<nfa_states_map, pull_op_map>>
  /\ Record(a, "PUSH")

\* a closes a bracket: leave the frame across the ents recognised in it.  The
\* assertion of the code is the guard: POP on an empty stack aborts.
FeedPop(a) ==
  /\ "POP" \in OpTypes(nfa_states, a)
  /\ stack # << >>
  /\ LET frame == stack[Len(stack)]
         ops == NextStackOps(nfa_states, a)
         next == SpecialNextStates(frame.nfa_states, frame.alphabet,
                                   {p[1] : p \in ops})
     IN \E from \in Selections(ops), map \in Selections(next) :
          /\ nfa_states' = DOMAIN map
          /\ pull_op_map' =
               Put(pull_op_map, Len(stream) + 1,
                    [t \in DOMAIN map |->
                       <<map[t][1], map[t][2], from[map[t][2]]>>])
  /\ stack' = SubSeq(stack, 1, Len(stack) - 1)
  /\ UNCHANGED nfa_states_map
  /\ Record(a, "POP")

FeedNop(a) ==
  /\ "NOP" \in OpTypes(nfa_states, a)
  /\ NextStatesMap(nfa_states, a) # {}
  /\ \E map \in Selections(NextStatesMap(nfa_states, a)) :
       /\ nfa_states' = DOMAIN map
       /\ nfa_states_map' = Put(nfa_states_map, Len(stream) + 1, map)
  /\ UNCHANGED <<stack, pull_op_map>>
  /\ Record(a, "NOP")

FeedInvalid(a) ==
  /\ "NOP" \in OpTypes(nfa_states, a)
  /\ NextStatesMap(nfa_states, a) = {}
  /\ is_valid_path_so_far' = FALSE
  /\ UNCHANGED <<machine, nfa_states, stack, stream, stack_op_list,
                 nfa_states_map, pull_op_map>>

\* Mutant: Feed goes on after a refusal.
FeedAfterRefusal(a) ==
  /\ Len(stream) < MaxStream
  /\ FeedPush(a) \/ FeedPop(a) \/ FeedNop(a) \/ FeedInvalid(a)

\* Feed returns is_valid_path_so_far'.
Feed(a) ==
  \/ /\ is_valid_path_so_far
     /\ Len(stream) < MaxStream
     /\ FeedPush(a) \/ FeedPop(a) \/ FeedNop(a) \/ FeedInvalid(a)
  \/ ~is_valid_path_so_far /\ UNCHANGED vars

InitWith(m) ==
  /\ machine = m
  /\ is_valid_path_so_far = TRUE
  /\ nfa_states = {m.start_state}
  /\ stack = << >>
  /\ stream = << >>
  /\ stack_op_list = << >>
  /\ nfa_states_map = EmptyMap
  /\ pull_op_map = EmptyMap

Init == \E m \in Machines : InitWith(m)

Next ==
  \/ \E a \in Alphabets : Feed(a)
  \/ Reset
  \/ \E m \in Machines : SetAParseMachine(m)

Spec == Init /\ [][Next]_vars

-------------------------------------------------------------------------------
(* Queries *)

IsFinal == is_valid_path_so_far /\ \E s \in nfa_states : IsFinalState(machine, s)

\* Mutant: the alphabets of one state.
PossibleAlphabetsOfOne == StateAlphabets(machine, CHOOSE s \in nfa_states : TRUE)

PossibleAlphabets == UNION {StateAlphabets(machine, s) : s \in nfa_states}

\* Feed(a) would return true.
FeedSucceeds(a) ==
  /\ is_valid_path_so_far
  /\ OpTypes(nfa_states, a) # {"NOP"} \/ NextStatesMap(nfa_states, a) # {}

-------------------------------------------------------------------------------
(* Properties *)

\* A closing alphabet closes a bracket that is open, and one of the ents it
\* closes is an ent the open bracket may hold: the assertion of Feed on an
\* empty stack never fires, and no feed leaves a parser without states, which
\* would go on to report success (Feed, the POP branch).
PopsAreMatched ==
  /\ nfa_states # {}
  /\ \A a \in Alphabets, s \in nfa_states : \A op \in GetNextStackOps(machine, s, a) :
       op[1] = "POP" =>
         /\ stack # << >>
         /\ \E q \in stack[Len(stack)].nfa_states :
              <<"PUSH", op[2]>> \in
                GetNextStackOps(machine, q, stack[Len(stack)].alphabet)

\* The feeds with a stack operation of the given type.
FeedsOf(type) == {i \in DOMAIN stack_op_list : stack_op_list[i] = type}

\* The records the back-tracking reads are those of this stream: one operation
\* for each alphabet, a map of previous states for exactly the feeds that did
\* not push, and a frame for each bracket that is still open (Feed, Reset).
RecordsMatchStream ==
  /\ Len(stack_op_list) = Len(stream)
  /\ DOMAIN nfa_states_map = FeedsOf("NOP")
  /\ DOMAIN pull_op_map = FeedsOf("POP")
  /\ Cardinality(FeedsOf("PUSH")) = Len(stack) + Cardinality(FeedsOf("POP"))
=============================================================================
