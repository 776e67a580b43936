---------------------------- MODULE ParserInstance ----------------------------
(***************************************************************************)
(* src/parser.cpp: the object clients parse with.  It owns a CoreParser and *)
(* the parse tree that End fills in; CoreParser::Parse and ConstructTree    *)
(* (src/v2/core_parser.cpp) are here because they only write that tree.     *)
(*                                                                          *)
(* A CoreParseNode tree is kept flat: the sequence of its nodes in the order*)
(* they were created, each with the index of its parent; node 1 is the node *)
(* the client passed in, which carries no rule.                             *)
(***************************************************************************)
EXTENDS CoreParser, SequencesExt

VARIABLE parse_tree

instance_vars == <<vars, parse_tree>>

\* CoreParseNode(): label, start and end are 0 and there are no children.
FreshTree == <<[label |-> 0, start |-> 0, end |-> 0, parent |-> 0]>>

-------------------------------------------------------------------------------
(* ConstructTree *)

\* Mutant: positions count from 1.
MarkersLate(pss) ==
  LET at[i \in 0..Len(pss)] ==
        IF i = 0 THEN << >>
        ELSE at[i - 1] \o [j \in 1..Len(pss[i]) |->
                             <<pss[i][j][1], pss[i][j][2], i>>]
  IN at[Len(pss)]

\* The markers of all parsing streams in order, each with the position it
\* stands before: <<"START" or "END", rule, position>>.
Markers(pss) ==
  LET at[i \in 0..Len(pss)] ==
        IF i = 0 THEN << >>
        ELSE at[i - 1] \o [j \in 1..Len(pss[i]) |->
                             <<pss[i][j][1], pss[i][j][2], i - 1>>]
  IN at[Len(pss)]

\* Mutant: a child opens below the node opened last, closed or not.
OpenNodeBelowLast(t, marker) ==
  [t EXCEPT !.nodes = Append(@, [label |-> marker[2], start |-> marker[3],
                                 end |-> 0, parent |-> Len(t.nodes)]),
            !.open = Append(@, Len(t.nodes) + 1)]

OpenNode(t, marker) ==
  [t EXCEPT !.nodes = Append(@, [label |-> marker[2], start |-> marker[3],
                                 end |-> 0, parent |-> Last(t.open)]),
            !.open = Append(@, Len(t.nodes) + 1)]

\* The last assertion of the loop: the node passed in is never closed.
CloseNode(t, marker) ==
  [t EXCEPT !.nodes = [@ EXCEPT ![Last(t.open)].end = marker[3]],
            !.open = Front(@),
            !.status = IF Len(t.open) = 1 THEN "aborts" ELSE @]

ConstructMarker(t, marker) ==
  IF t.status # "done" THEN t
  ELSE IF marker[1] = "START" THEN OpenNode(t, marker)
  ELSE CloseNode(t, marker)

\* What the loops have made of the first markers: t[k] of the first k.  status:
\* "done", or "aborts" when an assertion fails.
TreeWalk(pss, output) ==
  LET markers == Markers(pss)
      begin == [nodes |-> [output EXCEPT ![1].start = 0, ![1].end = Len(pss) - 1],
                open |-> <<1>>, status |-> "done"]
      t[k \in 0..Len(markers)] ==
        IF k = 0 THEN begin ELSE ConstructMarker(t[k - 1], markers[k])
  IN t

\* The children output already had stay where they are.
ConstructTree(pss, output) ==
  LET end == TreeWalk(pss, output)[Len(Markers(pss))]
  IN IF Len(end.open) = 1 /\ Len(end.nodes) > 1 THEN end
     ELSE [end EXCEPT !.status = "aborts"]

\* The nodes after the first n, as a tree of their own.
AddedNodes(nodes, n) ==
  <<nodes[1]>> \o [k \in 1..Len(nodes) - n |->
                    [nodes[n + k] EXCEPT !.parent = IF @ = 1 THEN 1 ELSE @ - n + 1]]

-------------------------------------------------------------------------------
(* Parse: from a final state back to the start of the stream *)

\* Mutant: the stack is not popped.
BackPushKeeping(b, i) ==
  LET top == Last(b.construction_stack)
  IN [b EXCEPT !.pss[i] = GetSpecialParsingStream(machine, top[1], stream[i], top[2], top[3]),
               !.cur = top[1]]

\* construction_stack holds <<state before the bracket, ent, state after it>>.
BackPush(b, i) ==
  LET top == Last(b.construction_stack)
  IN [b EXCEPT !.pss[i] = GetSpecialParsingStream(machine, top[1], stream[i], top[2], top[3]),
               !.cur = top[1],
               !.construction_stack = Front(@)]

BackPop(b, i) ==
  LET entry == pull_op_map[i][b.cur]
  IN [b EXCEPT !.construction_stack = Append(@, <<entry[1], entry[2], b.cur>>),
               !.cur = entry[3],
               !.pss[i] = machine.enclosed_subnfa_map[entry[2]].final_states[entry[3]]]

BackNop(b, i) ==
  LET previous == nfa_states_map[i][b.cur]
  IN [b EXCEPT !.pss[i] = GetParsingStream(machine, previous, stream[i], b.cur),
               !.cur = previous]

\* The back-tracker has an entry for the step before feed i (else at() throws).
Tracked(b, i) ==
  CASE stack_op_list[i] = "PUSH" -> b.construction_stack # << >>
    [] stack_op_list[i] = "POP" ->
         /\ i \in DOMAIN pull_op_map
         /\ b.cur \in DOMAIN pull_op_map[i]
         /\ LET entry == pull_op_map[i][b.cur]
            IN entry[3] \in DOMAIN machine.enclosed_subnfa_map[entry[2]].final_states
    [] stack_op_list[i] = "NOP" ->
         i \in DOMAIN nfa_states_map /\ b.cur \in DOMAIN nfa_states_map[i]

BackStep(b, i) ==
  IF b.status # "done" THEN b
  ELSE IF ~Tracked(b, i) THEN [b EXCEPT !.status = "throws"]
  ELSE CASE stack_op_list[i] = "PUSH" -> BackPush(b, i)
         [] stack_op_list[i] = "POP" -> BackPop(b, i)
         [] stack_op_list[i] = "NOP" -> BackNop(b, i)

\* Mutant: the stream of the final state goes where the walk writes over it.
BackStartEarly(final_state) ==
  LET n == Len(stream)
  IN [cur |-> final_state, construction_stack |-> << >>, status |-> "done",
      pss |-> [j \in 1..n + 1 |->
                 IF j = n THEN machine.final_states[final_state] ELSE << >>]]

\* The walk begins after the last feed, with the stream of the final state.
BackStart(final_state) ==
  LET n == Len(stream)
  IN [cur |-> final_state, construction_stack |-> << >>, status |-> "done",
      pss |-> [j \in 1..n + 1 |->
                 IF j = n + 1 THEN machine.final_states[final_state] ELSE << >>]]

\* b[i] is what the loop has when it comes to feed i - 1.
BackWalk(final_state) ==
  LET n == Len(stream)
      b[i \in 1..n + 1] == IF i = n + 1 THEN BackStart(final_state) ELSE BackStep(b[i + 1], i)
  IN b

Backtrack(final_state) == BackWalk(final_state)[1]

\* The results Parse can have: [status, nodes], one for each final state the
\* walk of nfa_states can meet first; none when Parse returns false.
Parse(output) ==
  {LET b == Backtrack(s)
   IN IF b.status = "done" THEN ConstructTree(b.pss, output)
      ELSE [status |-> b.status, nodes |-> output] :
     s \in {s \in nfa_states : IsFinalState(machine, s)}}

-------------------------------------------------------------------------------
(* ParserInstance *)

InstanceFeed(a) == Feed(a) /\ UNCHANGED parse_tree

InstanceReset == Reset /\ parse_tree' = FreshTree

\* Init(parser) on an instance already in use: the CoreParser is a new one.
InstanceInit(m) == SetAParseMachine(m) /\ UNCHANGED parse_tree

\* End returns whether Parse(parse_tree) has a result.
End ==
  /\ \E result \in Parse(parse_tree) :
       result.status = "done" /\ parse_tree' = result.nodes
  /\ UNCHANGED vars

InstanceStart(m) == InitWith(m) /\ parse_tree = FreshTree

\* The operations of one instance, for clients that know machines only.
InstanceInitial == \E m \in Machines : InstanceStart(m)
InstanceNext ==
  \/ \E a \in Alphabets : InstanceFeed(a)
  \/ InstanceReset
  \/ End
  \/ \E m \in Machines : InstanceInit(m)
InstanceSpec == InstanceInitial /\ [][InstanceNext]_instance_vars

-------------------------------------------------------------------------------

\* One alphabet of the machine, along an edge, into a bracket or out of it, leads
\* from what the walk has before feed i to what it has after it.
IsStep(before, after, i) ==
  LET a == stream[i]
      q == before.cur
      outside == before.construction_stack
  IN \/ after.cur \in GetNextStates(machine, q, a) /\ after.construction_stack = outside
     \/ \E e \in DOMAIN machine.enclosed_subnfa_map :
          /\ <<"PUSH", e>> \in GetNextStackOps(machine, q, a)
          /\ after.cur = machine.enclosed_subnfa_map[e].start_state
          /\ \E t \in GetSpecialNextStates(machine, q, a, e) :
               after.construction_stack = Append(outside, <<q, e, t>>)
     \/ /\ outside # << >> /\ after.construction_stack = Front(outside)
        /\ <<"POP", Last(outside)[2]>> \in GetNextStackOps(machine, q, a)
        /\ after.cur = Last(outside)[3]

\* From every final state the back-tracker leads through every feed, however
\* the stream was fed: at() finds each entry, the stack of brackets is empty when
\* and only when it has to be, and the walk arrives at the start state.  The states
\* and brackets it comes by are one run of the machine, although the records are of
\* many runs at once and each keeps one of several states before (Parse).
WalksBackToStart ==
  \A s \in {t \in nfa_states : IsFinalState(machine, t)} :
    LET walk == BackWalk(s)
    IN /\ walk[1].status = "done"
       /\ walk[1].cur = machine.start_state /\ walk[1].construction_stack = << >>
       /\ \A i \in DOMAIN stream : IsStep(walk[i], walk[i + 1], i)

\* Whatever End finds in parse_tree: it neither throws nor aborts, it adds a child,
\* and the nodes that earlier Ends have left stay as they are (Parse, ConstructTree).
EndsComplete ==
  \A result \in Parse(parse_tree) :
    LET n == Len(parse_tree)
    IN /\ result.status = "done" /\ Len(result.nodes) > n
       /\ \A k \in 2..n : result.nodes[k] = parse_tree[k]

\* The parse tree End left fits the stream and every node lies within its parent,
\* whatever is fed, refused, reset or built afterwards, until Init replaces the
\* CoreParser below it: only then can CreateSyntaxTree throw for a position
\* outside the stream (Parse, ConstructTree, Reset).
Within(inner, outer) ==
  outer.start <= inner.start /\ inner.start <= inner.end /\ inner.end <= outer.end
FitsIn(tree, length) ==
  /\ tree[1].end <= length
  /\ \A n \in DOMAIN tree \ {1} :
       tree[n].parent \in 1..n - 1 /\ Within(tree[n], tree[tree[n].parent])
TreeFits == FitsIn(parse_tree, Len(stream))
TreeFitsUntilInit ==
  [][TreeFits => TreeFits' \/ InstanceInit(machine')]_instance_vars
=============================================================================
