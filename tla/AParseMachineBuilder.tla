------------------------- MODULE AParseMachineBuilder --------------------------
(***************************************************************************)
(* src/v2/aparse_machine_builder: from a grammar to its AParseMachine.      *)
(*                                                                          *)
(* NFABuilder builds the NFA of one non-terminal from those it depends on,  *)
(* Thompson style but without epsilon edges.  Its mutable state is the      *)
(* record b:                                                                *)
(*   edges[source][alphabet][target]     parsing stream                     *)
(*   local_incoming_edges[target][alphabet]   set of sources                *)
(*   state_number_counter, nfa_instance_map   shared by all builders        *)
(* and a SubNFA is b with the fields start_state and final_states (map from *)
(* state to stream).  The context c has what a builder only reads: rules,   *)
(* nfa_map, and `low`, which of two orders the code's unordered containers  *)
(* are walked in where the result depends on it.                            *)
(***************************************************************************)
EXTENDS InternalAParseGrammar, AParseMachine, TLC

Entry(f, k) == IF k \in DOMAIN f THEN f[k] ELSE EmptyMap

\* Maps of maps: the entries of g added to those of f, replacing them.
Overlay(f, g) == [a \in DOMAIN f \cup DOMAIN g |-> Entry(g, a) @@ Entry(f, a)]

Local(n) == [path |-> << >>, number |-> n]
IsLocal(s) == s.path = << >>

-------------------------------------------------------------------------------
(* Edges *)

\* The edges of s in this NFA, overlaid by those of the NFAs on its path.
GetOutgoingEdges(c, b, s) ==
  LET at[k \in 0..Len(s.path)] ==
        IF k = 0 THEN Entry(b.edges, s)
        ELSE LET inner == Entry(c.nfa_map[s.path[k][1]].edges, GetSuffix(s, k))
                 prefix == SubSeq(s.path, 1, k)
             IN Overlay(at[k - 1],
                  [a \in DOMAIN inner |->
                     [t \in {AddPrefix(u, prefix) : u \in DOMAIN inner[a]} |->
                        inner[a][GetSuffix(t, k)]]])
  IN at[Len(s.path)]

\* local_incoming_edges: the sources of t on a, and the map with more of them.
Sources(incoming, t, a) ==
  IF t \in DOMAIN incoming /\ a \in DOMAIN incoming[t] THEN incoming[t][a] ELSE {}

InsertSources(incoming, t, more) ==
  Put(incoming, t, [a \in DOMAIN Entry(incoming, t) \cup DOMAIN more |->
                      Sources(incoming, t, a) \cup Sources(t :> more, t, a)])

RECURSIVE InsertAll(_, _, _)
InsertAll(incoming, targets, more) ==
  IF targets = {} THEN incoming
  ELSE LET t == CHOOSE t \in targets : TRUE
       IN InsertAll(InsertSources(incoming, t, more[t]), targets \ {t}, more)

\* Gives `to` the edges out, with ps in front of their streams.
AddOutgoing(b, out, ps, to) ==
  LET added == [a \in DOMAIN out |-> [t \in DOMAIN out[a] |-> ps \o out[a][t]]]
      targets == {t \in UNION {DOMAIN out[a] : a \in DOMAIN out} : IsLocal(t)}
      more == [t \in targets |-> [a \in {a \in DOMAIN out : t \in DOMAIN out[a]} |-> {to}]]
  IN [b EXCEPT !.edges = Put(@, to, Overlay(Entry(@, to), added)),
               !.local_incoming_edges = InsertAll(@, targets, more)]

\* Gives `to` every edge of `from`.
AddEdges(c, b, from, ps, to) == AddOutgoing(b, GetOutgoingEdges(c, b, from), ps, to)

\* One AddEdges for every final state of the map finals.
RECURSIVE AddEdgesFromAll(_, _, _, _, _)
AddEdgesFromAll(c, b, from, finals, left) ==
  IF left = {} THEN b
  ELSE LET fs == IF from \in left /\ (c.low \/ left = {from}) THEN from
                 ELSE CHOOSE s \in left \ {from} : TRUE
       IN AddEdgesFromAll(c, AddEdges(c, b, from, finals[fs], fs), from, finals,
                          left \ {fs})

-------------------------------------------------------------------------------
(* Sub-NFAs *)

WithSub(b, start, finals) == [b EXCEPT !.start_state = start, !.final_states = finals]

Fresh(b) == Local(b.state_number_counter)
Count(b, n) == [b EXCEPT !.state_number_counter = @ + n]

BuildEpsilonSubNFA(b) == WithSub(Count(b, 1), Fresh(b), Fresh(b) :> << >>)

BuildTerminalSubNFA(b, a) ==
  LET s == Fresh(b)
      f == Fresh(Count(b, 1))
  IN [WithSub(Count(b, 2), s, f :> << >>) EXCEPT
        !.edges = Put(@, s, a :> (f :> << >>)),
        !.local_incoming_edges = Put(@, f, a :> {s})]

GetNFAInstance(c, b, nt) ==
  LET id == IF nt \in DOMAIN b.nfa_instance_map THEN b.nfa_instance_map[nt] ELSE 0
      nfa == c.nfa_map[nt]
      prefix == << <<nt, id>> >>
  IN [WithSub(b, AddPrefix(nfa.start_state, prefix),
              [s \in {AddPrefix(u, prefix) : u \in DOMAIN nfa.final_states} |->
                 nfa.final_states[GetSuffix(s, 1)]])
      EXCEPT !.nfa_instance_map = Put(@, nt, id + 1)]

\* A start state inside an instance gets a local one in front of it.
WithLocalStart(c, b) ==
  LET old == b.start_state
      ps == IF old \in DOMAIN b.final_states THEN b.final_states[old] ELSE << >>
  IN IF IsLocal(old) THEN b
     ELSE [AddEdges(c, Count(b, 1), old, ps, Fresh(b)) EXCEPT !.start_state = Fresh(b)]

\* START on the edges of the start state, END on the final states.
Opened(stream, label) == << <<"START", label>> >> \o stream

MarkStart(b, label) ==
  [b EXCEPT !.edges = [s \in DOMAIN @ |->
                         IF s # b.start_state THEN @[s]
                         ELSE [a \in DOMAIN @[s] |->
                                 [t \in DOMAIN @[s][a] |-> Opened(@[s][a][t], label)]]]]

MarkFinals(b, label) ==
  [b EXCEPT !.final_states = [s \in DOMAIN @ |-> Append(@[s], <<"END", label>>)]]

\* Mutant: START goes on the edges only, not on a start state that is final.
WrapWithoutFinalStart(c, b, label) ==
  MarkStart(MarkFinals(WithLocalStart(c, b), label), label)

MarkFinalStart(b, label) ==
  [b EXCEPT !.final_states =
     [s \in DOMAIN @ |-> IF s = b.start_state THEN Opened(@[s], label) ELSE @[s]]]

\* A labelled regex becomes a child in the parse tree.  The stream of a final
\* start state goes in front of the edges copied to the new start state.
WrapWithParsingStream(c, b, label) ==
  MarkFinalStart(MarkStart(MarkFinals(WithLocalStart(c, b), label), label), label)

\* Final state fs is replaced by fs0, whose stream is ps, in the edges into it.
MergeInto(b, fs0, ps, fs) ==
  LET incoming == b.local_incoming_edges
      redirect(targets) == (fs0 :> ps) @@ [t \in DOMAIN targets \ {fs} |-> targets[t]]
  IN [b EXCEPT
        !.edges = [s \in DOMAIN @ |->
                     [a \in DOMAIN @[s] |->
                        IF s \in Sources(incoming, fs, a) THEN redirect(@[s][a])
                        ELSE @[s][a]]],
        !.local_incoming_edges =
           IF fs \notin DOMAIN @ THEN @
           ELSE InsertSources([t \in DOMAIN @ \ {fs} |-> @[t]], fs0, incoming[fs]),
        !.final_states = [s \in DOMAIN @ \ {fs} |-> @[s]]]

\* The local final states with no edges out, one kept for each stream.
RECURSIVE MergeFinals(_, _, _)
MergeFinals(c, b, candidates) ==
  LET same(s) == {t \in candidates : b.final_states[t] = b.final_states[s]}
      first(S) == CHOOSE s \in S : \A t \in S :
                    IF c.low THEN s.number <= t.number ELSE s.number >= t.number
      s == CHOOSE s \in candidates : Cardinality(same(s)) > 1
      fs0 == first(same(s))
      fs == CHOOSE t \in same(s) : t # fs0
  IN IF \A t \in candidates : Cardinality(same(t)) <= 1 THEN b
     ELSE MergeFinals(c, MergeInto(b, fs0, b.final_states[fs0], fs), candidates \ {fs})

MergeEquivalentFinalState(c, b) ==
  MergeFinals(c, b, {s \in DOMAIN b.final_states : IsLocal(s) /\ s \notin DOMAIN b.edges})

RECURSIVE BuildSubNFA(_, _, _), UnionChildren(_, _, _, _), ConcatChildren(_, _, _, _)

\* The NFA n of one more alternative: its start state's edges leave start too,
\* and only the first alternative whose start state is final makes start final.
AddAlternative(c, n, previous_final_states, start, is_start_state_also_final) ==
  LET finals == previous_final_states @@ n.final_states
  IN [AddEdges(c, n, n.start_state, << >>, start) EXCEPT
        !.final_states =
          IF n.start_state \in DOMAIN n.final_states /\ ~is_start_state_also_final
          THEN Put(finals, start, n.final_states[n.start_state]) ELSE finals]

\* b.final_states are those of the children so far.
UnionChildren(c, b, start, children) ==
  IF children = << >> THEN WithSub(b, start, b.final_states)
  ELSE UnionChildren(c,
         AddAlternative(c, BuildSubNFA(c, b, Head(children)), b.final_states, start,
                        start \in DOMAIN b.final_states),
         start, Tail(children))

BuildUnionSubNFA(c, b, r) ==
  MergeEquivalentFinalState(c,
    UnionChildren(c, [Count(b, 1) EXCEPT !.final_states = EmptyMap], Fresh(b),
                  r.children))

\* Mutant: a nullable part ends what came before it.
AddPartWithoutSkipping(c, n, before) ==
  WithSub(AddEdgesFromAll(c, n, n.start_state, before.final_states,
                          DOMAIN before.final_states),
          before.start_state, n.final_states)

\* The NFA n of one more part of a concatenation, after the parts `before`.
AddPart(c, n, before) ==
  LET previous_final_states == before.final_states
      skipped == [s \in DOMAIN previous_final_states |->
                    previous_final_states[s] \o n.final_states[n.start_state]]
  IN WithSub(AddEdgesFromAll(c, n, n.start_state, previous_final_states,
                             DOMAIN previous_final_states),
             before.start_state,
             IF n.start_state \in DOMAIN n.final_states
             THEN skipped @@ n.final_states ELSE n.final_states)

\* b: the sub-NFA of the children before children[i].
ConcatChildren(c, b, children, i) ==
  IF i > Len(children) THEN b
  ELSE ConcatChildren(c,
         IF i = 1 THEN BuildSubNFA(c, b, children[1])
         ELSE AddPart(c, BuildSubNFA(c, b, children[i]), b),
         children, i + 1)

\* Mutant: the start state is final whatever the type.
RepeatBoth(c, n, type, start) ==
  WithSub(AddEdges(c, AddEdgesFromAll(c, n, n.start_state, n.final_states,
                                      DOMAIN n.final_states),
                   n.start_state, << >>, start),
          start, n.final_states @@ (start :> << >>))

\* The final states of n go back to its start state, whose edges leave start too.
Repeat(c, n, type, start) ==
  WithSub(AddEdges(c, AddEdgesFromAll(c, n, n.start_state, n.final_states,
                                      DOMAIN n.final_states),
                   n.start_state, << >>, start),
          start,
          IF type = "KSTAR" THEN n.final_states @@ (start :> << >>)
          ELSE IF n.start_state \in DOMAIN n.final_states
          THEN Put(n.final_states, start, n.final_states[n.start_state])
          ELSE n.final_states)

BuildKstarKPlusSubNFA(c, b, r) ==
  Repeat(c, BuildSubNFA(c, Count(b, 1), r.children[1]), r.type, Fresh(b))

BuildAtomicSubNFA(c, b, r) ==
  IF r.alphabet \notin DOMAIN c.rules THEN BuildTerminalSubNFA(b, r.alphabet)
  ELSE IF c.rules[r.alphabet].type = "ATOMIC" THEN BuildSubNFA(c, b, c.rules[r.alphabet])
  ELSE GetNFAInstance(c, b, r.alphabet)

BuildUnlabelled(c, b, r) ==
  CASE r.type = "EPSILON" -> BuildEpsilonSubNFA(b)
    [] r.type = "ATOMIC" -> BuildAtomicSubNFA(c, b, r)
    [] r.type = "UNION" -> BuildUnionSubNFA(c, b, r)
    [] r.type = "CONCAT" -> ConcatChildren(c, [b EXCEPT !.final_states = EmptyMap], r.children, 1)
    [] r.type \in {"KSTAR", "KPLUS"} -> BuildKstarKPlusSubNFA(c, b, r)

BuildSubNFA(c, b, r) ==
  IF r.label = 0 THEN BuildUnlabelled(c, b, r)
  ELSE WrapWithParsingStream(c, BuildUnlabelled(c, b, r), r.label)

-------------------------------------------------------------------------------
(* One NFA *)

\* The states a search from the start state pushes: the local targets of a
\* state, and for a target inside an instance all sources inside it.
RECURSIVE PushedStates(_, _)
PushedStates(b, pushed) ==
  LET targets == UNION {UNION {DOMAIN b.edges[s][a] : a \in DOMAIN b.edges[s]} :
                          s \in pushed \cap DOMAIN b.edges}
      next == pushed \cup {t \in targets : IsLocal(t)}
                     \cup {s \in DOMAIN b.edges :
                             /\ ~IsLocal(s)
                             /\ \E t \in targets : ~IsLocal(t) /\ t.path[1] = s.path[1]}
  IN IF next = pushed THEN pushed ELSE PushedStates(b, next)

RemoveUnreachableStates(b) ==
  LET to_delete == DOMAIN b.edges \ PushedStates(b, {b.start_state})
  IN [b EXCEPT !.edges = [s \in DOMAIN @ \ to_delete |-> @[s]],
               !.final_states = [s \in DOMAIN @ \ to_delete |-> @[s]]]

NewBuilder(counter, instances) ==
  [edges |-> EmptyMap, local_incoming_edges |-> EmptyMap,
   state_number_counter |-> counter, nfa_instance_map |-> instances,
   start_state |-> Local(0), final_states |-> EmptyMap]

Build(c, counter, instances, regex) ==
  RemoveUnreachableStates(BuildSubNFA(c, NewBuilder(counter, instances), regex))

-------------------------------------------------------------------------------
(* The machine *)

\* k: [nfa_map, counter, instances], the members the loops of BuildNFAs update.
Built(k, nt, b) ==
  [nfa_map |-> Put(k.nfa_map, nt, b),
   counter |-> b.state_number_counter, instances |-> b.nfa_instance_map]

BuildOne(ig, low, k, nt, regex) ==
  Built(k, nt, Build([rules |-> ig.rules, nfa_map |-> k.nfa_map, low |-> low],
                     k.counter, k.instances, regex))

RECURSIVE BuildNonTerminals(_, _, _, _), BuildEnts(_, _, _, _)

BuildNonTerminals(ig, low, k, nts) ==
  IF nts = << >> THEN k
  ELSE LET nt == Head(nts)
           needed == nt = ig.main_non_terminal \/ ig.rules[nt].type # "ATOMIC"
       IN BuildNonTerminals(ig, low,
            IF needed THEN BuildOne(ig, low, k, nt, ig.rules[nt]) ELSE k, Tail(nts))

BuildEnts(ig, low, k, ents) ==
  IF ents = {} THEN k
  ELSE LET ent == Pick(ents, low)
       IN BuildEnts(ig, low, BuildOne(ig, low, k, ent, ig.enclosed_rules[ent]),
                    ents \ {ent})

BuildNFAs(ig, low) ==
  BuildEnts(ig, low,
    BuildNonTerminals(ig, low, [nfa_map |-> EmptyMap, counter |-> 0, instances |-> EmptyMap],
                      ig.topological_sorted_non_terminals),
    DOMAIN ig.enclosed_rules).nfa_map

\* regex_label_to_original_rule_number_mapping: label n is rule n - 1.
ExportParsingStreamMap(f) ==
  [t \in DOMAIN f |-> [i \in DOMAIN f[t] |-> <<f[t][i][1], f[t][i][2] - 1>>]]

\* Mutant: a final state pops on the opening alphabet of its ent.
SpecialEdgesOnOpening(ig, nt, nfa) ==
  LET ents == DOMAIN ig.enclosed_rules
      opening(e) == ig.enclosed_ba_alphabet[e]
      push(s) == IF s \in DOMAIN nfa.edges THEN DOMAIN nfa.edges[s] \cap ents ELSE {}
      pop(s) == IF nt \in ents /\ s \in DOMAIN nfa.final_states THEN {nt} ELSE {}
      sources == {s \in DOMAIN nfa.edges \cup DOMAIN nfa.final_states :
                    push(s) \cup pop(s) # {}}
  IN [s \in sources |->
        [a \in {opening(e) : e \in push(s) \cup pop(s)} |->
           [e \in {e \in push(s) \cup pop(s) : opening(e) = a} |->
              IF e \in pop(s)
              THEN [type |-> "POP", targets |-> EmptyMap]
              ELSE [type |-> "PUSH", targets |-> ExportParsingStreamMap(nfa.edges[s][e])]]]]

\* The special edges of the NFA of nt: an edge on an ent becomes a PUSH on its
\* opening alphabet, and a final state of an ent's own NFA pops on the closing.
SpecialEdgesOf(ig, nt, nfa) ==
  LET ents == DOMAIN ig.enclosed_rules
      opening(e) == ig.enclosed_ba_alphabet[e]
      closing(e) == ig.ba_map[opening(e)]
      push(s) == IF s \in DOMAIN nfa.edges THEN DOMAIN nfa.edges[s] \cap ents ELSE {}
      pop(s) == IF nt \in ents /\ s \in DOMAIN nfa.final_states THEN {nt} ELSE {}
      sources == {s \in DOMAIN nfa.edges \cup DOMAIN nfa.final_states :
                    push(s) \cup pop(s) # {}}
  IN [s \in sources |->
        [a \in {opening(e) : e \in push(s)} \cup {closing(e) : e \in pop(s)} |->
           [e \in {e \in push(s) : opening(e) = a} \cup {e \in pop(s) : closing(e) = a} |->
              IF e \in pop(s) /\ closing(e) = a
              THEN [type |-> "POP", targets |-> EmptyMap]
              ELSE [type |-> "PUSH", targets |-> ExportParsingStreamMap(nfa.edges[s][e])]]]]

ExportOutgoingEdges(ig, edges) ==
  LET alphabets(s) == DOMAIN edges[s] \ DOMAIN ig.enclosed_rules
  IN [s \in {s \in DOMAIN edges : alphabets(s) # {}} |->
        [a \in alphabets(s) |-> ExportParsingStreamMap(edges[s][a])]]

ExportToAParseMachine(ig, nfa_map) ==
  LET special(nt) == SpecialEdgesOf(ig, nt, nfa_map[nt])
      tops == {ig.main_non_terminal} \cup DOMAIN ig.enclosed_rules
      states(nt) == DOMAIN nfa_map[nt].edges \cup DOMAIN special(nt)
      main == nfa_map[ig.main_non_terminal]
  IN [nfa_map |-> [nt \in DOMAIN nfa_map |->
                     [edges |-> ExportOutgoingEdges(ig, nfa_map[nt].edges),
                      special_edges |-> special(nt)]],
      start_state |-> main.start_state,
      final_states |-> ExportParsingStreamMap(main.final_states),
      nfa_lookup_map |-> [s \in UNION {states(nt) : nt \in tops} |->
                            CHOOSE nt \in tops : s \in states(nt)],
      enclosed_subnfa_map |->
        [e \in DOMAIN ig.enclosed_rules |->
           [start_state |-> nfa_map[e].start_state,
            final_states |-> ExportParsingStreamMap(nfa_map[e].final_states)]]]

MachineFrom(ig, low) == ExportToAParseMachine(ig, BuildNFAs(ig, low))

\* AParseMachineBuilder::Build.
MachineOf(g, low) == MachineFrom(InternalGrammar(g, low), low)
================================================================================
