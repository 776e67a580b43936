---------------------------- MODULE AParseMachine ----------------------------
(***************************************************************************)
(* The lookup tables of src/v2/aparse_machine and the queries CoreParser    *)
(* makes on them.                                                           *)
(*                                                                          *)
(* An NFAState is a number and the path of (non-terminal, instance) pairs   *)
(* that leads to the NFA the number is local to: the NFA of a non-terminal  *)
(* is stored once and every use of it is an instance of that copy.  So the  *)
(* edges that leave a state are found at several depths: whole, in the NFA  *)
(* nfa_lookup_map names, and with its first k path elements stripped, in    *)
(* the NFA of the k-th element.  A target found at depth k gets the first k *)
(* elements of the source's path back.                                      *)
(*                                                                          *)
(* A machine is a record whose fields are those of the C++ struct; a map is *)
(* a function, and the map of a map keeps its nesting, so that DOMAIN is    *)
(* the code's ContainsKey:                                                  *)
(*   nfa_map[nt].edges[source][alphabet][target]      a parsing stream      *)
(*   nfa_map[nt].special_edges[source][alphabet][ent] [type, targets]       *)
(***************************************************************************)
EXTENDS Integers, Sequences, FiniteSets

\* Maps: the empty one, and f with one more (or a new) entry.
EmptyMap == [x \in {} |-> << >>]
Put(f, k, v) == [x \in DOMAIN f \cup {k} |-> IF x = k THEN v ELSE f[x]]

NFAState == [path : Seq(Nat \X Nat), number : Nat]

\* The markers a parsing stream is made of: a child of the parse tree opens or
\* closes; a marker carries the number of the rule the child is made from.
Marker == {"START", "END"} \X Nat
ParsingStream == Seq(Marker)

StackOperationType == {"PUSH", "POP", "NOP"}

GetSuffix(s, k) == [path |-> SubSeq(s.path, k + 1, Len(s.path)), number |-> s.number]

AddPrefix(s, prefix) == [path |-> prefix \o s.path, number |-> s.number]

AddPrefixFromOther(t, s, k) == AddPrefix(t, SubSeq(s.path, 1, k))

IsFinalState(m, s) == s \in DOMAIN m.final_states

\* The depths at which state s can have an entry: 0 needs nfa_lookup_map.
Depths(m, s) == {k \in 0..Len(s.path) : k = 0 => s \in DOMAIN m.nfa_lookup_map}

NFAAt(m, s, k) == m.nfa_map[IF k = 0 THEN m.nfa_lookup_map[s] ELSE s.path[k][1]]

\* The depths of s that have edges on alphabet a, and the targets at one.
EdgeDepths(m, s, a) ==
  {k \in Depths(m, s) : /\ GetSuffix(s, k) \in DOMAIN NFAAt(m, s, k).edges
                        /\ a \in DOMAIN NFAAt(m, s, k).edges[GetSuffix(s, k)]}

EdgeTargets(m, s, a, k) == NFAAt(m, s, k).edges[GetSuffix(s, k)][a]

\* Mutant: special edges are looked for in the NFA of nfa_lookup_map only.
SpecialDepthsOutermost(m, s, a) ==
  {k \in Depths(m, s) :
     /\ k = 0
     /\ s \in DOMAIN NFAAt(m, s, k).special_edges
     /\ a \in DOMAIN NFAAt(m, s, k).special_edges[s]}

SpecialDepths(m, s, a) ==
  {k \in Depths(m, s) :
     /\ GetSuffix(s, k) \in DOMAIN NFAAt(m, s, k).special_edges
     /\ a \in DOMAIN NFAAt(m, s, k).special_edges[GetSuffix(s, k)]}

SpecialEdges(m, s, a, k) == NFAAt(m, s, k).special_edges[GetSuffix(s, k)][a]

GetNextStates(m, s, a) ==
  UNION {{AddPrefixFromOther(t, s, k) : t \in DOMAIN EdgeTargets(m, s, a, k)} :
           k \in EdgeDepths(m, s, a)}

\* A stack operation is a pair <<type, enclosed non-terminal>>.
GetNextStackOps(m, s, a) ==
  UNION {{<<SpecialEdges(m, s, a, k)[e].type, e>> :
            e \in DOMAIN SpecialEdges(m, s, a, k)} : k \in SpecialDepths(m, s, a)}

\* The depths of s whose special edges on a have enclosed non-terminal e.
EntDepths(m, s, a, e) ==
  {k \in SpecialDepths(m, s, a) : e \in DOMAIN SpecialEdges(m, s, a, k)}

GetSpecialNextStates(m, s, a, e) ==
  UNION {{AddPrefixFromOther(t, s, k) :
            t \in DOMAIN SpecialEdges(m, s, a, k)[e].targets} :
           k \in EntDepths(m, s, a, e)}

Least(S) == CHOOSE k \in S : \A j \in S : k <= j

\* The stream of the first depth that knows the target; nothing is written to
\* the caller's (empty) stream when no depth does.
GetParsingStream(m, s, a, t) ==
  LET hits == {k \in EdgeDepths(m, s, a) :
                 k <= Len(t.path) /\ GetSuffix(t, k) \in DOMAIN EdgeTargets(m, s, a, k)}
      k == Least(hits)
  IN IF hits = {} THEN << >> ELSE EdgeTargets(m, s, a, k)[GetSuffix(t, k)]

GetSpecialParsingStream(m, s, a, e, t) ==
  LET hits == {k \in EntDepths(m, s, a, e) :
                 /\ k <= Len(t.path)
                 /\ GetSuffix(t, k) \in DOMAIN SpecialEdges(m, s, a, k)[e].targets}
      k == Least(hits)
  IN IF hits = {} THEN << >> ELSE SpecialEdges(m, s, a, k)[e].targets[GetSuffix(t, k)]

\* The keys of every outgoing map, special or not, at every depth.
StateAlphabets(m, s) ==
  UNION {LET nfa == NFAAt(m, s, k)
             t == GetSuffix(s, k)
         IN (IF t \in DOMAIN nfa.edges THEN DOMAIN nfa.edges[t] ELSE {})
            \cup (IF t \in DOMAIN nfa.special_edges
                  THEN DOMAIN nfa.special_edges[t] ELSE {}) : k \in Depths(m, s)}
-----------------------------------------------------------------------------
(* What every machine the builder makes promises its parser.  R maps each     *)
(* state a parser can be in to its region: the enclosed non-terminal whose    *)
(* NFA the state belongs to, or MainRegion.                                   *)

MainRegion == -1

\* Edges stay in their region; an opening alphabet leads into an enclosed NFA
\* and has a way to go on after it; only the final states of an enclosed NFA
\* pop, and only that ent; an alphabet opens, closes or does neither, everywhere;
\* a parse ends in the main NFA.
RegionsAreApart(m, R, alphabets) ==
  LET ents == DOMAIN m.enclosed_subnfa_map
      states == DOMAIN R
  IN /\ states \subseteq NFAState
     /\ MainRegion \notin ents
     /\ m.start_state \in states /\ R[m.start_state] = MainRegion
     /\ \A e \in ents : LET start == m.enclosed_subnfa_map[e].start_state
                        IN start \in states /\ R[start] = e
     /\ \A s \in states, a \in alphabets :
          /\ \A t \in GetNextStates(m, s, a) : t \in states /\ R[t] = R[s]
          /\ \A e \in ents : \A t \in GetSpecialNextStates(m, s, a, e) :
               t \in states /\ R[t] = R[s]
          /\ \A op \in GetNextStackOps(m, s, a) :
               /\ op[2] \in ents
               /\ \/ op[1] = "PUSH" /\ GetSpecialNextStates(m, s, a, op[2]) # {}
                  \/ /\ op[1] = "POP" /\ R[s] = op[2]
                     /\ s \in DOMAIN m.enclosed_subnfa_map[op[2]].final_states
     /\ \A s, t \in states, a \in alphabets :
          /\ \A p \in GetNextStackOps(m, s, a), q \in GetNextStackOps(m, t, a) : p[1] = q[1]
          /\ GetNextStackOps(m, s, a) # {} => GetNextStates(m, t, a) = {}
     /\ \A s \in states : IsFinalState(m, s) => R[s] = MainRegion

\* What the tables hold for final states and for targets are parsing streams.
StreamsAreThere(m, R, alphabets) ==
  LET ents == DOMAIN m.enclosed_subnfa_map
      AreStreams(targets) ==
        \A t \in DOMAIN targets : t \in NFAState /\ targets[t] \in ParsingStream
  IN /\ AreStreams(m.final_states)
     /\ \A e \in ents : AreStreams(m.enclosed_subnfa_map[e].final_states)
     /\ \A s \in DOMAIN R, a \in alphabets :
          /\ \A k \in EdgeDepths(m, s, a) : AreStreams(EdgeTargets(m, s, a, k))
          /\ \A k \in SpecialDepths(m, s, a) : \A e \in DOMAIN SpecialEdges(m, s, a, k) :
               AreStreams(SpecialEdges(m, s, a, k)[e].targets)

\* No entry of a table is empty: what a state lists leads on, along an edge or by an
\* operation.
EntriesLeadOn(m, R, alphabets) ==
  \A s \in DOMAIN R : \A a \in StateAlphabets(m, s) :
    a \in alphabets /\ (GetNextStates(m, s, a) # {} \/ GetNextStackOps(m, s, a) # {})

WellFormed(m, R, alphabets) ==
  /\ RegionsAreApart(m, R, alphabets)
  /\ StreamsAreThere(m, R, alphabets)
  /\ EntriesLeadOn(m, R, alphabets)

\* How many nodes more are open after the first j markers than before.
Height(parsing_stream, j) ==
  LET marked(kind) == {i \in 1..j : parsing_stream[i][1] = kind}
  IN Cardinality(marked("START")) - Cardinality(marked("END"))

\* From so many open nodes to so many, with none closed that was not open.
Climbs(parsing_stream, from, to) ==
  /\ \A j \in 1..Len(parsing_stream) : from + Height(parsing_stream, j) >= 0
  /\ from + Height(parsing_stream, Len(parsing_stream)) = to

\* D[s] nodes are open in state s, not counting those outside the bracket it is in,
\* and every stream leads from the depth of one state to that of the next; all nodes
\* are closed at the end, and there is one.  Not so when a final state stands for
\* several that close different nodes (MergeEquivalentFinalState).
StreamsNest(m, R, D, alphabets) ==
  LET ents == m.enclosed_subnfa_map
  IN /\ \A s \in DOMAIN R : D[s] \in Nat
     /\ D[m.start_state] = 0
     /\ \A e \in DOMAIN ents : D[ents[e].start_state] = 0
     /\ \A s \in DOMAIN R, a \in alphabets :
          /\ \A t \in GetNextStates(m, s, a) :
               Climbs(GetParsingStream(m, s, a, t), D[s], D[t])
          /\ \A e \in DOMAIN ents : \A t \in GetSpecialNextStates(m, s, a, e) :
               Climbs(GetSpecialParsingStream(m, s, a, e, t), D[s], D[t])
     /\ \A s \in DOMAIN R :
          IsFinalState(m, s) =>
            Climbs(m.final_states[s], D[s], 0) /\ (D[s] # 0 \/ m.final_states[s] # << >>)
     /\ \A s \in DOMAIN R : \A e \in DOMAIN ents :
          R[s] = e /\ s \in DOMAIN ents[e].final_states =>
            Climbs(ents[e].final_states[s], D[s], 0)
=============================================================================
