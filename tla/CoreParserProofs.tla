---------------------------- MODULE CoreParserProofs ----------------------------
(***************************************************************************)
(* What holds of CoreParser for every set of machines, alphabet and stream  *)
(* length.  The proofs use of a machine only that it is WellFormed.         *)
(***************************************************************************)
EXTENDS CoreParserRegions, TLAPS, FiniteSetTheorems, SequenceTheorems

\* A map that an unordered walk over pairs leaves has exactly the keys of the
\* pairs, and each of its entries is one of the pairs.
LEMMA SelectionsProperties ==
  ASSUME NEW R, NEW f \in Selections(R)
  PROVE  /\ DOMAIN f = {p[1] : p \in R}
         /\ \A k \in DOMAIN f : <<k, f[k]>> \in R
<1> DEFINE keys == {p[1] : p \in R}
           open == {k \in keys : ~HasOneValue(R, k)}
           choices == {g \in [open -> {p[2] : p \in R}] : \A k \in open : <<k, g[k]>> \in R}
<1>1. PICK g \in choices : f = [k \in keys |-> IF k \in open THEN g[k] ELSE AValue(R, k)]
  BY DEF Selections
<1>2. ASSUME NEW k \in keys, HasOneValue(R, k)
      PROVE  <<k, AValue(R, k)>> \in R
  <2>1. \E v \in {p[2] : p \in R} : <<k, v>> \in R
    BY <1>2 DEF HasOneValue
  <2> QED
    BY <2>1, Zenon DEF AValue
<1> QED
  BY <1>1, <1>2

\* Edges lead to states of the same region.
LEMMA NextStatesStay ==
  ASSUME NEW m \in Machines, NEW s \in DOMAIN Region[m], NEW a \in Alphabets
  PROVE  /\ \A t \in GetNextStates(m, s, a) :
              t \in DOMAIN Region[m] /\ Region[m][t] = Region[m][s]
         /\ \A e \in DOMAIN m.enclosed_subnfa_map : \A t \in GetSpecialNextStates(m, s, a, e) :
              t \in DOMAIN Region[m] /\ Region[m][t] = Region[m][s]
BY MachinesAreWellFormed DEF WellFormed, RegionsAreApart

\* A stack operation of a state is on an ent; a push can go on after the
\* bracket, a pop leaves the region of its ent.
LEMMA StackOpsProperties ==
  ASSUME NEW m \in Machines, NEW s \in DOMAIN Region[m], NEW a \in Alphabets,
         NEW op \in GetNextStackOps(m, s, a)
  PROVE  /\ op = <<op[1], op[2]>>
         /\ op[2] \in DOMAIN m.enclosed_subnfa_map
         /\ \/ op[1] = "PUSH" /\ GetSpecialNextStates(m, s, a, op[2]) # {}
            \/ /\ op[1] = "POP" /\ Region[m][s] = op[2]
               /\ s \in DOMAIN m.enclosed_subnfa_map[op[2]].final_states
<1>1. op = <<op[1], op[2]>>
  BY DEF GetNextStackOps
<1> QED
  BY <1>1, MachinesAreWellFormed DEF WellFormed, RegionsAreApart

\* All stack operations on an alphabet have one type.
LEMMA StackOpsAgree ==
  ASSUME NEW m \in Machines, NEW s \in DOMAIN Region[m], NEW t \in DOMAIN Region[m],
         NEW a \in Alphabets,
         NEW p \in GetNextStackOps(m, s, a), NEW q \in GetNextStackOps(m, t, a)
  PROVE  p[1] = q[1]
BY MachinesAreWellFormed DEF WellFormed, RegionsAreApart

\* A way on after the bracket that b opens is there only where b opens one.
LEMMA WayOnOpens ==
  ASSUME NEW m \in Machines, NEW q \in DOMAIN Region[m], NEW b \in Alphabets, NEW e,
         GetSpecialNextStates(m, q, b, e) # {},
         NEW s \in DOMAIN Region[m], NEW op \in GetNextStackOps(m, s, b), op[1] = "PUSH"
  PROVE  <<"PUSH", e>> \in GetNextStackOps(m, q, b)
<1>1. PICK k \in SpecialDepths(m, q, b) : e \in DOMAIN SpecialEdges(m, q, b, k)
  BY DEF GetSpecialNextStates, EntDepths
<1>2. <<SpecialEdges(m, q, b, k)[e].type, e>> \in GetNextStackOps(m, q, b)
  BY <1>1 DEF GetNextStackOps
<1>3. <<SpecialEdges(m, q, b, k)[e].type, e>>[1] = "PUSH"
  BY <1>2, StackOpsAgree
<1> QED
  BY <1>2, <1>3

\* The starting points of a parser and of a bracket.
LEMMA StartStates ==
  ASSUME NEW m \in Machines
  PROVE  /\ m.start_state \in DOMAIN Region[m]
         /\ Region[m][m.start_state] = MainRegion
         /\ MainRegion \notin DOMAIN m.enclosed_subnfa_map
         /\ \A e \in DOMAIN m.enclosed_subnfa_map :
              /\ m.enclosed_subnfa_map[e].start_state \in DOMAIN Region[m]
              /\ Region[m][m.enclosed_subnfa_map[e].start_state] = e
BY MachinesAreWellFormed DEF WellFormed, RegionsAreApart

-------------------------------------------------------------------------------

\* A parser that begins with a machine satisfies the invariant.
LEMMA ClearedInv ==
  ASSUME machine' \in Machines, nfa_states' = {machine'.start_state}, Cleared
  PROVE  IInv'
<1>1. TypeOK'
  BY StartStates DEF TypeOK, Cleared, States, Frame
<1>2. RecordsMatchStream'
  <2>1. FeedsOf("PUSH")' = {} /\ FeedsOf("POP")' = {} /\ FeedsOf("NOP")' = {}
    BY DEF Cleared, FeedsOf
  <2> QED
    BY <2>1, FS_EmptySet DEF RecordsMatchStream, Cleared, EmptyMap, FeedsOf
<1>3. RegionsNest'
  BY StartStates DEF RegionsNest, Cleared, Level
<1> QED
  BY <1>1, <1>2, <1>3 DEF IInv

\* The feeds of a type are finitely many.
LEMMA FiniteFeeds ==
  ASSUME stack_op_list \in Seq(StackOperationType), NEW type
  PROVE  IsFiniteSet(FeedsOf(type)) /\ Cardinality(FeedsOf(type)) \in Nat
<1>1. FeedsOf(type) \subseteq 1..Len(stack_op_list) /\ Len(stack_op_list) \in Nat
  BY DEF FeedsOf
<1>2. IsFiniteSet(1..Len(stack_op_list))
  BY <1>1, FS_Interval
<1> QED
  BY <1>1, <1>2, FS_Subset, FS_CardinalityType

\* What recording one more feed does to the feeds of each type.
LEMMA RecordedFeeds ==
  ASSUME TypeOK, RecordsMatchStream,
         NEW a \in Alphabets, NEW type \in StackOperationType, Record(a, type)
  PROVE  /\ stream' \in Seq(Alphabets) /\ Len(stream') = Len(stream) + 1
         /\ stack_op_list' \in Seq(StackOperationType)
         /\ Len(stack_op_list') = Len(stream')
         /\ FeedsOf(type)' = FeedsOf(type) \cup {Len(stream) + 1}
         /\ Cardinality(FeedsOf(type)') = Cardinality(FeedsOf(type)) + 1
         /\ \A other \in StackOperationType \ {type} : FeedsOf(other)' = FeedsOf(other)
<1> USE DEF TypeOK, RecordsMatchStream
<1>1. /\ stream' = Append(stream, a)
      /\ stack_op_list' = Append(stack_op_list, type)
  BY DEF Record
<1>2. /\ stream' \in Seq(Alphabets) /\ Len(stream') = Len(stream) + 1
      /\ stack_op_list' \in Seq(StackOperationType)
      /\ Len(stack_op_list') = Len(stream')
      /\ DOMAIN stack_op_list' = DOMAIN stack_op_list \cup {Len(stream) + 1}
      /\ \A i \in DOMAIN stack_op_list : stack_op_list'[i] = stack_op_list[i]
      /\ stack_op_list'[Len(stream) + 1] = type
      /\ Len(stream) + 1 \notin DOMAIN stack_op_list
  BY <1>1
<1>3. /\ FeedsOf(type)' = FeedsOf(type) \cup {Len(stream) + 1}
      /\ \A other \in StackOperationType \ {type} : FeedsOf(other)' = FeedsOf(other)
      /\ Len(stream) + 1 \notin FeedsOf(type)
  BY <1>2 DEF FeedsOf
<1>4. IsFiniteSet(FeedsOf(type))
  BY FiniteFeeds
<1>5. Cardinality(FeedsOf(type)') = Cardinality(FeedsOf(type)) + 1
  BY <1>3, <1>4, FS_AddElement
<1> QED
  BY <1>2, <1>3, <1>5

-------------------------------------------------------------------------------

\* The pairs NextStackOps collects, and the type they were collected for.
LEMMA NextStackOpsProperties ==
  ASSUME machine \in Machines, nfa_states \in SUBSET States, NEW a \in Alphabets,
         NEW type \in {"PUSH", "POP"}, type \in OpTypes(nfa_states, a)
  PROVE  /\ NextStackOps(nfa_states, a) # {}
         /\ \A p \in NextStackOps(nfa_states, a) :
              /\ p = <<p[1], p[2]>>
              /\ p[2] \in nfa_states
              /\ <<type, p[1]>> \in GetNextStackOps(machine, p[2], a)
              /\ p[1] \in DOMAIN machine.enclosed_subnfa_map
<1>1. PICK s \in nfa_states : \E op \in GetNextStackOps(machine, s, a) : op[1] = type
  BY DEF OpTypes
<1>2. PICK op \in GetNextStackOps(machine, s, a) : op[1] = type
  BY <1>1
<1>3. <<op[2], s>> \in NextStackOps(nfa_states, a)
  BY <1>2 DEF NextStackOps
<1>4. ASSUME NEW p \in NextStackOps(nfa_states, a)
      PROVE  /\ p = <<p[1], p[2]>>
             /\ p[2] \in nfa_states
             /\ <<type, p[1]>> \in GetNextStackOps(machine, p[2], a)
             /\ p[1] \in DOMAIN machine.enclosed_subnfa_map
  <2>1. PICK t \in nfa_states : \E o \in GetNextStackOps(machine, t, a) : p = <<o[2], t>>
    BY DEF NextStackOps
  <2> PICK o \in GetNextStackOps(machine, t, a) : p = <<o[2], t>>
    BY <2>1
  <2>2. o[1] = type
    BY <1>2, StackOpsAgree DEF States
  <2>3. o = <<o[1], o[2]>> /\ o[2] \in DOMAIN machine.enclosed_subnfa_map
    BY StackOpsProperties DEF States
  <2> QED
    BY <2>1, <2>2, <2>3
<1> QED
  BY <1>3, <1>4

\* Opening a bracket adds a level of start states of the ents it opens.
LEMMA FeedPushInv ==
  ASSUME IInv, NEW a \in Alphabets, FeedPush(a)
  PROVE  IInv'
<1> DEFINE ops == NextStackOps(nfa_states, a)
           frame == [alphabet |-> a, nfa_states |-> nfa_states]
           start(e) == machine.enclosed_subnfa_map[e].start_state
<1>1. TypeOK /\ RecordsMatchStream /\ RegionsNest
  BY DEF IInv
<1>2. /\ machine' = machine /\ machine \in Machines
      /\ is_valid_path_so_far' = is_valid_path_so_far
      /\ nfa_states' = {start(p[1]) : p \in ops}
      /\ stack' = Append(stack, frame)
      /\ UNCHANGED <<nfa_states_map, pull_op_map>>
      /\ Record(a, "PUSH")
  BY <1>1 DEF FeedPush, Record, TypeOK
<1>3. /\ ops # {}
      /\ \A p \in ops : /\ p[2] \in nfa_states
                        /\ <<"PUSH", p[1]>> \in GetNextStackOps(machine, p[2], a)
                        /\ p[1] \in DOMAIN machine.enclosed_subnfa_map
  BY <1>1, <1>2, NextStackOpsProperties DEF FeedPush, TypeOK
<1>4. \A p \in ops : start(p[1]) \in States /\ Region[machine][start(p[1])] = p[1]
  BY <1>2, <1>3, StartStates DEF States
<1>5. frame \in Frame /\ stack \in Seq(Frame) /\ stack' \in Seq(Frame)
  BY <1>1, <1>2 DEF TypeOK, Frame
<1>6. TypeOK'
  <2>1. stream' \in Seq(Alphabets) /\ stack_op_list' \in Seq(StackOperationType)
    BY <1>1, <1>2, RecordedFeeds DEF StackOperationType
  <2> QED
    BY <1>1, <1>2, <1>4, <1>5, <2>1 DEF TypeOK, States, Frame
<1>7. RecordsMatchStream'
  <2>1. /\ Len(stack_op_list') = Len(stream')
        /\ Cardinality(FeedsOf("PUSH")') = Cardinality(FeedsOf("PUSH")) + 1
        /\ FeedsOf("NOP")' = FeedsOf("NOP")
        /\ FeedsOf("POP")' = FeedsOf("POP")
    BY <1>1, <1>2, RecordedFeeds DEF StackOperationType
  <2>2. /\ Cardinality(FeedsOf("PUSH")) = Len(stack) + Cardinality(FeedsOf("POP"))
        /\ Cardinality(FeedsOf("PUSH")) \in Nat /\ Cardinality(FeedsOf("POP")) \in Nat
    BY <1>1, FiniteFeeds DEF TypeOK, RecordsMatchStream
  <2>3. Len(stack') = Len(stack) + 1 /\ Len(stack) \in Nat
    BY <1>2, <1>5
  <2>4. Cardinality(FeedsOf("PUSH")') = Len(stack') + Cardinality(FeedsOf("POP")')
    BY <2>1, <2>2, <2>3
  <2> QED
    BY <1>1, <1>2, <2>1, <2>4 DEF RecordsMatchStream
<1>8. RegionsNest'
  <2>1. /\ Len(stack') = Len(stack) + 1
        /\ DOMAIN stack' = DOMAIN stack \cup {Len(stack) + 1}
        /\ \A i \in DOMAIN stack : stack'[i] = stack[i]
        /\ stack'[Len(stack) + 1] = frame
    BY <1>2, <1>5
  <2>2. ASSUME NEW i \in 0..Len(stack)
        PROVE  Level(i)' = Level(i)
    <3>1. CASE i = Len(stack)
      BY <1>5, <2>1, <3>1 DEF Level
    <3>2. CASE i # Len(stack)
      <4>1. i + 1 \in DOMAIN stack /\ i # Len(stack')
        BY <1>5, <2>1, <3>2
      <4> QED
        BY <2>1, <3>2, <4>1 DEF Level
    <3> QED
      BY <3>1, <3>2
  <2>3. nfa_states' # {}
    BY <1>2, <1>3
  <2>4. \A s \in Level(0)' : Region[machine'][s] = MainRegion
    BY <1>1, <1>2, <1>5, <2>2 DEF RegionsNest
  <2>5. ASSUME NEW i \in DOMAIN stack', NEW s \in Level(i)'
        PROVE  \E q \in stack'[i].nfa_states :
                 <<"PUSH", Region[machine'][s]>> \in
                   GetNextStackOps(machine', q, stack'[i].alphabet)
    <3>1. CASE i \in DOMAIN stack
      BY <1>1, <1>2, <1>5, <2>1, <2>2, <2>5, <3>1 DEF RegionsNest
    <3>2. CASE i = Len(stack) + 1
      <4>1. s \in nfa_states'
        BY <2>1, <2>5, <3>2 DEF Level
      <4>2. PICK p \in ops : s = start(p[1])
        BY <1>2, <4>1
      <4> QED
        BY <1>2, <1>3, <1>4, <2>1, <3>2, <4>2
    <3> QED
      BY <2>1, <3>1, <3>2
  <2> QED
    BY <2>3, <2>4, <2>5 DEF RegionsNest
<1> QED
  BY <1>6, <1>7, <1>8 DEF IInv

\* A sequence without its last element.
LEMMA FrontProperties ==
  ASSUME NEW S, NEW q \in Seq(S), q # << >>
  PROVE  /\ Len(q) \in DOMAIN q /\ Len(q) \in Nat /\ Len(q) - 1 \in Nat
         /\ SubSeq(q, 1, Len(q) - 1) \in Seq(S)
         /\ Len(SubSeq(q, 1, Len(q) - 1)) = Len(q) - 1
         /\ DOMAIN SubSeq(q, 1, Len(q) - 1) = 1..Len(q) - 1
         /\ DOMAIN q = 1..Len(q)
         /\ \A i \in 1..Len(q) - 1 : SubSeq(q, 1, Len(q) - 1)[i] = q[i]
<1>1. /\ Len(q) \in Nat /\ Len(q) # 0 /\ DOMAIN q = 1..Len(q)
      /\ \A i \in 1..Len(q) : q[i] \in S
  OBVIOUS
<1> DEFINE n == Len(q) - 1
<1>2. n \in Nat /\ \A i \in 1..n : i \in DOMAIN q /\ q[i] \in S
  BY <1>1
<1> HIDE DEF n
<1>3. /\ SubSeq(q, 1, n) \in Seq(S)
      /\ Len(SubSeq(q, 1, n)) = n
      /\ \A i \in 1..n : SubSeq(q, 1, n)[i] = q[i]
  <2>1. /\ SubSeq(q, 1, n) \in Seq(S)
        /\ Len(SubSeq(q, 1, n)) = IF 1 <= n THEN n - 1 + 1 ELSE 0
        /\ \A i \in 1..n - 1 + 1 : SubSeq(q, 1, n)[i] = q[1 + i - 1]
    BY <1>2, SubSeqProperties
  <2> QED
    BY <1>2, <2>1
<1>4. DOMAIN SubSeq(q, 1, n) = 1..n
  BY <1>3, LenProperties
<1> QED
  BY <1>1, <1>2, <1>3, <1>4 DEF n

\* A sequence with one element more.
LEMMA OneMore ==
  ASSUME NEW S, NEW q \in Seq(S), NEW e \in S
  PROVE  /\ Append(q, e) \in Seq(S) /\ Len(q) \in Nat /\ Len(Append(q, e)) = Len(q) + 1
         /\ \A i \in 1..Len(q) : Append(q, e)[i] = q[i]
         /\ Append(q, e)[Len(q) + 1] = e
         /\ SubSeq(Append(q, e), 1, Len(Append(q, e)) - 1) = q
<1>1. /\ Append(q, e) \in Seq(S) /\ Len(q) \in Nat /\ Len(Append(q, e)) = Len(q) + 1
      /\ \A i \in 1..Len(q) : Append(q, e)[i] = q[i]
      /\ Append(q, e)[Len(q) + 1] = e /\ Append(q, e) # << >>
  BY AppendProperties, LenProperties
<1> DEFINE a == Append(q, e)
           front == SubSeq(a, 1, Len(a) - 1)
<1>2. /\ front \in Seq(S) /\ Len(front) = Len(q) /\ \A i \in 1..Len(q) : front[i] = q[i]
  <2> HIDE DEF a
  <2>1. /\ front \in Seq(S) /\ Len(front) = Len(a) - 1
        /\ \A i \in 1..Len(a) - 1 : front[i] = a[i]
    BY <1>1, FrontProperties DEF a
  <2>2. Len(a) - 1 = Len(q) /\ \A i \in 1..Len(q) : a[i] = q[i]
    BY <1>1 DEF a
  <2> QED
    BY <2>1, <2>2
<1>3. front = q
  <2> HIDE DEF front
  <2> QED
    BY <1>2, SeqEqual
<1> QED
  BY <1>1, <1>3

\* Every sequence that is not empty is one.
LEMMA LastApart ==
  ASSUME NEW S, NEW q \in Seq(S), Len(q) # 0
  PROVE  \E front \in Seq(S), e \in S :
           /\ q = Append(front, e) /\ Len(q) = Len(front) + 1
           /\ front = SubSeq(q, 1, Len(q) - 1) /\ e = q[Len(q)]
<1> DEFINE front == SubSeq(q, 1, Len(q) - 1)
           e == q[Len(q)]
<1>1. q # << >>
  OBVIOUS
<1>2. /\ Len(q) \in Nat /\ Len(q) \in 1..Len(q) /\ front \in Seq(S) /\ Len(front) = Len(q) - 1
      /\ \A i \in 1..Len(q) - 1 : front[i] = q[i]
  BY <1>1, FrontProperties
<1>3. e \in S
  BY <1>2, LenProperties
<1> HIDE DEF front, e
<1>4. /\ Append(front, e) \in Seq(S) /\ Len(Append(front, e)) = Len(q)
      /\ \A i \in 1..Len(q) - 1 : Append(front, e)[i] = q[i]
      /\ Append(front, e)[Len(q)] = e
  BY <1>2, <1>3, AppendProperties
<1>5. \A i \in 1..Len(q) : Append(front, e)[i] = q[i]
  BY <1>2, <1>4 DEF e
<1>6. q = Append(front, e)
  <2> DEFINE a == Append(front, e)
  <2>1. a \in Seq(S) /\ Len(a) = Len(q) /\ \A i \in 1..Len(q) : a[i] = q[i]
    BY <1>4, <1>5
  <2> HIDE DEF a
  <2>2. q = a
    BY <2>1, SeqEqual
  <2> QED
    BY <2>2 DEF a
<1>7. front = SubSeq(q, 1, Len(q) - 1) /\ e = q[Len(q)] /\ Len(q) = Len(front) + 1
  BY <1>2 DEF front, e
<1> QED
  BY <1>2, <1>3, <1>6, <1>7

\* A state that pops is inside a bracket, in an ent the bracket was opened for.
LEMMA PopLeavesItsFrame ==
  ASSUME IInv, NEW a \in Alphabets, NEW s \in nfa_states,
         NEW op \in GetNextStackOps(machine, s, a), op[1] = "POP"
  PROVE  /\ stack # << >>
         /\ \E q \in stack[Len(stack)].nfa_states :
              <<"PUSH", op[2]>> \in
                GetNextStackOps(machine, q, stack[Len(stack)].alphabet)
<1>1. /\ machine \in Machines /\ s \in DOMAIN Region[machine] /\ stack \in Seq(Frame)
      /\ RegionsNest
  BY DEF IInv, TypeOK, States
<1>2. Region[machine][s] = op[2] /\ Region[machine][s] # MainRegion
  BY <1>1, StackOpsProperties, StartStates
<1>3. s \in Level(Len(stack))
  BY DEF Level
<1>4. Len(stack) # 0
  BY <1>1, <1>2, <1>3 DEF RegionsNest
<1>5. Len(stack) \in DOMAIN stack
  BY <1>1, <1>4
<1> QED
  BY <1>1, <1>2, <1>3, <1>4, <1>5 DEF RegionsNest

\* Closing one leads back into the regions of the frame.
LEMMA FeedPopInv ==
  ASSUME IInv, NEW a \in Alphabets, FeedPop(a)
  PROVE  IInv'
<1> DEFINE frame == stack[Len(stack)]
           ops == NextStackOps(nfa_states, a)
           next == SpecialNextStates(frame.nfa_states, frame.alphabet, {p[1] : p \in ops})
           top == Len(stack) - 1
<1>1. TypeOK /\ RecordsMatchStream /\ RegionsNest
  BY DEF IInv
<1>2. /\ machine' = machine /\ machine \in Machines
      /\ is_valid_path_so_far' = is_valid_path_so_far
      /\ stack # << >> /\ stack \in Seq(Frame)
      /\ stack' = SubSeq(stack, 1, top)
      /\ nfa_states_map' = nfa_states_map
      /\ Record(a, "POP")
  BY <1>1 DEF FeedPop, Record, TypeOK
<1>3. /\ nfa_states' = {p[1] : p \in next}
      /\ DOMAIN pull_op_map' = DOMAIN pull_op_map \cup {Len(stream) + 1}
  <2>1. PICK map \in Selections(next) : \E from \in Selections(ops) :
          /\ nfa_states' = DOMAIN map
          /\ pull_op_map' = Put(pull_op_map, Len(stream) + 1,
                              [t \in DOMAIN map |->
                                <<map[t][1], map[t][2], from[map[t][2]]>>])
    BY DEF FeedPop
  <2> QED
    BY <2>1, SelectionsProperties DEF Put
<1>4. /\ Len(stack) \in Nat /\ top \in Nat /\ Len(stack) = top + 1 /\ Len(stack) \in DOMAIN stack
      /\ stack' \in Seq(Frame) /\ Len(stack') = top
      /\ DOMAIN stack = DOMAIN stack' \cup {Len(stack)}
      /\ DOMAIN stack' = 1..top
      /\ \A i \in DOMAIN stack' : stack'[i] = stack[i]
  <2>1. /\ Len(stack) \in DOMAIN stack /\ Len(stack) \in Nat
        /\ top \in Nat /\ Len(stack) = top + 1
        /\ DOMAIN stack = 1..top + 1
    BY <1>2, FrontProperties
  <2>2. /\ stack' \in Seq(Frame) /\ Len(stack') = top /\ DOMAIN stack' = 1..top
        /\ \A i \in 1..top : stack'[i] = stack[i]
    BY <1>2, FrontProperties
  <2> QED
    BY <2>1, <2>2
<1>5. frame.alphabet \in Alphabets /\ frame.nfa_states \in SUBSET States
  <2>1. frame \in Frame
    BY <1>2, <1>4
  <2> QED
    BY <2>1 DEF Frame
<1>6. /\ ops # {}
      /\ \A p \in ops : /\ p[2] \in nfa_states
                        /\ <<"POP", p[1]>> \in GetNextStackOps(machine, p[2], a)
                        /\ p[1] \in DOMAIN machine.enclosed_subnfa_map
  BY <1>1, <1>2, NextStackOpsProperties DEF FeedPop, TypeOK
<1>7. \A t \in nfa_states' : \E q \in frame.nfa_states :
        t \in States /\ Region[machine][t] = Region[machine][q]
  <2> SUFFICES ASSUME NEW t \in nfa_states'
               PROVE  \E q \in frame.nfa_states :
                        t \in States /\ Region[machine][t] = Region[machine][q]
    OBVIOUS
  <2>1. PICK p \in next : t = p[1]
    BY <1>3
  <2>2. PICK e \in {p_1[1] : p_1 \in ops} : \E q \in frame.nfa_states :
          \E u \in GetSpecialNextStates(machine, q, frame.alphabet, e) : p = <<u, <<q, e>>>>
    BY DEF SpecialNextStates
  <2>3. PICK q \in frame.nfa_states :
          \E u \in GetSpecialNextStates(machine, q, frame.alphabet, e) : p = <<u, <<q, e>>>>
    BY <2>2
  <2>4. t \in GetSpecialNextStates(machine, q, frame.alphabet, e)
    BY <2>1, <2>3
  <2>5. e \in DOMAIN machine.enclosed_subnfa_map
    BY <1>6, <2>2
  <2> QED
    BY <1>2, <1>5, <2>4, <2>5, NextStatesStay DEF States
<1>8. nfa_states' # {}
  <2>1. PICK p \in ops : TRUE
    BY <1>6
  <2>2. PICK q \in frame.nfa_states :
          <<"PUSH", p[1]>> \in GetNextStackOps(machine, q, frame.alphabet)
    BY <1>6, PopLeavesItsFrame
  <2>3. GetSpecialNextStates(machine, q, frame.alphabet, p[1]) # {}
    <3> DEFINE op == <<"PUSH", p[1]>>
    <3>1. q \in DOMAIN Region[machine] /\ op[1] = "PUSH" /\ op[2] = p[1]
      BY <1>5 DEF States
    <3>2. op \in GetNextStackOps(machine, q, frame.alphabet)
      BY <2>2
    <3> HIDE DEF op
    <3> QED
      BY <1>2, <1>5, <3>1, <3>2, StackOpsProperties
  <2>4. PICK t \in GetSpecialNextStates(machine, q, frame.alphabet, p[1]) : TRUE
    BY <2>3
  <2>5. <<t, <<q, p[1]>>>> \in next
    BY <2>1, <2>2, <2>4 DEF SpecialNextStates
  <2> QED
    BY <1>3, <2>5
<1>9. TypeOK'
  <2>1. stream' \in Seq(Alphabets) /\ stack_op_list' \in Seq(StackOperationType)
    BY <1>1, <1>2, RecordedFeeds DEF StackOperationType
  <2> QED
    BY <1>1, <1>2, <1>4, <1>7, <2>1 DEF TypeOK, States, Frame
<1>10. RecordsMatchStream'
  <2>1. /\ Len(stack_op_list') = Len(stream')
        /\ Cardinality(FeedsOf("POP")') = Cardinality(FeedsOf("POP")) + 1
        /\ FeedsOf("NOP")' = FeedsOf("NOP")
        /\ FeedsOf("PUSH")' = FeedsOf("PUSH")
        /\ FeedsOf("POP")' = FeedsOf("POP") \cup {Len(stream) + 1}
    BY <1>1, <1>2, RecordedFeeds DEF StackOperationType
  <2>2. /\ Cardinality(FeedsOf("PUSH")) = Len(stack) + Cardinality(FeedsOf("POP"))
        /\ Cardinality(FeedsOf("PUSH")) \in Nat /\ Cardinality(FeedsOf("POP")) \in Nat
    BY <1>1, FiniteFeeds DEF TypeOK, RecordsMatchStream
  <2>3. Cardinality(FeedsOf("PUSH")') = Len(stack') + Cardinality(FeedsOf("POP")')
    BY <1>4, <2>1, <2>2
  <2> QED
    BY <1>1, <1>2, <1>3, <2>1, <2>3 DEF RecordsMatchStream
<1>11. RegionsNest'
  <2>1. /\ Len(stack) \in Nat /\ top \in Nat /\ Len(stack) = top + 1
        /\ Len(stack') = top /\ DOMAIN stack' = 1..top
    BY <1>4
  <2> HIDE DEF top
  <2>2. \A i \in 0..top :
          /\ i # Len(stack)
          /\ i = top => i + 1 = Len(stack)
          /\ i # top => i + 1 \in DOMAIN stack' /\ i # Len(stack')
    BY <2>1
  <2>3. ASSUME NEW i \in 0..top, NEW s \in Level(i)'
        PROVE  \E q \in Level(i) : Region[machine][s] = Region[machine][q]
    <3>1. CASE i = top
      <4>1. s \in nfa_states'
        BY <1>4, <2>3, <3>1 DEF Level
      <4>2. i # Len(stack) /\ i + 1 = Len(stack)
        BY <2>2, <3>1
      <4>3. Level(i) = frame.nfa_states
        BY <4>2 DEF Level
      <4> QED
        BY <1>7, <4>1, <4>3
    <3>2. CASE i # top
      <4>1. i + 1 \in DOMAIN stack' /\ i # Len(stack') /\ i # Len(stack)
        BY <2>2, <3>2
      <4>2. Level(i)' = Level(i)
        BY <1>4, <4>1 DEF Level
      <4> QED
        BY <2>3, <4>2
    <3> QED
      BY <3>1, <3>2
  <2>4. \A s \in Level(0)' : Region[machine'][s] = MainRegion
    BY <1>1, <1>2, <1>4, <2>3 DEF RegionsNest
  <2>5. ASSUME NEW i \in DOMAIN stack', NEW s \in Level(i)'
        PROVE  \E q \in stack'[i].nfa_states :
                 <<"PUSH", Region[machine'][s]>> \in
                   GetNextStackOps(machine', q, stack'[i].alphabet)
    <3>1. i \in 0..top /\ i \in DOMAIN stack
      BY <1>4
    <3>2. PICK r \in Level(i) : Region[machine][s] = Region[machine][r]
      BY <2>3, <2>5, <3>1
    <3> QED
      BY <1>1, <1>2, <1>4, <3>1, <3>2 DEF RegionsNest
  <2> QED
    BY <1>8, <2>4, <2>5 DEF RegionsNest
<1> QED
  BY <1>9, <1>10, <1>11 DEF IInv

\* A plain feed stays in the regions it is in.
LEMMA FeedNopInv ==
  ASSUME IInv, NEW a \in Alphabets, FeedNop(a)
  PROVE  IInv'
<1> DEFINE next == NextStatesMap(nfa_states, a)
<1>1. TypeOK /\ RecordsMatchStream /\ RegionsNest
  BY DEF IInv
<1>2. /\ machine' = machine /\ machine \in Machines
      /\ is_valid_path_so_far' = is_valid_path_so_far
      /\ stack' = stack /\ stack \in Seq(Frame)
      /\ pull_op_map' = pull_op_map
      /\ Record(a, "NOP")
      /\ next # {}
  BY <1>1 DEF FeedNop, Record, TypeOK
<1>3. /\ nfa_states' = {p[1] : p \in next}
      /\ DOMAIN nfa_states_map' = DOMAIN nfa_states_map \cup {Len(stream) + 1}
  <2>1. PICK map \in Selections(next) :
          /\ nfa_states' = DOMAIN map
          /\ nfa_states_map' = Put(nfa_states_map, Len(stream) + 1, map)
    BY DEF FeedNop
  <2> QED
    BY <2>1, SelectionsProperties DEF Put
<1>4. \A t \in nfa_states' : \E s \in nfa_states :
        t \in States /\ Region[machine][t] = Region[machine][s]
  <2> SUFFICES ASSUME NEW t \in nfa_states'
               PROVE  \E s \in nfa_states :
                        t \in States /\ Region[machine][t] = Region[machine][s]
    OBVIOUS
  <2>1. PICK p \in next : t = p[1]
    BY <1>3
  <2>2. PICK s \in nfa_states : \E u \in GetNextStates(machine, s, a) : p = <<u, s>>
    BY DEF NextStatesMap
  <2>3. t \in GetNextStates(machine, s, a)
    BY <2>1, <2>2
  <2> QED
    BY <1>1, <1>2, <2>3, NextStatesStay DEF TypeOK, States
<1>5. nfa_states' # {}
  BY <1>2, <1>3
<1>6. TypeOK'
  <2>1. stream' \in Seq(Alphabets) /\ stack_op_list' \in Seq(StackOperationType)
    BY <1>1, <1>2, RecordedFeeds DEF StackOperationType
  <2> QED
    BY <1>1, <1>2, <1>4, <2>1 DEF TypeOK, States, Frame
<1>7. RecordsMatchStream'
  <2>1. /\ Len(stack_op_list') = Len(stream')
        /\ FeedsOf("NOP")' = FeedsOf("NOP") \cup {Len(stream) + 1}
        /\ FeedsOf("PUSH")' = FeedsOf("PUSH")
        /\ FeedsOf("POP")' = FeedsOf("POP")
    BY <1>1, <1>2, RecordedFeeds DEF StackOperationType
  <2> QED
    BY <1>1, <1>2, <1>3, <2>1 DEF RecordsMatchStream
<1>8. RegionsNest'
  <2>1. ASSUME NEW i \in Nat, NEW s \in Level(i)'
        PROVE  \E q \in Level(i) : Region[machine][s] = Region[machine][q]
    BY <1>2, <1>4, <2>1 DEF Level
  <2>2. \A s \in Level(0)' : Region[machine'][s] = MainRegion
    BY <1>1, <1>2, <2>1 DEF RegionsNest
  <2>3. ASSUME NEW i \in DOMAIN stack', NEW s \in Level(i)'
        PROVE  \E q \in stack'[i].nfa_states :
                 <<"PUSH", Region[machine'][s]>> \in
                   GetNextStackOps(machine', q, stack'[i].alphabet)
    <3>1. i \in Nat /\ i \in DOMAIN stack
      BY <1>2
    <3>2. PICK r \in Level(i) : Region[machine][s] = Region[machine][r]
      BY <2>1, <2>3, <3>1
    <3> QED
      BY <1>1, <1>2, <3>1, <3>2 DEF RegionsNest
  <2> QED
    BY <1>5, <2>2, <2>3 DEF RegionsNest
<1> QED
  BY <1>6, <1>7, <1>8 DEF IInv

\* Feed keeps the invariant, whatever it does.
LEMMA FeedInv ==
  ASSUME IInv, NEW a \in Alphabets, Feed(a)
  PROVE  IInv'
<1>1. CASE FeedPush(a)
  BY <1>1, FeedPushInv
<1>2. CASE FeedPop(a)
  BY <1>2, FeedPopInv
<1>3. CASE FeedNop(a)
  BY <1>3, FeedNopInv
<1>4. CASE FeedInvalid(a)
  BY <1>4 DEF FeedInvalid, IInv, TypeOK, RecordsMatchStream, RegionsNest, FeedsOf,
              Level, States, Frame
<1>5. CASE UNCHANGED vars
  BY <1>5 DEF vars, IInv, TypeOK, RecordsMatchStream, RegionsNest, FeedsOf,
              Level, States, Frame
<1> QED
  BY <1>1, <1>2, <1>3, <1>4, <1>5 DEF Feed

-------------------------------------------------------------------------------

\* The invariant holds initially.
LEMMA InitInv == Init => IInv
<1> SUFFICES ASSUME NEW m \in Machines, InitWith(m)
             PROVE  IInv
  BY DEF Init
<1>1. TypeOK
  BY StartStates DEF TypeOK, InitWith, States, Frame
<1>2. RecordsMatchStream
  <2>1. FeedsOf("PUSH") = {} /\ FeedsOf("POP") = {} /\ FeedsOf("NOP") = {}
    BY DEF InitWith, FeedsOf
  <2> QED
    BY <2>1, FS_EmptySet DEF RecordsMatchStream, InitWith, EmptyMap, FeedsOf
<1>3. RegionsNest
  BY StartStates DEF RegionsNest, InitWith, Level
<1> QED
  BY <1>1, <1>2, <1>3 DEF IInv

\* Every operation of CoreParser keeps the invariant.
LEMMA NextInv == IInv /\ [Next]_vars => IInv'
<1> SUFFICES ASSUME IInv, [Next]_vars
             PROVE  IInv'
  OBVIOUS
<1>1. ASSUME NEW a \in Alphabets, Feed(a)
      PROVE  IInv'
  BY <1>1, FeedInv
<1>2. CASE Reset
  <2>1. machine' \in Machines /\ nfa_states' = {machine'.start_state} /\ Cleared
    BY <1>2 DEF Reset, IInv, TypeOK
  <2> QED
    BY <2>1, ClearedInv
<1>3. ASSUME NEW m \in Machines, SetAParseMachine(m)
      PROVE  IInv'
  <2>1. machine' \in Machines /\ nfa_states' = {machine'.start_state} /\ Cleared
    BY <1>3 DEF SetAParseMachine
  <2> QED
    BY <2>1, ClearedInv
<1>4. CASE UNCHANGED vars
  BY <1>4 DEF vars, IInv, TypeOK, RecordsMatchStream, RegionsNest, FeedsOf,
              Level, States, Frame
<1> QED
  BY <1>1, <1>2, <1>3, <1>4 DEF Next

\* The inductive invariant holds of every behaviour of CoreParser: the types, the
\* records that match the stream, the regions that nest.
THEOREM Invariant == Spec => []IInv
BY InitInv, NextInv, PTL DEF Spec

\* The variables of CoreParser keep their types.
THEOREM TypeCorrect == Spec => []TypeOK
<1>1. IInv => TypeOK
  BY DEF IInv
<1> QED
  BY <1>1, Invariant, PTL

\* For every well-formed machine and every sequence of feeds, resets and machine
\* changes: what the back-tracking will read is recorded for exactly the stream
\* fed, and the stack has a frame for each bracket still open.
THEOREM RecordsAlwaysMatchStream == Spec => []RecordsMatchStream
<1>1. IInv => RecordsMatchStream
  BY DEF IInv
<1> QED
  BY <1>1, Invariant, PTL

\* For every well-formed machine: at every bracket depth the parser is in the NFAs
\* of ents that the bracket was opened for, and outside all brackets in the main
\* NFA, so that only a stream with every bracket closed is final.
THEOREM RegionsAlwaysNest == Spec => []RegionsNest
<1>1. IInv => RegionsNest
  BY DEF IInv
<1> QED
  BY <1>1, Invariant, PTL

\* For every well-formed machine: Feed never closes a bracket that is not open
\* (its assertion never fires), closes it only with an ent it was opened for, and
\* never leaves the parser without a state.
THEOREM PopsAlwaysMatched == Spec => []PopsAreMatched
<1>1. IInv => PopsAreMatched
  <2> SUFFICES ASSUME IInv
               PROVE  PopsAreMatched
    OBVIOUS
  <2>1. nfa_states # {}
    BY DEF IInv, RegionsNest
  <2> QED
    BY <2>1, PopLeavesItsFrame DEF PopsAreMatched
<1> QED
  BY <1>1, Invariant, PTL
=================================================================================
