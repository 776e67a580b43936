--------------------------- MODULE BackTrackerProofs ---------------------------
(***************************************************************************)
(* That the records of CoreParser lead ParserInstance's Parse back through  *)
(* every stream, and what the tree made of them looks like.  Nothing is used*)
(* of a machine but that it is WellFormed.                                  *)
(***************************************************************************)
EXTENDS CoreParserProofs, ParserInstance, Induction

\* What the parser was between two feeds.
Moment == [nfa_states : SUBSET States, stack : Seq(Frame)]

\* Feed i led from one moment to the next and is recorded as the walk back will
\* need it: each state after the feed is recorded with a state it came from.
NopLed(before, after, i) ==
  /\ after.stack = before.stack
  /\ \A t \in after.nfa_states :
       /\ t \in DOMAIN nfa_states_map[i] /\ nfa_states_map[i][t] \in before.nfa_states
       /\ t \in GetNextStates(machine, nfa_states_map[i][t], stream[i])

PushLed(before, after, i) ==
  /\ after.stack = Append(before.stack, [alphabet |-> stream[i],
                                         nfa_states |-> before.nfa_states])
  /\ \A t \in after.nfa_states : \E e \in DOMAIN machine.enclosed_subnfa_map :
       t = machine.enclosed_subnfa_map[e].start_state
  /\ \E s \in States : \E op \in GetNextStackOps(machine, s, stream[i]) : op[1] = "PUSH"

PopLed(before, after, i) ==
  LET frame == before.stack[Len(before.stack)]
  IN /\ before.stack # << >>
     /\ after.stack = SubSeq(before.stack, 1, Len(before.stack) - 1)
     /\ \A t \in after.nfa_states :
          /\ t \in DOMAIN pull_op_map[i]
          /\ pull_op_map[i][t][1] \in frame.nfa_states
          /\ pull_op_map[i][t][2] \in DOMAIN machine.enclosed_subnfa_map
          /\ pull_op_map[i][t][3] \in before.nfa_states
          /\ t \in GetSpecialNextStates(machine, pull_op_map[i][t][1], frame.alphabet,
                                        pull_op_map[i][t][2])
          /\ <<"POP", pull_op_map[i][t][2]>> \in
               GetNextStackOps(machine, pull_op_map[i][t][3], stream[i])

Led(before, after, i) ==
  \/ stack_op_list[i] = "NOP" /\ NopLed(before, after, i)
  \/ stack_op_list[i] = "PUSH" /\ PushLed(before, after, i)
  \/ stack_op_list[i] = "POP" /\ PopLed(before, after, i)

\* hist[i] is the moment before feed i: from the start to now.
IsHistory(hist) ==
  /\ hist \in Seq(Moment)
  /\ Len(hist) = Len(stream) + 1
  /\ hist[1] = [nfa_states |-> {machine.start_state}, stack |-> << >>]
  /\ hist[Len(stream) + 1] = [nfa_states |-> nfa_states, stack |-> stack]
  /\ \A i \in DOMAIN stream : Led(hist[i], hist[i + 1], i)

HasHistory == \E hist : IsHistory(hist)

-------------------------------------------------------------------------------
(* Every feed adds a moment. *)

\* The records of earlier feeds stay, and so does what they say.
LEMMA OldFeedsStayLed ==
  ASSUME IInv, NEW a \in Alphabets, NEW type \in StackOperationType, Record(a, type),
         \A j \in FeedsOf("NOP") : nfa_states_map'[j] = nfa_states_map[j],
         \A j \in FeedsOf("POP") : pull_op_map'[j] = pull_op_map[j],
         NEW before, NEW after, NEW i \in DOMAIN stream, Led(before, after, i)
  PROVE  Led(before, after, i)'
<1>1. /\ machine' = machine
      /\ stream \in Seq(Alphabets) /\ stack_op_list \in Seq(StackOperationType)
      /\ Len(stack_op_list) = Len(stream)
      /\ stack_op_list' = Append(stack_op_list, type)
      /\ stream' = Append(stream, a) /\ States' = States
  BY DEF Record, IInv, TypeOK, RecordsMatchStream, States
<1>2. /\ i \in DOMAIN stack_op_list
      /\ stack_op_list'[i] = stack_op_list[i]
      /\ stream'[i] = stream[i]
  BY <1>1
<1>3. CASE stack_op_list[i] = "NOP" /\ NopLed(before, after, i)
  <2>1. nfa_states_map'[i] = nfa_states_map[i]
    BY <1>2, <1>3 DEF FeedsOf
  <2> QED
    BY <1>1, <1>2, <1>3, <2>1 DEF Led, NopLed
<1>4. CASE stack_op_list[i] = "PUSH" /\ PushLed(before, after, i)
  BY <1>1, <1>2, <1>4 DEF Led, PushLed
<1>5. CASE stack_op_list[i] = "POP" /\ PopLed(before, after, i)
  <2>1. pull_op_map'[i] = pull_op_map[i]
    BY <1>2, <1>5 DEF FeedsOf
  <2> QED
    BY <1>1, <1>2, <1>5, <2>1 DEF Led, PopLed
<1> QED
  BY <1>3, <1>4, <1>5 DEF Led

\* What is recorded of a feed itself.
LEMMA RecordedLast ==
  ASSUME IInv, NEW a \in Alphabets, NEW type \in StackOperationType, Record(a, type)
  PROVE  stream'[Len(stream) + 1] = a /\ stack_op_list'[Len(stream) + 1] = type
<1>1. /\ stream \in Seq(Alphabets) /\ stack_op_list \in Seq(StackOperationType)
      /\ Len(stack_op_list) = Len(stream)
      /\ stream' = Append(stream, a) /\ stack_op_list' = Append(stack_op_list, type)
  BY DEF IInv, TypeOK, RecordsMatchStream, Record
<1> QED
  BY <1>1

\* What is recorded for earlier feeds.
LEMMA RecordedBefore ==
  ASSUME IInv
  PROVE  /\ \A j \in FeedsOf("NOP") : j \in DOMAIN nfa_states_map /\ j # Len(stream) + 1
         /\ \A j \in FeedsOf("POP") : j \in DOMAIN pull_op_map /\ j # Len(stream) + 1
<1>1. /\ stack_op_list \in Seq(StackOperationType) /\ Len(stack_op_list) = Len(stream)
      /\ stream \in Seq(Alphabets)
      /\ DOMAIN nfa_states_map = FeedsOf("NOP") /\ DOMAIN pull_op_map = FeedsOf("POP")
  BY DEF IInv, TypeOK, RecordsMatchStream
<1>2. \A j \in DOMAIN stack_op_list : j # Len(stream) + 1
  BY <1>1
<1> QED
  BY <1>1, <1>2 DEF FeedsOf

\* A history goes on with the moment after the feed.
LEMMA HistoryGoesOn ==
  ASSUME IInv, IInv', NEW a \in Alphabets, NEW type \in StackOperationType, Record(a, type),
         \A j \in FeedsOf("NOP") : nfa_states_map'[j] = nfa_states_map[j],
         \A j \in FeedsOf("POP") : pull_op_map'[j] = pull_op_map[j],
         NEW before, before = [nfa_states |-> nfa_states, stack |-> stack],
         NEW after, after = [nfa_states |-> nfa_states', stack |-> stack'],
         NEW now, now = Len(stream) + 1, Led(before, after, now)',
         HasHistory
  PROVE  HasHistory'
<1>1. PICK hist : IsHistory(hist)
  BY DEF HasHistory
<1> DEFINE longer == Append(hist, after)
<1>2. /\ machine' = machine
      /\ stream \in Seq(Alphabets) /\ Len(stream) \in Nat
      /\ stream' = Append(stream, a) /\ Len(stream') = Len(stream) + 1
      /\ DOMAIN stream = 1..Len(stream) /\ DOMAIN stream' = 1..Len(stream) + 1
  BY DEF Record, IInv, TypeOK
<1>3. /\ hist \in Seq(Moment) /\ Len(hist) = Len(stream) + 1
      /\ hist[1] = [nfa_states |-> {machine.start_state}, stack |-> << >>]
      /\ hist[Len(stream) + 1] = before
      /\ \A i \in DOMAIN stream : Led(hist[i], hist[i + 1], i)
  BY <1>1 DEF IsHistory
<1>4. after \in Moment' /\ Moment' = Moment
  BY <1>2 DEF IInv, TypeOK, Moment, States, Frame
<1>5. /\ longer \in Seq(Moment') /\ Len(longer) = Len(stream') + 1
      /\ longer[Len(stream') + 1] = after
      /\ \A i \in 1..Len(stream) + 1 : longer[i] = hist[i]
  BY <1>2, <1>3, <1>4
<1>6. ASSUME NEW i \in DOMAIN stream'
      PROVE  Led(longer[i], longer[i + 1], i)'
  <2>1. CASE i \in DOMAIN stream
    <3>1. longer[i] = hist[i] /\ longer[i + 1] = hist[i + 1]
      BY <1>2, <1>5, <2>1
    <3>2. Led(hist[i], hist[i + 1], i)'
      BY <1>3, <2>1, OldFeedsStayLed
    <3> QED
      BY <3>1, <3>2
  <2>2. CASE i = Len(stream) + 1
    <3>1. longer[i] = before /\ longer[i + 1] = after
      BY <1>2, <1>3, <1>5, <2>2
    <3> QED
      BY <2>2, <3>1
  <2>3. i \in DOMAIN stream \/ i = Len(stream) + 1
    BY <1>2
  <2> QED
    BY <2>1, <2>2, <2>3
<1>7. longer[1] = [nfa_states |-> {machine'.start_state}, stack |-> << >>]
  BY <1>2, <1>3, <1>5
<1>8. IsHistory(longer)'
  BY <1>5, <1>6, <1>7 DEF IsHistory
<1> QED
  BY <1>8 DEF HasHistory

\* A feed that opens a bracket adds its moment to the history.
LEMMA FeedPushHistory ==
  ASSUME IInv, IInv', HasHistory, NEW a \in Alphabets, FeedPush(a)
  PROVE  HasHistory'
<1>1. /\ Record(a, "PUSH")
      /\ stack' = Append(stack, [alphabet |-> a, nfa_states |-> nfa_states])
      /\ nfa_states_map' = nfa_states_map /\ pull_op_map' = pull_op_map
  BY DEF FeedPush
<1>2. PICK before : before = [nfa_states |-> nfa_states, stack |-> stack]
  OBVIOUS
<1>3. PICK after : after = [nfa_states |-> nfa_states', stack |-> stack']
  OBVIOUS
<1>4. PICK now : now = Len(stream) + 1
  OBVIOUS
<1>5. stream'[now] = a /\ stack_op_list'[now] = "PUSH"
  BY <1>1, <1>4, RecordedLast DEF StackOperationType
<1>6. /\ \A t \in nfa_states' : \E e \in DOMAIN machine.enclosed_subnfa_map :
           t = machine.enclosed_subnfa_map[e].start_state
      /\ \E s \in States : \E op \in GetNextStackOps(machine, s, a) : op[1] = "PUSH"
  <2>1. "PUSH" \in OpTypes(nfa_states, a) /\ machine \in Machines /\ nfa_states \in SUBSET States
    BY DEF FeedPush, IInv, TypeOK
  <2>2. nfa_states' = {machine.enclosed_subnfa_map[p[1]].start_state :
                         p \in NextStackOps(nfa_states, a)}
    BY DEF FeedPush
  <2>3. \A p \in NextStackOps(nfa_states, a) : p[1] \in DOMAIN machine.enclosed_subnfa_map
    BY <2>1, NextStackOpsProperties
  <2>4. \E s \in nfa_states : \E op \in GetNextStackOps(machine, s, a) : op[1] = "PUSH"
    BY <2>1 DEF OpTypes
  <2> QED
    BY <2>1, <2>2, <2>3, <2>4
<1>7. machine' = machine /\ States' = States
  BY <1>1 DEF Record, States
<1>8. PushLed(before, after, now)'
  BY <1>1, <1>2, <1>3, <1>5, <1>6, <1>7 DEF PushLed
<1>9. Led(before, after, now)'
  BY <1>5, <1>8 DEF Led
<1> QED
  BY <1>1, <1>2, <1>3, <1>4, <1>9, HistoryGoesOn DEF StackOperationType

\* So does a plain feed: every new state is recorded with a state before it.
LEMMA FeedNopHistory ==
  ASSUME IInv, IInv', HasHistory, NEW a \in Alphabets, FeedNop(a)
  PROVE  HasHistory'
<1>1. PICK map \in Selections(NextStatesMap(nfa_states, a)) :
        /\ nfa_states' = DOMAIN map
        /\ nfa_states_map' = Put(nfa_states_map, Len(stream) + 1, map)
  BY DEF FeedNop
<1>2. Record(a, "NOP") /\ stack' = stack /\ pull_op_map' = pull_op_map
  BY DEF FeedNop
<1>3. PICK before : before = [nfa_states |-> nfa_states, stack |-> stack]
  OBVIOUS
<1>4. PICK after : after = [nfa_states |-> nfa_states', stack |-> stack']
  OBVIOUS
<1>5. PICK now : now = Len(stream) + 1
  OBVIOUS
<1>6. stack_op_list'[now] = "NOP" /\ stream'[now] = a /\ machine' = machine
  BY <1>2, <1>5, RecordedLast DEF StackOperationType, Record
<1>7. ASSUME NEW t \in DOMAIN map
      PROVE  map[t] \in nfa_states /\ t \in GetNextStates(machine, map[t], a)
  <2>1. <<t, map[t]>> \in NextStatesMap(nfa_states, a)
    BY SelectionsProperties
  <2> QED
    BY <2>1 DEF NextStatesMap
<1>8. nfa_states_map'[now] = map /\ \A j \in FeedsOf("NOP") : nfa_states_map'[j] = nfa_states_map[j]
  <2>1. \A j \in FeedsOf("NOP") : j \in DOMAIN nfa_states_map /\ j # now
    BY <1>5, RecordedBefore
  <2> QED
    BY <1>1, <1>5, <2>1 DEF Put
<1>9. Led(before, after, now)'
  BY <1>1, <1>2, <1>3, <1>4, <1>6, <1>7, <1>8 DEF Led, NopLed
<1> QED
  BY <1>2, <1>3, <1>4, <1>5, <1>8, <1>9, HistoryGoesOn DEF StackOperationType

\* So does a feed that closes a bracket: every new state is recorded with a state of
\* the frame, an ent, and a final state of that ent among the states before.
LEMMA FeedPopHistory ==
  ASSUME IInv, IInv', HasHistory, NEW a \in Alphabets, FeedPop(a)
  PROVE  HasHistory'
<1> DEFINE frame == stack[Len(stack)]
           ops == NextStackOps(nfa_states, a)
           next == SpecialNextStates(frame.nfa_states, frame.alphabet, {p[1] : p \in ops})
<1>1. PICK from \in Selections(ops), map \in Selections(next) :
        /\ nfa_states' = DOMAIN map
        /\ pull_op_map' = Put(pull_op_map, Len(stream) + 1,
                              [t \in DOMAIN map |->
                                <<map[t][1], map[t][2], from[map[t][2]]>>])
  BY DEF FeedPop
<1>2. /\ Record(a, "POP") /\ nfa_states_map' = nfa_states_map
      /\ stack # << >> /\ stack' = SubSeq(stack, 1, Len(stack) - 1)
  BY DEF FeedPop
<1>3. PICK before : before = [nfa_states |-> nfa_states, stack |-> stack]
  OBVIOUS
<1>4. PICK after : after = [nfa_states |-> nfa_states', stack |-> stack']
  OBVIOUS
<1>5. PICK now : now = Len(stream) + 1
  OBVIOUS
<1>6. stack_op_list'[now] = "POP" /\ stream'[now] = a /\ machine' = machine
  BY <1>2, <1>5, RecordedLast DEF StackOperationType, Record
<1>7. \A p \in ops : /\ p[2] \in nfa_states /\ p[1] \in DOMAIN machine.enclosed_subnfa_map
                       /\ <<"POP", p[1]>> \in GetNextStackOps(machine, p[2], a)
  BY NextStackOpsProperties DEF FeedPop, IInv, TypeOK
<1>8. ASSUME NEW t \in DOMAIN map
      PROVE  /\ map[t][1] \in frame.nfa_states
             /\ map[t][2] \in DOMAIN machine.enclosed_subnfa_map
             /\ from[map[t][2]] \in nfa_states
             /\ t \in GetSpecialNextStates(machine, map[t][1], frame.alphabet, map[t][2])
             /\ <<"POP", map[t][2]>> \in GetNextStackOps(machine, from[map[t][2]], a)
  <2>1. <<t, map[t]>> \in next
    BY SelectionsProperties
  <2>2. /\ map[t][1] \in frame.nfa_states /\ map[t][2] \in {p[1] : p \in ops}
        /\ t \in GetSpecialNextStates(machine, map[t][1], frame.alphabet, map[t][2])
    BY <2>1 DEF SpecialNextStates
  <2>3. <<map[t][2], from[map[t][2]]>> \in ops
    BY <2>2, SelectionsProperties
  <2> QED
    BY <1>7, <2>2, <2>3
<1>9. \A j \in FeedsOf("POP") : pull_op_map'[j] = pull_op_map[j]
  <2>1. \A j \in FeedsOf("POP") : j \in DOMAIN pull_op_map /\ j # now
    BY <1>5, RecordedBefore
  <2> QED
    BY <1>1, <1>5, <2>1 DEF Put
<1>10. /\ DOMAIN pull_op_map'[now] = nfa_states'
       /\ \A t \in nfa_states' : pull_op_map'[now][t] = <<map[t][1], map[t][2], from[map[t][2]]>>
  BY <1>1, <1>5 DEF Put
<1>11. PopLed(before, after, now)'
  <2>1. before.stack[Len(before.stack)] = frame
    BY <1>3
  <2>2. before.stack # << >> /\ after.stack = SubSeq(before.stack, 1, Len(before.stack) - 1)
    BY <1>2, <1>3, <1>4
  <2>3. after.nfa_states = nfa_states' /\ before.nfa_states = nfa_states
    BY <1>3, <1>4
  <2> HIDE DEF frame, next, ops
  <2>4. \A t \in after.nfa_states :
          /\ t \in DOMAIN pull_op_map'[now]
          /\ pull_op_map'[now][t][1] \in frame.nfa_states
          /\ pull_op_map'[now][t][2] \in DOMAIN machine.enclosed_subnfa_map
          /\ pull_op_map'[now][t][3] \in before.nfa_states
          /\ t \in GetSpecialNextStates(machine, pull_op_map'[now][t][1], frame.alphabet,
                                        pull_op_map'[now][t][2])
          /\ <<"POP", pull_op_map'[now][t][2]>> \in
               GetNextStackOps(machine, pull_op_map'[now][t][3], a)
    <3> SUFFICES ASSUME NEW t \in nfa_states'
                 PROVE  /\ t \in DOMAIN pull_op_map'[now]
                        /\ pull_op_map'[now][t][1] \in frame.nfa_states
                        /\ pull_op_map'[now][t][2] \in DOMAIN machine.enclosed_subnfa_map
                        /\ pull_op_map'[now][t][3] \in nfa_states
                        /\ t \in GetSpecialNextStates(machine, pull_op_map'[now][t][1],
                                                      frame.alphabet, pull_op_map'[now][t][2])
                        /\ <<"POP", pull_op_map'[now][t][2]>> \in
                             GetNextStackOps(machine, pull_op_map'[now][t][3], a)
      BY <2>3
    <3>1. /\ t \in DOMAIN pull_op_map'[now] /\ t \in DOMAIN map
          /\ pull_op_map'[now][t] = <<map[t][1], map[t][2], from[map[t][2]]>>
      BY <1>1, <1>10
    <3> QED
      BY <1>8, <3>1
  <2> QED
    BY <1>6, <2>1, <2>2, <2>4 DEF PopLed
<1>12. Led(before, after, now)'
  BY <1>6, <1>11 DEF Led
<1> QED
  BY <1>2, <1>3, <1>4, <1>5, <1>9, <1>12, HistoryGoesOn DEF StackOperationType

\* A new parser has the history of one moment.
LEMMA HistoryInit == IInv /\ Init => HasHistory
<1> SUFFICES ASSUME IInv, NEW m \in Machines, InitWith(m)
             PROVE  HasHistory
  BY DEF Init
<1>1. stream = << >> /\ nfa_states = {machine.start_state} /\ stack = << >>
  BY DEF InitWith
<1>2. PICK first : first = [nfa_states |-> nfa_states, stack |-> stack]
  OBVIOUS
<1>3. first \in Moment
  BY <1>2 DEF IInv, TypeOK, Moment
<1>4. <<first>> \in Seq(Moment) /\ Len(<<first>>) = 1 /\ <<first>>[1] = first
  BY <1>3
<1>5. Len(stream) = 0 /\ Len(stream) + 1 = 1 /\ DOMAIN stream = {}
  BY <1>1
<1>6. IsHistory(<<first>>)
  BY <1>1, <1>2, <1>4, <1>5 DEF IsHistory
<1> QED
  BY <1>6 DEF HasHistory

\* So has a parser that was reset or given a machine.
LEMMA ClearedHistory ==
  ASSUME IInv', nfa_states' = {machine'.start_state}, Cleared
  PROVE  HasHistory'
<1>1. stream' = << >> /\ stack' = << >>
  BY DEF Cleared
<1>2. PICK first : first = [nfa_states |-> nfa_states', stack |-> stack']
  OBVIOUS
<1>3. first \in Moment'
  BY <1>2 DEF IInv, TypeOK, Moment
<1>4. <<first>> \in Seq(Moment') /\ Len(<<first>>) = 1 /\ <<first>>[1] = first
  BY <1>3
<1>5. Len(stream') = 0 /\ Len(stream') + 1 = 1 /\ DOMAIN stream' = {}
  BY <1>1
<1>6. IsHistory(<<first>>)'
  BY <1>1, <1>2, <1>4, <1>5 DEF IsHistory
<1> QED
  BY <1>6 DEF HasHistory

\* Every operation keeps a history.
LEMMA NextHistory == IInv /\ IInv' /\ HasHistory /\ [Next]_vars => HasHistory'
<1> SUFFICES ASSUME IInv, IInv', HasHistory, [Next]_vars
             PROVE  HasHistory'
  OBVIOUS
<1>1. CASE UNCHANGED <<machine, nfa_states, stack, stream, stack_op_list, nfa_states_map, pull_op_map>>
  <2>1. PICK hist : IsHistory(hist)
    BY DEF HasHistory
  <2>2. Moment' = Moment
    BY <1>1 DEF Moment, States, Frame
  <2>3. \A before, after, i : Led(before, after, i)' = Led(before, after, i)
    BY <1>1 DEF Led, NopLed, PushLed, PopLed, States
  <2>4. IsHistory(hist)'
    BY <1>1, <2>1, <2>2, <2>3 DEF IsHistory
  <2> QED
    BY <2>4 DEF HasHistory
<1>2. ASSUME NEW a \in Alphabets, Feed(a)
      PROVE  HasHistory'
  BY <1>1, <1>2, FeedPushHistory, FeedPopHistory, FeedNopHistory DEF Feed, FeedInvalid, vars
<1>3. CASE Reset
  BY <1>3, ClearedHistory DEF Reset
<1>4. ASSUME NEW m \in Machines, SetAParseMachine(m)
      PROVE  HasHistory'
  BY <1>4, ClearedHistory DEF SetAParseMachine
<1>5. CASE UNCHANGED vars
  BY <1>1, <1>5 DEF vars
<1> QED
  BY <1>2, <1>3, <1>4, <1>5 DEF Next

-------------------------------------------------------------------------------
(* The walk back *)

\* What construction_stack holds: for each bracket a state its opening alphabet was
\* fed in, an ent it was opened for and the state after it.
Bracket == {<<q, e, t>> : q \in States, e \in DOMAIN machine.enclosed_subnfa_map, t \in States}

\* The region inside the first j brackets.
RegionIn(brackets, j) == IF j = 0 THEN MainRegion ELSE brackets[j][2]

\* These brackets, with cur inside the last, can be those of the frames of stk: each
\* was opened in a state of its frame and leads on after it.
FitFrames(brackets, stk, cur) ==
  /\ Len(brackets) = Len(stk)
  /\ Region[machine][cur] = RegionIn(brackets, Len(stk))
  /\ \A j \in DOMAIN stk :
       /\ brackets[j][1] \in stk[j].nfa_states
       /\ Region[machine][brackets[j][1]] = RegionIn(brackets, j - 1)
       /\ brackets[j][3] \in GetSpecialNextStates(machine, brackets[j][1],
                                                  stk[j].alphabet, brackets[j][2])

\* What the loop has when the feeds from i on are behind it: a state of the moment
\* before feed i, and brackets that fit the frames of that moment.
WalkedTo(hist, i) ==
  {b \in [cur : hist[i].nfa_states, construction_stack : Seq(Bracket), status : {"done"},
          pss : [1..Len(stream) + 1 -> ParsingStream]] :
     FitFrames(b.construction_stack, hist[i].stack, b.cur)}

\* The step of the machine that one turn of the loop has found for feed i, and the
\* stream it keeps for it.
NopStep(before, after, i) ==
  /\ after.cur \in GetNextStates(machine, before.cur, stream[i])
  /\ after.construction_stack = before.construction_stack
  /\ before.pss = [after.pss EXCEPT ![i] =
                     GetParsingStream(machine, before.cur, stream[i], after.cur)]

PushStep(before, after, i) ==
  \E e \in DOMAIN machine.enclosed_subnfa_map :
    \E t \in GetSpecialNextStates(machine, before.cur, stream[i], e) :
      /\ <<"PUSH", e>> \in GetNextStackOps(machine, before.cur, stream[i])
      /\ after.cur = machine.enclosed_subnfa_map[e].start_state
      /\ after.construction_stack = Append(before.construction_stack, <<before.cur, e, t>>)
      /\ before.pss = [after.pss EXCEPT ![i] =
                         GetSpecialParsingStream(machine, before.cur, stream[i], e, t)]

PopStep(before, after, i) ==
  \E e \in DOMAIN machine.enclosed_subnfa_map, q \in States :
    /\ <<"POP", e>> \in GetNextStackOps(machine, before.cur, stream[i])
    /\ before.construction_stack = Append(after.construction_stack, <<q, e, after.cur>>)
    /\ before.pss = [after.pss EXCEPT ![i] =
                       machine.enclosed_subnfa_map[e].final_states[before.cur]]

Stepped(before, after, i) ==
  NopStep(before, after, i) \/ PushStep(before, after, i) \/ PopStep(before, after, i)

\* The least member of a set of depths.
LEMMA LeastIsLeast ==
  ASSUME NEW T \in SUBSET Nat, T # {}
  PROVE  Least(T) \in T
BY LeastNumber DEF Least

\* Whatever stream is looked up for a step between states, it is one.
LEMMA StreamsLookedUp ==
  ASSUME NEW m \in Machines, NEW s \in DOMAIN Region[m], NEW a \in Alphabets, NEW t, NEW e
  PROVE  /\ GetParsingStream(m, s, a, t) \in ParsingStream
         /\ GetSpecialParsingStream(m, s, a, e, t) \in ParsingStream
<1>1. /\ \A k \in EdgeDepths(m, s, a) : \A u \in DOMAIN EdgeTargets(m, s, a, k) :
           EdgeTargets(m, s, a, k)[u] \in ParsingStream
      /\ \A k \in SpecialDepths(m, s, a) : \A x \in DOMAIN SpecialEdges(m, s, a, k) :
           \A u \in DOMAIN SpecialEdges(m, s, a, k)[x].targets :
             SpecialEdges(m, s, a, k)[x].targets[u] \in ParsingStream
  BY MachinesAreWellFormed DEF WellFormed, StreamsAreThere
<1>2. EdgeDepths(m, s, a) \in SUBSET Nat /\ SpecialDepths(m, s, a) \in SUBSET Nat
  <2>1. Depths(m, s) \in SUBSET Nat
    <3>1. s.path \in Seq(Nat \X Nat)
      BY MachinesAreWellFormed DEF WellFormed, RegionsAreApart, NFAState
    <3> QED
      BY <3>1 DEF Depths
  <2> QED
    BY <2>1 DEF EdgeDepths, SpecialDepths
<1>3. << >> \in ParsingStream
  BY DEF ParsingStream
<1>4. GetParsingStream(m, s, a, t) \in ParsingStream
  <2> DEFINE hits == {k \in EdgeDepths(m, s, a) :
                        k <= Len(t.path) /\ GetSuffix(t, k) \in DOMAIN EdgeTargets(m, s, a, k)}
  <2>1. hits # {} => Least(hits) \in hits
    BY <1>2, LeastIsLeast
  <2> QED
    BY <1>1, <1>3, <2>1 DEF GetParsingStream
<1>5. GetSpecialParsingStream(m, s, a, e, t) \in ParsingStream
  <2> DEFINE hits == {k \in EntDepths(m, s, a, e) :
                        /\ k <= Len(t.path)
                        /\ GetSuffix(t, k) \in DOMAIN SpecialEdges(m, s, a, k)[e].targets}
  <2>1. hits # {} => Least(hits) \in hits
    BY <1>2, LeastIsLeast DEF EntDepths
  <2> QED
    BY <1>1, <1>3, <2>1 DEF GetSpecialParsingStream, EntDepths
<1> QED
  BY <1>4, <1>5

\* One feed back.
LEMMA BackStepWalks ==
  ASSUME IInv, NEW hist, IsHistory(hist), NEW i \in DOMAIN stream,
         NEW b \in WalkedTo(hist, i + 1)
  PROVE  BackStep(b, i) \in WalkedTo(hist, i) /\ Stepped(BackStep(b, i), b, i)
<1> DEFINE from == hist[i].stack
           to == hist[i + 1].stack
           n == Len(from)
<1>1. /\ machine \in Machines
      /\ stream \in Seq(Alphabets) /\ stream[i] \in Alphabets /\ Len(stream) \in Nat
      /\ i \in 1..Len(stream) /\ i \in 1..Len(stream) + 1
      /\ stack_op_list \in Seq(StackOperationType) /\ i \in DOMAIN stack_op_list
      /\ DOMAIN nfa_states_map = FeedsOf("NOP") /\ DOMAIN pull_op_map = FeedsOf("POP")
  BY DEF IInv, TypeOK, RecordsMatchStream
<1>2. /\ hist[i] \in Moment /\ hist[i + 1] \in Moment
      /\ Led(hist[i], hist[i + 1], i)
  BY <1>1 DEF IsHistory
<1>3. /\ hist[i].nfa_states \subseteq States /\ from \in Seq(Frame)
      /\ hist[i + 1].nfa_states \subseteq States /\ to \in Seq(Frame)
      /\ n \in Nat /\ DOMAIN from = 1..n
  BY <1>2 DEF Moment
<1>4. /\ b = [cur |-> b.cur, construction_stack |-> b.construction_stack,
              status |-> "done", pss |-> b.pss]
      /\ b.cur \in hist[i + 1].nfa_states /\ b.cur \in States
      /\ b.status = "done"
      /\ b.construction_stack \in Seq(Bracket)
      /\ b.pss \in [1..Len(stream) + 1 -> ParsingStream]
      /\ FitFrames(b.construction_stack, to, b.cur)
  BY <1>3 DEF WalkedTo
<1>5. ASSUME stack_op_list[i] = "NOP", NopLed(hist[i], hist[i + 1], i)
      PROVE  BackStep(b, i) \in WalkedTo(hist, i) /\ Stepped(BackStep(b, i), b, i)
  <2> DEFINE previous == nfa_states_map[i][b.cur]
             streams == [b.pss EXCEPT ![i] = GetParsingStream(machine, previous, stream[i], b.cur)]
  <2>1. /\ i \in DOMAIN nfa_states_map /\ b.cur \in DOMAIN nfa_states_map[i]
        /\ previous \in hist[i].nfa_states /\ previous \in DOMAIN Region[machine]
        /\ b.cur \in GetNextStates(machine, previous, stream[i])
        /\ to = from
    BY <1>1, <1>3, <1>4, <1>5 DEF NopLed, FeedsOf, States
  <2>2. BackStep(b, i) = [cur |-> previous, construction_stack |-> b.construction_stack,
                          status |-> "done", pss |-> streams]
    BY <1>4, <1>5, <2>1 DEF BackStep, Tracked, BackNop
  <2>3. streams \in [1..Len(stream) + 1 -> ParsingStream]
    BY <1>1, <1>4, <2>1, StreamsLookedUp
  <2>4. NopStep(BackStep(b, i), b, i)
    BY <2>1, <2>2 DEF NopStep
  <2> HIDE DEF previous, streams
  <2>5. FitFrames(b.construction_stack, from, previous)
    <3>1. Region[machine][b.cur] = Region[machine][previous]
      BY <1>1, <2>1, NextStatesStay
    <3> QED
      BY <1>4, <2>1, <3>1 DEF FitFrames
  <2> QED
    BY <1>4, <2>1, <2>2, <2>3, <2>4, <2>5 DEF WalkedTo, Stepped
<1>6. ASSUME stack_op_list[i] = "PUSH", PushLed(hist[i], hist[i + 1], i)
      PROVE  BackStep(b, i) \in WalkedTo(hist, i) /\ Stepped(BackStep(b, i), b, i)
  <2> DEFINE top == b.construction_stack[Len(b.construction_stack)]
             below == SubSeq(b.construction_stack, 1, Len(b.construction_stack) - 1)
             streams == [b.pss EXCEPT ![i] =
                           GetSpecialParsingStream(machine, top[1], stream[i], top[2], top[3])]
  <2>1. to = Append(from, [alphabet |-> stream[i], nfa_states |-> hist[i].nfa_states])
    BY <1>6 DEF PushLed
  <2>2. /\ Len(to) = n + 1 /\ n + 1 \in DOMAIN to
        /\ to[n + 1].nfa_states = hist[i].nfa_states /\ to[n + 1].alphabet = stream[i]
        /\ \A j \in 1..n : j \in DOMAIN to /\ to[j] = from[j]
    BY <1>3, <2>1
  <2>3. /\ Len(b.construction_stack) = n + 1
        /\ Region[machine][b.cur] = RegionIn(b.construction_stack, n + 1)
        /\ \A j \in DOMAIN to :
             /\ b.construction_stack[j][1] \in to[j].nfa_states
             /\ Region[machine][b.construction_stack[j][1]] = RegionIn(b.construction_stack, j - 1)
             /\ b.construction_stack[j][3] \in
                  GetSpecialNextStates(machine, b.construction_stack[j][1],
                                       to[j].alphabet, b.construction_stack[j][2])
    BY <1>4, <2>2 DEF FitFrames
  <2>4. /\ b.construction_stack # << >>
        /\ below \in Seq(Bracket) /\ Len(below) = n
        /\ \A j \in 1..n : below[j] = b.construction_stack[j]
        /\ b.construction_stack = Append(below, top)
        /\ top = b.construction_stack[n + 1] /\ top \in Bracket
    <3>1. b.construction_stack # << >> /\ n + 1 - 1 = n
      BY <1>3, <2>3
    <3>2. /\ below \in Seq(Bracket) /\ Len(below) = n
          /\ \A j \in 1..n : below[j] = b.construction_stack[j]
          /\ top = b.construction_stack[n + 1] /\ top \in Bracket
      BY <1>3, <1>4, <2>3, <3>1, FrontProperties
    <3>3. b.construction_stack = Append(below, top)
      BY <1>4, <3>1, LastApart
    <3> QED
      BY <3>1, <3>2, <3>3
  <2>5. /\ top[1] \in hist[i].nfa_states /\ top[1] \in DOMAIN Region[machine]
        /\ top[2] \in DOMAIN machine.enclosed_subnfa_map
        /\ top[3] \in GetSpecialNextStates(machine, top[1], stream[i], top[2])
        /\ top = <<top[1], top[2], top[3]>>
        /\ Region[machine][b.cur] = top[2] /\ Region[machine][top[1]] = RegionIn(below, n)
    <3>1. /\ top[2] \in DOMAIN machine.enclosed_subnfa_map /\ top = <<top[1], top[2], top[3]>>
      BY <2>4 DEF Bracket
    <3>2. /\ top[1] \in to[n + 1].nfa_states
          /\ top[3] \in GetSpecialNextStates(machine, top[1], to[n + 1].alphabet, top[2])
          /\ Region[machine][top[1]] = RegionIn(b.construction_stack, n + 1 - 1)
      <4> DEFINE last == n + 1
      <4>1. last \in DOMAIN to /\ top = b.construction_stack[last]
        BY <2>2, <2>4
      <4> HIDE DEF top, to, last
      <4>2. /\ b.construction_stack[last][1] \in to[last].nfa_states
            /\ b.construction_stack[last][3] \in
                 GetSpecialNextStates(machine, b.construction_stack[last][1],
                                      to[last].alphabet, b.construction_stack[last][2])
            /\ Region[machine][b.construction_stack[last][1]]
                 = RegionIn(b.construction_stack, last - 1)
        BY <2>3, <4>1
      <4> QED
        BY <4>1, <4>2 DEF last
    <3>3. Region[machine][b.cur] = top[2]
      BY <1>3, <2>3, <2>4 DEF RegionIn
    <3>4. n + 1 - 1 = n /\ RegionIn(b.construction_stack, n) = RegionIn(below, n)
      BY <1>3, <2>4 DEF RegionIn
    <3> HIDE DEF top, below
    <3> QED
      BY <1>3, <2>2, <3>1, <3>2, <3>3, <3>4 DEF States
  <2>6. BackStep(b, i) = [cur |-> top[1], construction_stack |-> below,
                          status |-> "done", pss |-> streams]
    <3>1. Tracked(b, i)
      BY <1>6, <2>4 DEF Tracked
    <3>2. BackStep(b, i) = BackPush(b, i)
      BY <1>4, <1>6, <3>1 DEF BackStep
    <3>3. BackPush(b, i) = [b EXCEPT !.pss[i] = GetSpecialParsingStream(machine, top[1], stream[i], top[2], top[3]),
                                     !.cur = top[1], !.construction_stack = below]
      BY DEF BackPush, Last, Front
    <3> QED
      BY <1>4, <3>2, <3>3
  <2>7. streams \in [1..Len(stream) + 1 -> ParsingStream]
    BY <1>1, <1>4, <2>5, StreamsLookedUp
  <2> HIDE DEF top, below
  <2>8. b.cur = machine.enclosed_subnfa_map[top[2]].start_state
    <3>1. PICK e \in DOMAIN machine.enclosed_subnfa_map :
            b.cur = machine.enclosed_subnfa_map[e].start_state
      BY <1>4, <1>6 DEF PushLed
    <3>2. Region[machine][b.cur] = e
      BY <1>1, <3>1, StartStates
    <3> QED
      BY <2>5, <3>1, <3>2
  <2>9. <<"PUSH", top[2]>> \in GetNextStackOps(machine, top[1], stream[i])
    <3>1. PICK s \in States : \E op \in GetNextStackOps(machine, s, stream[i]) : op[1] = "PUSH"
      BY <1>6 DEF PushLed
    <3>2. PICK op \in GetNextStackOps(machine, s, stream[i]) : op[1] = "PUSH"
      BY <3>1
    <3>3. s \in DOMAIN Region[machine] /\ GetSpecialNextStates(machine, top[1], stream[i], top[2]) # {}
      BY <2>5 DEF States
    <3> QED
      BY <1>1, <2>5, <3>2, <3>3, WayOnOpens
  <2>10. PushStep(BackStep(b, i), b, i)
    <3> DEFINE before == BackStep(b, i)
    <3>1. /\ before.cur = top[1] /\ before.construction_stack = below
          /\ before.pss = streams
      BY <2>6
    <3> HIDE DEF before
    <3>2. /\ b.construction_stack = Append(before.construction_stack, <<before.cur, top[2], top[3]>>)
          /\ before.pss = [b.pss EXCEPT ![i] =
                            GetSpecialParsingStream(machine, before.cur, stream[i], top[2], top[3])]
      BY <2>4, <2>5, <3>1
    <3>3. /\ top[2] \in DOMAIN machine.enclosed_subnfa_map
          /\ top[3] \in GetSpecialNextStates(machine, before.cur, stream[i], top[2])
          /\ <<"PUSH", top[2]>> \in GetNextStackOps(machine, before.cur, stream[i])
      BY <2>5, <2>9, <3>1
    <3>4. PushStep(before, b, i)
      BY <2>8, <3>2, <3>3 DEF PushStep
    <3> QED
      BY <3>4 DEF before
  <2> HIDE DEF streams
  <2>11. FitFrames(below, from, top[1])
    <3> SUFFICES ASSUME NEW j \in DOMAIN from
                 PROVE  /\ below[j][1] \in from[j].nfa_states
                        /\ Region[machine][below[j][1]] = RegionIn(below, j - 1)
                        /\ below[j][3] \in GetSpecialNextStates(machine, below[j][1],
                                                                from[j].alphabet, below[j][2])
      BY <2>4, <2>5 DEF FitFrames
    <3>1. j \in 1..n /\ j \in DOMAIN to /\ to[j] = from[j] /\ below[j] = b.construction_stack[j]
      BY <1>3, <2>2, <2>4
    <3>2. RegionIn(b.construction_stack, j - 1) = RegionIn(below, j - 1)
      <4>1. j - 1 = 0 \/ j - 1 \in 1..n
        BY <1>3, <3>1
      <4> QED
        BY <2>4, <4>1 DEF RegionIn
    <3> QED
      BY <2>3, <3>1, <3>2
  <2>12. BackStep(b, i) \in [cur : hist[i].nfa_states, construction_stack : Seq(Bracket),
                             status : {"done"}, pss : [1..Len(stream) + 1 -> ParsingStream]]
    <3>1. /\ top[1] \in hist[i].nfa_states /\ below \in Seq(Bracket)
          /\ streams \in [1..Len(stream) + 1 -> ParsingStream]
      BY <2>4, <2>5, <2>7
    <3> HIDE DEF from, to, n
    <3> QED
      BY <2>6, <3>1
  <2>13. FitFrames(BackStep(b, i).construction_stack, hist[i].stack, BackStep(b, i).cur)
    BY <2>6, <2>11
  <2>14. BackStep(b, i) \in WalkedTo(hist, i)
    BY <2>12, <2>13 DEF WalkedTo
  <2> QED
    BY <2>10, <2>14 DEF Stepped
<1>7. ASSUME stack_op_list[i] = "POP", PopLed(hist[i], hist[i + 1], i)
      PROVE  BackStep(b, i) \in WalkedTo(hist, i) /\ Stepped(BackStep(b, i), b, i)
  <2> DEFINE entry == pull_op_map[i][b.cur]
             bracket == <<entry[1], entry[2], b.cur>>
             longer == Append(b.construction_stack, bracket)
             streams == [b.pss EXCEPT ![i] =
                           machine.enclosed_subnfa_map[entry[2]].final_states[entry[3]]]
  <2>1. /\ from # << >> /\ to = SubSeq(from, 1, n - 1)
        /\ i \in DOMAIN pull_op_map /\ b.cur \in DOMAIN pull_op_map[i]
        /\ entry[1] \in from[n].nfa_states
        /\ entry[2] \in DOMAIN machine.enclosed_subnfa_map
        /\ entry[3] \in hist[i].nfa_states
        /\ b.cur \in GetSpecialNextStates(machine, entry[1], from[n].alphabet, entry[2])
        /\ <<"POP", entry[2]>> \in GetNextStackOps(machine, entry[3], stream[i])
    BY <1>1, <1>4, <1>7 DEF PopLed, FeedsOf
  <2>2. /\ n \in Nat /\ n \in DOMAIN from /\ DOMAIN from = 1..n
        /\ Len(to) = n - 1 /\ DOMAIN to = 1..n - 1
        /\ \A j \in 1..n - 1 : to[j] = from[j]
    BY <1>3, <2>1, FrontProperties
  <2>3. /\ from[n] \in Frame /\ from[n].alphabet \in Alphabets
        /\ entry[1] \in DOMAIN Region[machine] /\ entry[3] \in DOMAIN Region[machine]
    <3>1. from[n] \in Frame
      BY <1>3, <2>2
    <3> QED
      BY <1>3, <2>1, <3>1 DEF Frame, States
  <2>4. bracket \in Bracket
    BY <1>4, <2>1, <2>3 DEF Bracket, States
  <2>5. /\ Region[machine][entry[3]] = entry[2]
        /\ entry[3] \in DOMAIN machine.enclosed_subnfa_map[entry[2]].final_states
        /\ Region[machine][b.cur] = Region[machine][entry[1]]
    <3> DEFINE op == <<"POP", entry[2]>>
    <3>1. op \in GetNextStackOps(machine, entry[3], stream[i]) /\ op[1] = "POP" /\ op[2] = entry[2]
      BY <2>1
    <3> HIDE DEF op
    <3>2. Region[machine][entry[3]] = op[2] /\ entry[3] \in DOMAIN machine.enclosed_subnfa_map[op[2]].final_states
      BY <1>1, <2>3, <3>1, StackOpsProperties
    <3>3. Region[machine][b.cur] = Region[machine][entry[1]]
      BY <1>1, <2>1, <2>3, NextStatesStay
    <3> QED
      BY <3>1, <3>2, <3>3
  <2>6. BackStep(b, i) = [cur |-> entry[3], status |-> "done", pss |-> streams,
                          construction_stack |-> longer]
    BY <1>4, <1>7, <2>1, <2>5 DEF BackStep, Tracked, BackPop
  <2>7. streams \in [1..Len(stream) + 1 -> ParsingStream]
    <3>1. machine.enclosed_subnfa_map[entry[2]].final_states[entry[3]] \in ParsingStream
      BY <1>1, <2>1, <2>5, MachinesAreWellFormed DEF WellFormed, StreamsAreThere
    <3> DEFINE kept == machine.enclosed_subnfa_map[entry[2]].final_states[entry[3]]
               pss == b.pss
               moments == 1..Len(stream) + 1
    <3>2. streams = [pss EXCEPT ![i] = kept] /\ kept \in ParsingStream
      BY <3>1
    <3>3. pss \in [moments -> ParsingStream]
      BY <1>4
    <3> HIDE DEF streams, kept, pss, moments
    <3>4. streams \in [moments -> ParsingStream]
      BY <3>2, <3>3
    <3> QED
      BY <3>4 DEF moments
  <2>8. PopStep(BackStep(b, i), b, i)
    <3> DEFINE before == BackStep(b, i)
    <3> HIDE DEF entry, longer, streams
    <3>1. /\ before.cur = entry[3] /\ before.construction_stack = longer
          /\ before.pss = streams
      BY <2>6
    <3> HIDE DEF before
    <3>2. /\ before.construction_stack = Append(b.construction_stack, <<entry[1], entry[2], b.cur>>)
          /\ before.pss = [b.pss EXCEPT ![i] =
                            machine.enclosed_subnfa_map[entry[2]].final_states[before.cur]]
      BY <3>1 DEF longer, streams
    <3>3. /\ entry[2] \in DOMAIN machine.enclosed_subnfa_map /\ entry[1] \in States
          /\ <<"POP", entry[2]>> \in GetNextStackOps(machine, before.cur, stream[i])
      BY <2>1, <2>3, <3>1 DEF States
    <3>4. PopStep(before, b, i)
      BY <3>2, <3>3 DEF PopStep
    <3> QED
      BY <3>4 DEF before
  <2> HIDE DEF entry, streams
  <2>9. /\ Len(b.construction_stack) = n - 1
        /\ Region[machine][b.cur] = RegionIn(b.construction_stack, n - 1)
        /\ \A j \in 1..n - 1 :
             /\ b.construction_stack[j][1] \in from[j].nfa_states
             /\ Region[machine][b.construction_stack[j][1]] = RegionIn(b.construction_stack, j - 1)
             /\ b.construction_stack[j][3] \in
                  GetSpecialNextStates(machine, b.construction_stack[j][1],
                                       from[j].alphabet, b.construction_stack[j][2])
    BY <1>4, <2>2 DEF FitFrames
  <2>10. /\ longer \in Seq(Bracket) /\ Len(longer) = n /\ longer[n] = bracket
         /\ \A j \in 1..n - 1 : longer[j] = b.construction_stack[j]
    BY <1>4, <2>2, <2>4, <2>9
  <2>11. FitFrames(longer, from, entry[3])
    <3>1. n # 0 /\ RegionIn(longer, n) = entry[2]
      BY <2>2, <2>10 DEF RegionIn
    <3> HIDE DEF longer, bracket
    <3>2. ASSUME NEW j \in DOMAIN from
          PROVE  /\ longer[j][1] \in from[j].nfa_states
                 /\ Region[machine][longer[j][1]] = RegionIn(longer, j - 1)
                 /\ longer[j][3] \in GetSpecialNextStates(machine, longer[j][1],
                                                          from[j].alphabet, longer[j][2])
      <4>1. RegionIn(longer, j - 1) = RegionIn(b.construction_stack, j - 1)
        <5>1. j - 1 = 0 \/ j - 1 \in 1..n - 1
          BY <2>2
        <5> QED
          BY <2>10, <5>1 DEF RegionIn
      <4>2. CASE j = n
        <5>1. longer[j][1] = entry[1] /\ longer[j][2] = entry[2] /\ longer[j][3] = b.cur
          BY <2>10, <4>2 DEF bracket
        <5> QED
          BY <2>1, <2>5, <2>9, <4>1, <4>2, <5>1
      <4>3. CASE j \in 1..n - 1
        BY <2>9, <2>10, <4>1, <4>3
      <4> QED
        BY <2>2, <4>2, <4>3
    <3> QED
      BY <2>5, <2>10, <3>1, <3>2 DEF FitFrames
  <2> HIDE DEF longer
  <2> QED
    BY <2>1, <2>6, <2>7, <2>8, <2>10, <2>11 DEF WalkedTo, Stepped
<1> QED
  BY <1>2, <1>5, <1>6, <1>7 DEF Led

\* The walk begins at the last moment: a state that is final is outside all brackets.
LEMMA BackStartWalks ==
  ASSUME IInv, NEW hist, IsHistory(hist), NEW s \in nfa_states, IsFinalState(machine, s)
  PROVE  BackStart(s) \in WalkedTo(hist, Len(stream) + 1)
<1>1. /\ machine \in Machines /\ s \in States /\ Len(stream) \in Nat
      /\ stack \in Seq(Frame)
      /\ hist[Len(stream) + 1].nfa_states = nfa_states
      /\ hist[Len(stream) + 1].stack = stack
  BY DEF IInv, TypeOK, IsHistory
<1>2. /\ Region[machine][s] = MainRegion
      /\ MainRegion \notin DOMAIN machine.enclosed_subnfa_map
      /\ machine.final_states[s] \in ParsingStream
  BY <1>1, MachinesAreWellFormed
     DEF WellFormed, RegionsAreApart, StreamsAreThere, States, IsFinalState
<1>3. stack = << >>
  <2> SUFFICES ASSUME stack # << >>
               PROVE  FALSE
    OBVIOUS
  <2>1. Len(stack) \in DOMAIN stack /\ s \in Level(Len(stack))
    BY <1>1 DEF Level
  <2>2. PICK q \in stack[Len(stack)].nfa_states :
          <<"PUSH", MainRegion>> \in GetNextStackOps(machine, q, stack[Len(stack)].alphabet)
    BY <1>2, <2>1 DEF IInv, RegionsNest
  <2>3. stack[Len(stack)] \in Frame
    BY <1>1, <2>1
  <2>4. q \in DOMAIN Region[machine] /\ stack[Len(stack)].alphabet \in Alphabets
    BY <2>2, <2>3 DEF Frame, States
  <2> DEFINE op == <<"PUSH", MainRegion>>
  <2>5. op[2] = MainRegion /\ op \in GetNextStackOps(machine, q, stack[Len(stack)].alphabet)
    BY <2>2
  <2> HIDE DEF op
  <2> QED
    BY <1>1, <1>2, <2>4, <2>5, StackOpsProperties
<1>4. BackStart(s).pss \in [1..Len(stream) + 1 -> ParsingStream]
  BY <1>2 DEF BackStart, ParsingStream
<1>5. /\ BackStart(s).cur = s /\ BackStart(s).status = "done"
      /\ BackStart(s).construction_stack = << >>
      /\ BackStart(s) = [cur |-> BackStart(s).cur, status |-> BackStart(s).status,
                         construction_stack |-> BackStart(s).construction_stack,
                         pss |-> BackStart(s).pss]
  BY DEF BackStart
<1>6. << >> \in Seq(Bracket) /\ Len(<< >>) = 0 /\ DOMAIN << >> = {}
  OBVIOUS
<1>7. FitFrames(<< >>, << >>, s)
  BY <1>2, <1>6 DEF FitFrames, RegionIn
<1> QED
  BY <1>1, <1>3, <1>4, <1>5, <1>6, <1>7 DEF WalkedTo

\* From a final state BackWalk is defined all the way, each moment from the next.
LEMMA BackWalkWalks ==
  ASSUME IInv, NEW hist, IsHistory(hist), NEW s \in nfa_states, IsFinalState(machine, s)
  PROVE  /\ BackWalk(s)[Len(stream) + 1] = BackStart(s)
         /\ \A i \in 1..Len(stream) + 1 : BackWalk(s)[i] \in WalkedTo(hist, i)
         /\ \A i \in DOMAIN stream : /\ BackWalk(s)[i] = BackStep(BackWalk(s)[i + 1], i)
                                     /\ Stepped(BackWalk(s)[i], BackWalk(s)[i + 1], i)
<1> DEFINE n == Len(stream)
           X == [i \in 1..n + 1 |-> WalkedTo(hist, i)]
           step == [i \in 1..n |-> [b \in X[i + 1] |-> BackStep(b, i)]]
           Body(b) == [i \in 1..n + 1 |-> IF i = n + 1 THEN BackStart(s) ELSE BackStep(b[i + 1], i)]
<1>1. n \in Nat /\ DOMAIN stream = 1..n
  BY DEF IInv, TypeOK
<1>2. BackStart(s) \in X[n + 1]
  BY <1>1, BackStartWalks
<1>3. ASSUME NEW i \in 1..n, NEW b \in X[i + 1]
      PROVE  step[i][b] = BackStep(b, i) /\ step[i][b] \in X[i]
  <2>1. i \in 1..n + 1 /\ i + 1 \in 1..n + 1 /\ i \in DOMAIN stream
    BY <1>1
  <2> QED
    BY <2>1, BackStepWalks
<1>4. PICK f : IsDefinedDown(f, BackStart(s), step, n, X)
  <2>1. StepsDown(step, n, X)
    BY <1>3 DEF StepsDown
  <2> HIDE DEF n, X, step
  <2> QED
    BY <1>1, <1>2, <2>1, DownwardRecursion
<1>5. f = Body(f)
  <2>1. ASSUME NEW i \in 1..n + 1
        PROVE  f[i] = IF i = n + 1 THEN BackStart(s) ELSE BackStep(f[i + 1], i)
    <3>1. CASE i = n + 1
      BY <1>4, <3>1 DEF IsDefinedDown
    <3>2. CASE i # n + 1
      <4>1. i \in 1..n /\ i + 1 \in 1..n + 1
        BY <1>1, <3>2
      <4> HIDE DEF n, X, step
      <4>2. f[i] = step[i][f[i + 1]] /\ f[i + 1] \in X[i + 1]
        BY <1>4, <4>1 DEF IsDefinedDown
      <4> QED
        BY <1>3, <3>2, <4>1, <4>2
    <3> QED
      BY <3>1, <3>2
  <2>2. f = [i \in 1..n + 1 |-> f[i]]
    BY <1>4 DEF IsDefinedDown
  <2> HIDE DEF n
  <2> QED
    BY <2>1, <2>2
<1>6. BackWalk(s) = Body(BackWalk(s))
  <2>1. BackWalk(s) = CHOOSE b : b = Body(b)
    BY DEF BackWalk
  <2> HIDE DEF Body
  <2> QED
    BY <1>5, <2>1
<1> DEFINE w == BackWalk(s)
<1>7. w[n + 1] \in X[n + 1]
  BY <1>1, <1>2, <1>6
<1>8. \A i \in 1..n : w[i] = BackStep(w[i + 1], i)
  <2>1. \A i \in 1..n : i \in 1..n + 1 /\ i # n + 1
    BY <1>1
  <2> QED
    BY <1>6, <2>1
<1>9. \A i \in 1..n + 1 : w[i] \in X[i]
  <2>1. \A i \in 1..n : w[i + 1] \in X[i + 1] => w[i] \in X[i]
    <3> HIDE DEF w, X, step
    <3> QED
      BY <1>3, <1>8
  <2> HIDE DEF w, X, n
  <2> QED
    BY <1>1, <1>7, <2>1, DownwardFamilyInduction
<1>10. ASSUME NEW i \in 1..n
       PROVE  Stepped(w[i], w[i + 1], i)
  <2>1. i + 1 \in 1..n + 1 /\ i \in DOMAIN stream
    BY <1>1
  <2>2. w[i + 1] \in WalkedTo(hist, i + 1)
    BY <1>9, <2>1
  <2> HIDE DEF w
  <2> QED
    BY <1>8, <2>1, <2>2, BackStepWalks
<1>11. w[n + 1] = BackStart(s)
  BY <1>1, <1>6
<1> QED
  BY <1>1, <1>8, <1>9, <1>10, <1>11

\* What the loop has found is a step of the machine.
LEMMA SteppedIsStep ==
  ASSUME NEW hist, NEW i, NEW before, NEW after,
         before \in WalkedTo(hist, i), after \in WalkedTo(hist, i + 1),
         Stepped(before, after, i)
  PROVE  IsStep(before, after, i)
<1> DEFINE outside == before.construction_stack
<1>1. outside \in Seq(Bracket) /\ after.construction_stack \in Seq(Bracket)
  BY DEF WalkedTo
<1>2. CASE NopStep(before, after, i)
  BY <1>2 DEF NopStep, IsStep
<1>3. CASE PushStep(before, after, i)
  BY <1>3 DEF PushStep, IsStep
<1>4. CASE PopStep(before, after, i)
  <2>1. PICK e \in DOMAIN machine.enclosed_subnfa_map, q \in States :
          /\ <<"POP", e>> \in GetNextStackOps(machine, before.cur, stream[i])
          /\ outside = Append(after.construction_stack, <<q, e, after.cur>>)
    BY <1>4 DEF PopStep
  <2> DEFINE bracket == <<q, e, after.cur>>
             n == Len(after.construction_stack)
  <2>2. n \in Nat /\ outside = Append(after.construction_stack, bracket) /\ Len(outside) = n + 1
    BY <1>1, <2>1
  <2>3. outside[n + 1] = bracket
    BY <1>1, <2>2
  <2>4. bracket \in Bracket
    <3> HIDE DEF bracket
    <3>1. n + 1 \in DOMAIN outside
      BY <1>1, <2>2
    <3> QED
      BY <1>1, <2>3, <3>1
  <2>5. SubSeq(outside, 1, Len(outside) - 1) = after.construction_stack
    <3> HIDE DEF bracket, outside
    <3> QED
      BY <1>1, <2>2, <2>4, OneMore
  <2>6. outside # << >> /\ Last(outside) = bracket /\ Front(outside) = after.construction_stack
    <3> HIDE DEF bracket, outside
    <3> QED
      BY <1>1, <2>2, <2>3, <2>5 DEF Last, Front
  <2> QED
    BY <2>1, <2>6 DEF IsStep
<1> QED
  BY <1>2, <1>3, <1>4 DEF Stepped

-------------------------------------------------------------------------------
(* The operations of an instance are operations of its CoreParser. *)

\* The operations of a ParserInstance are operations of its CoreParser, or none.
LEMMA InstanceIsCoreParser == InstanceSpec => Spec
<1>1. InstanceInitial => Init
  BY DEF InstanceInitial, InstanceStart, Init
<1>2. [InstanceNext]_instance_vars => [Next]_vars
  BY DEF InstanceNext, InstanceFeed, InstanceReset, InstanceInit, End, Next, instance_vars, vars
<1> QED
  BY <1>1, <1>2, PTL DEF InstanceSpec, Spec

\* In every state there is a history that the records tell of.
LEMMA HistoryInvariant == Spec => [](IInv /\ HasHistory)
<1>1. Init => IInv /\ HasHistory
  BY InitInv, HistoryInit
<1>2. IInv /\ HasHistory /\ [Next]_vars => (IInv /\ HasHistory)'
  BY NextInv, NextHistory
<1> QED
  BY <1>1, <1>2, PTL DEF Spec

\* For every well-formed machine, however the stream was fed and whichever of
\* several previous states the hash maps kept: from every final state Parse finds
\* a record for each feed, pops construction_stack only when something is on it,
\* and arrives at the start state with the stack of brackets empty; and from there
\* to the final state its states and brackets are one run of the machine.
THEOREM WalksAlwaysLeadBack == InstanceSpec => []WalksBackToStart
<1>1. IInv /\ HasHistory => WalksBackToStart
  <2> SUFFICES ASSUME IInv, HasHistory, NEW s \in nfa_states, IsFinalState(machine, s)
               PROVE  LET walk == BackWalk(s)
                      IN /\ walk[1].status = "done"
                         /\ walk[1].cur = machine.start_state
                         /\ walk[1].construction_stack = << >>
                         /\ \A i \in DOMAIN stream : IsStep(walk[i], walk[i + 1], i)
    BY DEF WalksBackToStart
  <2>1. PICK hist : IsHistory(hist)
    BY DEF HasHistory
  <2>2. /\ Len(stream) \in Nat /\ 1 \in 1..Len(stream) + 1
        /\ \A i \in DOMAIN stream : i \in 1..Len(stream) + 1 /\ i + 1 \in 1..Len(stream) + 1
    BY DEF IInv, TypeOK
  <2> DEFINE walk == BackWalk(s)
  <2>3. /\ \A i \in 1..Len(stream) + 1 : walk[i] \in WalkedTo(hist, i)
        /\ \A i \in DOMAIN stream : Stepped(walk[i], walk[i + 1], i)
    BY <2>1, BackWalkWalks
  <2> HIDE DEF walk
  <2>4. hist[1].nfa_states = {machine.start_state} /\ hist[1].stack = << >>
    BY <2>1 DEF IsHistory
  <2>5. /\ walk[1].cur \in {machine.start_state} /\ walk[1].status = "done"
        /\ walk[1].construction_stack \in Seq(Bracket)
        /\ Len(walk[1].construction_stack) = 0
    BY <2>2, <2>3, <2>4 DEF WalkedTo, FitFrames
  <2>6. \A i \in DOMAIN stream : IsStep(walk[i], walk[i + 1], i)
    BY <2>2, <2>3, SteppedIsStep
  <2> QED
    BY <2>5, <2>6 DEF walk
<1> QED
  BY <1>1, InstanceIsCoreParser, HistoryInvariant, PTL
================================================================================
