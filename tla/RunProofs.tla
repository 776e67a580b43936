-------------------------------- MODULE RunProofs --------------------------------
(***************************************************************************)
(* Proof that CoreParser follows exactly the runs of its machine, for every *)
(* well-formed machine and every stream.  A run fits a set of states `top`  *)
(* and a stack when it could have been in the states they hold, level by    *)
(* level; the invariant is that the runs over the stream are those that fit.*)
(***************************************************************************)
EXTENDS MachineRuns, CoreParserProofs, Induction

Ents(m) == DOMAIN m.enclosed_subnfa_map
OpenBracket(m) == [state : DOMAIN Region[m], alphabet : Alphabets, ent : Ents(m)]
Run(m) == [state : DOMAIN Region[m], open : Seq(OpenBracket(m))]
FrameOf(m) == [alphabet : Alphabets, nfa_states : SUBSET DOMAIN Region[m]]

StateAt(r, i) == IF i = Len(r.open) THEN r.state ELSE r.open[i + 1].state
LevelAt(top, stk, i) == IF i = Len(stk) THEN top ELSE stk[i + 1].nfa_states

\* The bracket b was opened from one of the states of the frame f, for the ent that the
\* state s after it is in.
Opened(m, b, f, s) ==
  /\ b.alphabet = f.alphabet /\ b.ent = Region[m][s]
  /\ <<"PUSH", b.ent>> \in GetNextStackOps(m, b.state, f.alphabet)

RunFits(m, top, stk, r) ==
  /\ Len(r.open) = Len(stk)
  /\ \A i \in 0..Len(stk) : StateAt(r, i) \in LevelAt(top, stk, i)
  /\ \A i \in 1..Len(stk) : Opened(m, r.open[i], stk[i], StateAt(r, i))

-------------------------------------------------------------------------------
(* Runs that fit, and sequences *)

\* The state of a run that fits may be any other of its region.
LEMMA FitsInside ==
  ASSUME NEW m, NEW top, NEW other, NEW stk, NEW r \in Run(m), NEW t \in other,
         RunFits(m, top, stk, r), Len(stk) \in Nat, Region[m][t] = Region[m][r.state]
  PROVE  RunFits(m, other, stk, [r EXCEPT !.state = t])
<1> DEFINE u == [r EXCEPT !.state = t]
<1>1. u.open = r.open /\ u.state = t /\ Len(r.open) = Len(stk)
  BY DEF Run, RunFits
<1>2. ASSUME NEW i \in 0..Len(stk)
      PROVE  StateAt(u, i) \in LevelAt(other, stk, i)
  BY <1>1 DEF StateAt, LevelAt, RunFits
<1>3. ASSUME NEW i \in 1..Len(stk)
      PROVE  Opened(m, u.open[i], stk[i], StateAt(u, i))
  <2>1. Opened(m, r.open[i], stk[i], StateAt(r, i))
    BY DEF RunFits
  <2>2. Region[m][StateAt(u, i)] = Region[m][StateAt(r, i)]
    BY <1>1 DEF StateAt
  <2> QED
    BY <1>1, <2>1, <2>2 DEF Opened
<1> HIDE DEF u
<1>4. RunFits(m, other, stk, u)
  BY <1>1, <1>2, <1>3 DEF RunFits
<1> QED
  BY <1>4 DEF u

\* A run with one bracket more fits if it fits without, and the bracket was opened
\* from the frame.
LEMMA FitsInto ==
  ASSUME NEW m, NEW top, NEW stk \in Seq(FrameOf(m)), NEW f \in FrameOf(m),
         NEW o \in Seq(OpenBracket(m)), NEW b \in OpenBracket(m), NEW t
  PROVE  RunFits(m, top, Append(stk, f), [state |-> t, open |-> Append(o, b)]) <=>
           /\ RunFits(m, f.nfa_states, stk, [state |-> b.state, open |-> o])
           /\ t \in top /\ Opened(m, b, f, t)
<1> DEFINE u == [state |-> t, open |-> Append(o, b)]
           r == [state |-> b.state, open |-> o]
           stk2 == Append(stk, f)
           n == Len(stk)
<1>1. /\ n \in Nat /\ Len(stk2) = n + 1 /\ \A i \in 1..n : stk2[i] = stk[i]
      /\ stk2[n + 1] = f
  BY OneMore
<1>2. /\ Len(o) \in Nat /\ Len(u.open) = Len(o) + 1 /\ \A i \in 1..Len(o) : u.open[i] = o[i]
      /\ u.open[Len(o) + 1] = b /\ u.state = t /\ r.state = b.state /\ r.open = o
  BY OneMore
<1> HIDE DEF u, r, stk2, n
<1> SUFFICES ASSUME Len(o) = n
             PROVE  RunFits(m, top, stk2, u) <=>
                      /\ RunFits(m, f.nfa_states, stk, r)
                      /\ t \in top /\ Opened(m, b, f, t)
  <2>1. RunFits(m, top, stk2, u) => Len(o) + 1 = n + 1
    BY <1>1, <1>2 DEF RunFits
  <2>2. RunFits(m, f.nfa_states, stk, r) => Len(o) = n
    BY <1>2 DEF RunFits, n
  <2>3. Len(o) + 1 = n + 1 => Len(o) = n
    BY <1>1, <1>2
  <2> QED
    BY <2>1, <2>2, <2>3 DEF u, r, stk2
<1>3. ASSUME NEW i \in 0..n
      PROVE  StateAt(u, i) = StateAt(r, i) /\ LevelAt(top, stk2, i) = LevelAt(f.nfa_states, stk, i)
  <2>1. CASE i = n
    BY <1>1, <1>2, <2>1 DEF StateAt, LevelAt, n
  <2>2. CASE i # n
    <3>1. i + 1 \in 1..n /\ i # n + 1
      BY <1>1, <2>2
    <3> QED
      BY <1>1, <1>2, <2>2, <3>1 DEF StateAt, LevelAt, n
  <2> QED
    BY <2>1, <2>2
<1>4. StateAt(u, n + 1) = t /\ LevelAt(top, stk2, n + 1) = top
  BY <1>1, <1>2 DEF StateAt, LevelAt
<1>5. (\A i \in 0..Len(stk2) : StateAt(u, i) \in LevelAt(top, stk2, i)) <=>
        (t \in top /\ \A i \in 0..n : StateAt(r, i) \in LevelAt(f.nfa_states, stk, i))
  <2>1. \A i \in 0..n + 1 : i = n + 1 \/ i \in 0..n
    BY <1>1
  <2>2. n + 1 \in 0..n + 1 /\ \A i \in 0..n : i \in 0..n + 1
    BY <1>1
  <2> QED
    BY <1>1, <1>3, <1>4, <2>1, <2>2
<1>6. (\A i \in 1..Len(stk2) : Opened(m, u.open[i], stk2[i], StateAt(u, i))) <=>
        (Opened(m, b, f, t) /\ \A i \in 1..n : Opened(m, r.open[i], stk[i], StateAt(r, i)))
  <2>1. \A i \in 1..n + 1 : i = n + 1 \/ i \in 1..n
    BY <1>1
  <2>2. n + 1 \in 1..n + 1 /\ \A i \in 1..n : i \in 1..n + 1 /\ i \in 0..n
    BY <1>1
  <2>3. \A i \in 1..n : Opened(m, u.open[i], stk2[i], StateAt(u, i)) <=>
                        Opened(m, r.open[i], stk[i], StateAt(r, i))
    BY <1>1, <1>2, <1>3, <2>2
  <2>4. Opened(m, u.open[n + 1], stk2[n + 1], StateAt(u, n + 1)) <=> Opened(m, b, f, t)
    BY <1>1, <1>2, <1>4
  <2> QED
    BY <1>1, <2>1, <2>2, <2>3, <2>4
<1>7. Len(u.open) = Len(stk2) /\ Len(r.open) = Len(stk) /\ n = Len(stk)
  BY <1>1, <1>2 DEF n
<1> QED
  BY <1>5, <1>6, <1>7 DEF RunFits

-------------------------------------------------------------------------------
(* The runs of a well-formed machine. *)

\* Steps of runs are runs.
LEMMA StepsAreRuns ==
  ASSUME NEW m \in Machines, NEW r \in Run(m), NEW a \in Alphabets
  PROVE  RunSteps(m, r, a) \subseteq Run(m)
<1>1. r.state \in DOMAIN Region[m] /\ r.open \in Seq(OpenBracket(m))
  BY DEF Run
<1>2. ASSUME NEW u \in StepInside(m, r, a)
      PROVE  u \in Run(m)
  BY <1>1, NextStatesStay DEF StepInside, Run
<1>3. ASSUME NEW u \in StepInto(m, r, a)
      PROVE  u \in Run(m)
  <2>1. PICK e \in Ents(m) :
          u = [state |-> m.enclosed_subnfa_map[e].start_state,
               open |-> Append(r.open, [state |-> r.state, alphabet |-> a, ent |-> e])]
    BY DEF StepInto, EntsOf, Ents
  <2>2. [state |-> r.state, alphabet |-> a, ent |-> e] \in OpenBracket(m)
    BY <1>1 DEF OpenBracket
  <2>3. Append(r.open, [state |-> r.state, alphabet |-> a, ent |-> e]) \in Seq(OpenBracket(m))
    <3> HIDE DEF Ents
    <3> QED
      BY <1>1, <2>2, OneMore
  <2>4. m.enclosed_subnfa_map[e].start_state \in DOMAIN Region[m]
    BY StartStates DEF Ents
  <2> QED
    BY <2>1, <2>3, <2>4 DEF Run
<1>4. ASSUME NEW u \in StepOut(m, r, a)
      PROVE  u \in Run(m)
  <2> DEFINE b == r.open[Len(r.open)]
             front == SubSeq(r.open, 1, Len(r.open) - 1)
  <2>1. Len(r.open) # 0 /\ \E t \in GetSpecialNextStates(m, b.state, b.alphabet, b.ent) :
          u = [state |-> t, open |-> front]
    BY DEF StepOut
  <2>2. front \in Seq(OpenBracket(m)) /\ b \in OpenBracket(m)
    BY <1>1, <2>1, LastApart
  <2>3. b.state \in DOMAIN Region[m] /\ b.alphabet \in Alphabets /\ b.ent \in Ents(m)
    BY <2>2 DEF OpenBracket
  <2> HIDE DEF b, front
  <2>4. \A t \in GetSpecialNextStates(m, b.state, b.alphabet, b.ent) : t \in DOMAIN Region[m]
    BY <2>3, NextStatesStay DEF Ents
  <2> QED
    BY <2>1, <2>2, <2>4 DEF Run
<1> QED
  BY <1>2, <1>3, <1>4 DEF RunSteps

\* A run begins as one.
LEMMA StartIsRun ==
  ASSUME NEW m \in Machines
  PROVE  StartRun(m) \in Run(m)
BY StartStates DEF StartRun, Run

StepAll(m, R, a) == UNION {RunSteps(m, r, a) : r \in R}

\* The recursive definition of the runs over a prefix defines them.
LEMMA RunsAreDefined ==
  ASSUME NEW m \in Machines, NEW w \in Seq(Alphabets)
  PROVE  /\ RunsUpTo(m, w)[0] = {StartRun(m)}
         /\ \A i \in 1..Len(w) : RunsUpTo(m, w)[i] = StepAll(m, RunsUpTo(m, w)[i - 1], w[i])
         /\ \A i \in 0..Len(w) : RunsUpTo(m, w)[i] \subseteq Run(m)
<1> DEFINE n == Len(w)
           X == [i \in 0..n |-> SUBSET Run(m)]
           step == [i \in 1..n |-> [R \in SUBSET Run(m) |-> StepAll(m, R, w[i])]]
           Body(f) == [i \in 0..n |-> IF i = 0 THEN {StartRun(m)} ELSE StepAll(m, f[i - 1], w[i])]
<1>1. n \in Nat /\ \A i \in 1..n : w[i] \in Alphabets
  BY LenProperties
<1>2. {StartRun(m)} \in X[0]
  BY <1>1, StartIsRun
<1>3. ASSUME NEW i \in 1..n, NEW R \in SUBSET Run(m)
      PROVE  step[i][R] = StepAll(m, R, w[i]) /\ step[i][R] \in SUBSET Run(m)
  <2>1. StepAll(m, R, w[i]) \in SUBSET Run(m)
    BY <1>1, <1>3, StepsAreRuns DEF StepAll
  <2> QED
    BY <2>1
<1>4. PICK f : IsDefinedUp(f, {StartRun(m)}, step, n, X)
  <2>1. StepsUp(step, n, X)
    <3>1. \A i \in 1..n : i \in 0..n /\ i - 1 \in 0..n
      BY <1>1
    <3> HIDE DEF step
    <3> QED
      BY <1>3, <3>1 DEF StepsUp
  <2> HIDE DEF n, X, step
  <2> QED
    BY <1>1, <1>2, <2>1, Recursion
<1>5. f = Body(f)
  <2>1. ASSUME NEW i \in 0..n
        PROVE  f[i] = IF i = 0 THEN {StartRun(m)} ELSE StepAll(m, f[i - 1], w[i])
    <3>1. CASE i = 0
      BY <1>4, <3>1 DEF IsDefinedUp
    <3>2. CASE i # 0
      <4>1. i \in 1..n /\ i - 1 \in 0..n
        BY <1>1, <3>2
      <4>2. f[i] = step[i][f[i - 1]] /\ f[i - 1] \in X[i - 1]
        <5> HIDE DEF n, X, step
        <5> QED
          BY <1>4, <4>1 DEF IsDefinedUp
      <4>3. f[i - 1] \in SUBSET Run(m)
        BY <4>1, <4>2
      <4> HIDE DEF n, X, step
      <4> QED
        BY <1>3, <3>2, <4>1, <4>2, <4>3
    <3> QED
      BY <3>1, <3>2
  <2>2. f = [i \in 0..n |-> f[i]]
    BY <1>4 DEF IsDefinedUp
  <2> HIDE DEF n
  <2> QED
    BY <2>1, <2>2
<1> DEFINE g == RunsUpTo(m, w)
<1>6. g = Body(g)
  <2>1. g = CHOOSE h : h = Body(h)
    BY DEF RunsUpTo, StepAll
  <2> HIDE DEF Body
  <2> QED
    BY <1>5, <2>1
<1>7. g[0] = {StartRun(m)}
  BY <1>1, <1>6
<1>8. ASSUME NEW i \in 1..n
      PROVE  g[i] = StepAll(m, g[i - 1], w[i])
  <2>1. i \in 0..n /\ i # 0
    BY <1>1
  <2> QED
    BY <1>6, <2>1
<1>9. \A i \in 0..n : g[i] \in X[i]
  <2>1. ASSUME NEW i \in 1..n, g[i - 1] \in X[i - 1]
        PROVE  g[i] \in X[i]
    <3>1. i \in 0..n /\ i - 1 \in 0..n
      BY <1>1
    <3>2. g[i - 1] \in SUBSET Run(m)
      BY <2>1, <3>1
    <3>3. g[i] = step[i][g[i - 1]]
      <4> HIDE DEF g, step, X
      <4> QED
        BY <1>3, <1>8, <3>2
    <3>4. g[i] \in SUBSET Run(m)
      <4> HIDE DEF g, step, X
      <4> QED
        BY <1>3, <3>2, <3>3
    <3> HIDE DEF g, step
    <3> QED
      BY <3>1, <3>4
  <2>2. g[0] \in X[0]
    <3> HIDE DEF g, X
    <3> QED
      BY <1>2, <1>7
  <2> HIDE DEF g, X, n
  <2> QED
    BY <1>1, <2>1, <2>2, FamilyInduction
<1> QED
  BY <1>7, <1>8, <1>9

\* Over no alphabets there is one run.
LEMMA RunsOverNothing ==
  ASSUME NEW m \in Machines
  PROVE  RunsOver(m, << >>) = {StartRun(m)}
<1>1. << >> \in Seq(Alphabets) /\ Len(<< >>) = 0
  OBVIOUS
<1> QED
  BY <1>1, RunsAreDefined DEF RunsOver

\* One alphabet more.
LEMMA RunsGrow ==
  ASSUME NEW m \in Machines, NEW w \in Seq(Alphabets), NEW a \in Alphabets
  PROVE  /\ RunsOver(m, Append(w, a)) = StepAll(m, RunsOver(m, w), a)
         /\ RunsOver(m, w) \subseteq Run(m)
<1> DEFINE n == Len(w)
           v == Append(w, a)
           f == RunsUpTo(m, v)
           g == RunsUpTo(m, w)
           X == [i \in 0..n |-> {g[i]}]
<1>1. /\ v \in Seq(Alphabets) /\ n \in Nat /\ Len(v) = n + 1
      /\ v[n + 1] = a /\ \A i \in 1..n : v[i] = w[i]
  BY OneMore
<1> HIDE DEF v
<1>2. /\ f[0] = {StartRun(m)}
      /\ \A i \in 1..n + 1 : f[i] = StepAll(m, f[i - 1], v[i])
  BY <1>1, RunsAreDefined
<1>3. /\ g[0] = {StartRun(m)}
      /\ \A i \in 1..n : g[i] = StepAll(m, g[i - 1], w[i])
      /\ g[n] \subseteq Run(m)
  BY <1>1, RunsAreDefined
<1> HIDE DEF f, g
<1>4. \A i \in 0..n : f[i] \in X[i]
  <2>1. f[0] \in X[0]
    BY <1>1, <1>2, <1>3
  <2>2. ASSUME NEW i \in 1..n, f[i - 1] \in X[i - 1]
        PROVE  f[i] \in X[i]
    <3>1. i \in 0..n /\ i - 1 \in 0..n /\ i \in 1..n + 1
      BY <1>1
    <3>2. f[i - 1] = g[i - 1]
      BY <2>2, <3>1
    <3>3. f[i] = g[i]
      BY <1>1, <1>2, <1>3, <3>1, <3>2
    <3> QED
      BY <3>1, <3>3
  <2> HIDE DEF X, n
  <2> QED
    BY <1>1, <2>1, <2>2, FamilyInduction
<1>5. f[n] = g[n]
  BY <1>1, <1>4
<1>6. n + 1 \in 1..n + 1 /\ n + 1 - 1 = n
  BY <1>1
<1>7. f[n + 1] = StepAll(m, g[n], a)
  BY <1>1, <1>2, <1>5, <1>6
<1> QED
  BY <1>1, <1>3, <1>7 DEF RunsOver, f, g, v

-------------------------------------------------------------------------------
(* The inductive invariant, and each way to feed an alphabet. *)

RunsFit ==
  \A r \in Run(machine) :
    r \in RunsOver(machine, stream) <=> RunFits(machine, nfa_states, stack, r)

\* What the three ways share.  An operation on a, of a state that the parser is in,
\* excludes the other kinds of steps on a for all states of the machine.
LEMMA OperationsExclude ==
  ASSUME NEW m \in Machines, NEW s \in DOMAIN Region[m], NEW a \in Alphabets,
         NEW op \in GetNextStackOps(m, s, a), NEW r \in Run(m)
  PROVE  /\ GetNextStates(m, r.state, a) = {} /\ StepInside(m, r, a) = {}
         /\ op[1] = "PUSH" => StepOut(m, r, a) = {}
         /\ op[1] = "POP" => StepInto(m, r, a) = {}
<1>1. r.state \in DOMAIN Region[m]
  BY DEF Run
<1>2. GetNextStates(m, r.state, a) = {}
  BY <1>1, MachinesAreWellFormed DEF WellFormed, RegionsAreApart
<1>3. \A q \in GetNextStackOps(m, r.state, a) : q[1] = op[1]
  BY <1>1, StackOpsAgree
<1>4. /\ op[1] = "PUSH" => EntsOf(m, r.state, a, "POP") = {}
      /\ op[1] = "POP" => EntsOf(m, r.state, a, "PUSH") = {}
  BY <1>3 DEF EntsOf
<1> QED
  BY <1>2, <1>4 DEF StepInside, StepInto, StepOut

\* The invariants, as the lemmas below use them.
LEMMA StatesOfRuns ==
  ASSUME IInv, RunsFit
  PROVE  /\ machine \in Machines /\ stream \in Seq(Alphabets)
         /\ nfa_states \in SUBSET DOMAIN Region[machine]
         /\ stack \in Seq(FrameOf(machine))
         /\ RunsOver(machine, stream) \subseteq Run(machine)
         /\ \A r \in RunsOver(machine, stream) : r.state \in nfa_states
<1>1. /\ machine \in Machines /\ stream \in Seq(Alphabets)
      /\ nfa_states \in SUBSET DOMAIN Region[machine]
      /\ stack \in Seq(FrameOf(machine))
  BY DEF IInv, TypeOK, States, Frame, FrameOf
<1>2. RunsOver(machine, stream) \subseteq Run(machine)
  <2>1. PICK m \in Machines, w \in Seq(Alphabets) : m = machine /\ w = stream
    BY <1>1
  <2>2. RunsOver(m, w) \subseteq Run(m)
    <3>1. RunsUpTo(m, w)[Len(w)] \subseteq Run(m)
      BY RunsAreDefined, LenProperties
    <3> QED
      BY <3>1 DEF RunsOver
  <2> QED
    BY <2>1, <2>2
<1>3. ASSUME NEW r \in RunsOver(machine, stream)
      PROVE  r.state \in nfa_states
  <2>1. RunFits(machine, nfa_states, stack, r)
    BY <1>2 DEF RunsFit
  <2>2. Len(stack) \in 0..Len(stack)
    BY <1>1, LenProperties
  <2> QED
    BY <2>1, <2>2 DEF RunFits, StateAt, LevelAt
<1> QED
  BY <1>1, <1>2, <1>3

\* Opening a bracket: the runs that go into it are those that fit the new frame.
LEMMA PushFits ==
  ASSUME IInv, RunsFit, NEW a \in Alphabets, FeedPush(a)
  PROVE  RunsFit'
<1> DEFINE ops == NextStackOps(nfa_states, a)
           start(e) == machine.enclosed_subnfa_map[e].start_state
<1>1. PICK m, w, top, stk :
         /\ m = machine /\ w = stream /\ top = nfa_states /\ stk = stack
         /\ m \in Machines /\ w \in Seq(Alphabets)
         /\ top \in SUBSET DOMAIN Region[m] /\ stk \in Seq(FrameOf(m))
  BY StatesOfRuns
<1> DEFINE f == [alphabet |-> a, nfa_states |-> top]
<1>2. /\ machine' = m /\ stream' = Append(w, a) /\ stack' = Append(stk, f)
      /\ nfa_states' = {start(p[1]) : p \in ops}
  BY <1>1 DEF FeedPush, Record
<1>3. /\ ops # {}
      /\ \A p \in ops : /\ p[2] \in top /\ p[1] \in Ents(m)
                        /\ <<"PUSH", p[1]>> \in GetNextStackOps(m, p[2], a)
  BY <1>1, NextStackOpsProperties DEF FeedPush, States, Ents
<1>4. \A e \in Ents(m) : start(e) \in DOMAIN Region[m] /\ Region[m][start(e)] = e
  BY <1>1, StartStates DEF Ents
<1>5. f \in FrameOf(m)
  BY <1>1 DEF FrameOf
<1>6. \E s \in top : \E op \in GetNextStackOps(m, s, a) : op[1] = "PUSH"
  BY <1>3
<1>7. /\ RunsOver(m, Append(w, a)) = StepAll(m, RunsOver(m, w), a)
      /\ RunsOver(m, w) \subseteq Run(m)
  BY <1>1, RunsGrow
<1>8. \A r \in Run(m) : RunSteps(m, r, a) = StepInto(m, r, a)
  BY <1>1, <1>6, OperationsExclude DEF RunSteps
<1>9. \A r \in Run(m) : r \in RunsOver(m, w) <=> RunFits(m, top, stk, r)
  BY <1>1 DEF RunsFit
<1>10. ASSUME NEW e \in Ents(m), NEW s \in top, <<"PUSH", e>> \in GetNextStackOps(m, s, a)
       PROVE  start(e) \in nfa_states'
  <2>1. <<e, s>> \in ops
    BY <1>1, <1>10 DEF NextStackOps
  <2> QED
    BY <1>2, <2>1
<1> HIDE DEF ops
<1>11. ASSUME NEW u \in Run(m)
       PROVE  u \in RunsOver(m, Append(w, a)) <=> RunFits(m, nfa_states', Append(stk, f), u)
  <2>1. ASSUME u \in RunsOver(m, Append(w, a))
        PROVE  RunFits(m, nfa_states', Append(stk, f), u)
    <3>1. PICK r \in RunsOver(m, w) : u \in StepInto(m, r, a)
      BY <1>7, <1>8, <2>1 DEF StepAll
    <3>2. PICK e \in EntsOf(m, r.state, a, "PUSH") :
            u = [state |-> start(e),
                 open |-> Append(r.open, [state |-> r.state, alphabet |-> a, ent |-> e])]
      BY <1>1, <3>1 DEF StepInto
    <3> DEFINE b == [state |-> r.state, alphabet |-> a, ent |-> e]
    <3>3. /\ e \in Ents(m) /\ <<"PUSH", e>> \in GetNextStackOps(m, r.state, a)
      BY <3>2 DEF EntsOf, Ents
    <3>4. /\ r \in Run(m) /\ r.state \in DOMAIN Region[m] /\ r.open \in Seq(OpenBracket(m))
          /\ r = [state |-> r.state, open |-> r.open] /\ r.state \in top
      BY <1>1, <1>7, StatesOfRuns DEF Run
    <3>5. b \in OpenBracket(m)
      BY <3>3, <3>4 DEF OpenBracket
    <3>6. RunFits(m, f.nfa_states, stk, [state |-> b.state, open |-> r.open])
      BY <1>9, <3>4
    <3>7. start(e) \in nfa_states' /\ Opened(m, b, f, start(e))
      BY <1>4, <1>10, <3>3, <3>4 DEF Opened
    <3> HIDE DEF b, f
    <3>8. RunFits(m, nfa_states', Append(stk, f), [state |-> start(e), open |-> Append(r.open, b)])
      BY <1>1, <1>5, <3>4, <3>5, <3>6, <3>7, FitsInto
    <3> QED
      BY <3>2, <3>8 DEF b
  <2>2. ASSUME RunFits(m, nfa_states', Append(stk, f), u)
        PROVE  u \in RunsOver(m, Append(w, a))
    <3>1. /\ u.open \in Seq(OpenBracket(m)) /\ u = [state |-> u.state, open |-> u.open]
          /\ Len(u.open) # 0
      <4>1. Len(Append(stk, f)) = Len(stk) + 1 /\ Len(stk) \in Nat
        BY <1>1, <1>5, OneMore
      <4> QED
        BY <2>2, <4>1 DEF Run, RunFits
    <3>2. PICK o \in Seq(OpenBracket(m)), b \in OpenBracket(m) : u.open = Append(o, b)
      BY <3>1, LastApart
    <3>3. RunFits(m, nfa_states', Append(stk, f), [state |-> u.state, open |-> Append(o, b)])
      BY <2>2, <3>1, <3>2
    <3>4. /\ RunFits(m, f.nfa_states, stk, [state |-> b.state, open |-> o])
          /\ u.state \in nfa_states' /\ Opened(m, b, f, u.state)
      <4> HIDE DEF f
      <4> QED
        BY <1>1, <1>5, <3>3, FitsInto
    <3> DEFINE r == [state |-> b.state, open |-> o]
    <3>5. r \in Run(m) /\ r \in RunsOver(m, w) /\ r.state = b.state /\ r.open = o
      BY <1>9, <3>4 DEF Run, OpenBracket
    <3>6. /\ b.alphabet = a /\ b.ent = Region[m][u.state]
          /\ <<"PUSH", b.ent>> \in GetNextStackOps(m, b.state, a)
          /\ b.ent \in Ents(m) /\ b = [state |-> b.state, alphabet |-> a, ent |-> b.ent]
      BY <3>4 DEF Opened, OpenBracket
    <3>7. u.state = start(b.ent)
      <4>1. PICK p \in ops : u.state = start(p[1])
        BY <1>2, <3>4
      <4> QED
        BY <1>3, <1>4, <3>6, <4>1
    <3>8. u = [state |-> start(b.ent), open |-> Append(o, b)]
      BY <3>1, <3>2, <3>7
    <3> HIDE DEF r
    <3>9. b.ent \in EntsOf(m, r.state, a, "PUSH")
      BY <3>5, <3>6 DEF EntsOf, Ents
    <3>10. u \in StepInto(m, r, a)
      BY <1>1, <3>5, <3>6, <3>8, <3>9 DEF StepInto
    <3> QED
      BY <1>7, <1>8, <3>5, <3>10 DEF StepAll
  <2> QED
    BY <2>1, <2>2
<1> QED
  BY <1>2, <1>11 DEF RunsFit

\* Closing one: the runs that leave it are those that fit the frames below.
LEMMA PopFits ==
  ASSUME IInv, RunsFit, NEW a \in Alphabets, FeedPop(a)
  PROVE  RunsFit'
<1> DEFINE ops == NextStackOps(nfa_states, a)
<1>1. PICK m, w, top, full :
         /\ m = machine /\ w = stream /\ top = nfa_states /\ full = stack
         /\ m \in Machines /\ w \in Seq(Alphabets)
         /\ top \in SUBSET DOMAIN Region[m] /\ full \in Seq(FrameOf(m))
  BY StatesOfRuns
<1>2. /\ full \in Seq(FrameOf(m)) /\ full # << >>
      /\ Len(full) # 0
  BY <1>1 DEF FeedPop
<1>3. PICK stk \in Seq(FrameOf(m)), f \in FrameOf(m) :
        full = Append(stk, f) /\ stk = SubSeq(full, 1, Len(full) - 1) /\ f = full[Len(full)]
  <2> HIDE DEF ops
  <2> QED
    BY <1>2, LastApart
<1> DEFINE next == SpecialNextStates(f.nfa_states, f.alphabet, {p[1] : p \in ops})
<1>4. /\ machine' = m /\ stream' = Append(w, a) /\ stack' = stk
      /\ nfa_states' = {p[1] : p \in next}
  <2>1. machine' = m /\ stream' = Append(w, a) /\ stack' = stk
    BY <1>1, <1>3 DEF FeedPop, Record
  <2>2. PICK map \in Selections(next) : nfa_states' = DOMAIN map
    BY <1>1, <1>3 DEF FeedPop
  <2> QED
    BY <2>1, <2>2, SelectionsProperties
<1>5. /\ ops # {}
      /\ \A p \in ops : /\ p[2] \in top /\ p[1] \in Ents(m)
                        /\ <<"POP", p[1]>> \in GetNextStackOps(m, p[2], a)
                        /\ Region[m][p[2]] = p[1]
  <2>1. /\ ops # {}
        /\ \A p \in ops : /\ p[2] \in top /\ p[1] \in Ents(m)
                          /\ <<"POP", p[1]>> \in GetNextStackOps(m, p[2], a)
    BY <1>1, NextStackOpsProperties DEF FeedPop, States, Ents
  <2>2. ASSUME NEW p \in ops
        PROVE  Region[m][p[2]] = p[1]
    <3>1. p[2] \in DOMAIN Region[m] /\ <<"POP", p[1]>> \in GetNextStackOps(m, p[2], a)
      BY <1>1, <2>1
    <3> QED
      BY <1>1, <3>1, StackOpsProperties
  <2> QED
    BY <2>1, <2>2
<1>6. \E s \in top : \E op \in GetNextStackOps(m, s, a) : op[1] = "POP"
  BY <1>5
<1>7. /\ RunsOver(m, Append(w, a)) = StepAll(m, RunsOver(m, w), a)
      /\ RunsOver(m, w) \subseteq Run(m)
  BY <1>1, RunsGrow
<1>8. \A r \in Run(m) : RunSteps(m, r, a) = StepOut(m, r, a)
  BY <1>1, <1>6, OperationsExclude DEF RunSteps
<1>9. \A r \in Run(m) : r \in RunsOver(m, w) <=> RunFits(m, top, full, r)
  BY <1>1 DEF RunsFit
<1>10. f.alphabet \in Alphabets /\ f.nfa_states \in SUBSET DOMAIN Region[m]
  BY DEF FrameOf
<1>11. \E s \in f.nfa_states : \E op \in GetNextStackOps(m, s, f.alphabet) : op[1] = "PUSH"
  <2>1. PICK s \in nfa_states : \E op \in GetNextStackOps(machine, s, a) : op[1] = "POP"
    BY <1>1, <1>6
  <2>2. PICK op \in GetNextStackOps(machine, s, a) : op[1] = "POP"
    BY <2>1
  <2>3. \E q \in stack[Len(stack)].nfa_states :
          <<"PUSH", op[2]>> \in GetNextStackOps(machine, q, stack[Len(stack)].alphabet)
    BY <2>2, PopLeavesItsFrame
  <2> QED
    BY <1>1, <1>3, <2>3
<1>12. \A t : t \in nfa_states' <=>
         \E q \in f.nfa_states, p \in ops : t \in GetSpecialNextStates(m, q, f.alphabet, p[1])
  <2>1. \A x : x \in next <=>
          \E e \in {p[1] : p \in ops} : \E q \in f.nfa_states :
            \E t \in GetSpecialNextStates(m, q, f.alphabet, e) : x = <<t, <<q, e>> >>
    BY <1>1 DEF SpecialNextStates
  <2>2. ASSUME NEW t, t \in nfa_states'
        PROVE  \E q \in f.nfa_states, p \in ops : t \in GetSpecialNextStates(m, q, f.alphabet, p[1])
    <3>1. PICK x \in next : t = x[1]
      BY <1>4, <2>2
    <3> HIDE DEF ops, next
    <3> QED
      BY <2>1, <3>1
  <2>3. ASSUME NEW t, NEW q \in f.nfa_states, NEW p \in ops,
               t \in GetSpecialNextStates(m, q, f.alphabet, p[1])
        PROVE  t \in nfa_states'
    <3>1. <<t, <<q, p[1]>> >> \in next
      BY <2>1, <2>3
    <3> HIDE DEF ops, next
    <3> QED
      BY <1>4, <3>1
  <2> QED
    BY <2>2, <2>3
<1>13. \A r : \A e : <<"POP", e>> \in GetNextStackOps(m, r, a) /\ r \in top => <<e, r>> \in ops
  BY <1>1 DEF NextStackOps
<1> HIDE DEF ops, next
<1>14. ASSUME NEW u \in Run(m)
       PROVE  u \in RunsOver(m, Append(w, a)) <=> RunFits(m, nfa_states', stk, u)
  <2>1. ASSUME u \in RunsOver(m, Append(w, a))
        PROVE  RunFits(m, nfa_states', stk, u)
    <3>1. PICK r \in RunsOver(m, w) : u \in StepOut(m, r, a)
      BY <1>7, <1>8, <2>1 DEF StepAll
    <3>2. /\ r \in Run(m) /\ r.state \in top /\ r.open \in Seq(OpenBracket(m))
          /\ r = [state |-> r.state, open |-> r.open]
          /\ RunFits(m, top, full, r)
      BY <1>1, <1>7, <1>9, StatesOfRuns DEF Run
    <3>3. Len(r.open) # 0
      BY <3>1 DEF StepOut
    <3>4. PICK o \in Seq(OpenBracket(m)), b \in OpenBracket(m) :
            /\ r.open = Append(o, b) /\ o = SubSeq(r.open, 1, Len(r.open) - 1)
            /\ b = r.open[Len(r.open)]
      BY <3>2, <3>3, LastApart
    <3>5. RunFits(m, top, Append(stk, f), [state |-> r.state, open |-> Append(o, b)])
      BY <1>3, <3>2, <3>4
    <3>6. /\ RunFits(m, f.nfa_states, stk, [state |-> b.state, open |-> o])
          /\ Opened(m, b, f, r.state)
      BY <1>1, <3>5, FitsInto
    <3> DEFINE below == [state |-> b.state, open |-> o]
    <3>7. below \in Run(m) /\ below.state = b.state /\ b.state \in DOMAIN Region[m] /\ b.ent \in Ents(m)
      BY DEF Run, OpenBracket
    <3>8. /\ b.ent \in EntsOf(m, r.state, a, "POP")
          /\ \E t \in GetSpecialNextStates(m, b.state, b.alphabet, b.ent) :
               u = [state |-> t, open |-> o]
      BY <3>1, <3>4 DEF StepOut
    <3>9. PICK t \in GetSpecialNextStates(m, b.state, f.alphabet, b.ent) :
               u = [state |-> t, open |-> o]
      BY <3>6, <3>8 DEF Opened
    <3>10. u = [below EXCEPT !.state = t]
      BY <3>9
    <3>11. Region[m][t] = Region[m][b.state]
      BY <1>1, <1>10, <3>7, NextStatesStay DEF Ents
    <3>12. b.state \in f.nfa_states
      <4>1. Len(stk) \in Nat /\ Len(stk) \in 0..Len(stk)
        BY LenProperties
      <4>2. StateAt(below, Len(stk)) \in LevelAt(f.nfa_states, stk, Len(stk)) /\ Len(o) = Len(stk)
        BY <3>6, <4>1 DEF RunFits
      <4> QED
        BY <4>2 DEF StateAt, LevelAt
    <3>13. t \in nfa_states'
      <4>1. <<b.ent, r.state>> \in ops
        BY <1>13, <3>2, <3>8 DEF EntsOf
      <4> QED
        BY <1>12, <3>9, <3>12, <4>1
    <3>14. Len(stk) \in Nat
      BY LenProperties
    <3> HIDE DEF below
    <3>15. RunFits(m, nfa_states', stk, [below EXCEPT !.state = t])
      <4>1. RunFits(m, f.nfa_states, stk, below)
        BY <3>6 DEF below
      <4> QED
        BY <3>7, <3>11, <3>13, <3>14, <4>1, FitsInside
    <3> QED
      BY <3>10, <3>15
  <2>2. ASSUME RunFits(m, nfa_states', stk, u)
        PROVE  u \in RunsOver(m, Append(w, a))
    <3>1. /\ u.open \in Seq(OpenBracket(m)) /\ u = [state |-> u.state, open |-> u.open]
          /\ Len(stk) \in Nat /\ Len(u.open) = Len(stk)
      BY <2>2, LenProperties DEF Run, RunFits
    <3>2. u.state \in nfa_states'
      <4>1. StateAt(u, Len(stk)) \in LevelAt(nfa_states', stk, Len(stk))
        BY <2>2, <3>1 DEF RunFits
      <4> QED
        BY <3>1, <4>1 DEF StateAt, LevelAt
    <3>3. PICK q \in f.nfa_states, p \in ops :
            u.state \in GetSpecialNextStates(m, q, f.alphabet, p[1])
      BY <1>12, <3>2
    <3> DEFINE e == p[1]
               s == p[2]
               below == [u EXCEPT !.state = q]
               b == [state |-> q, alphabet |-> f.alphabet, ent |-> e]
               r == [state |-> s, open |-> Append(u.open, b)]
    <3>4. e \in Ents(m) /\ s \in top /\ Region[m][s] = e /\ <<"POP", e>> \in GetNextStackOps(m, s, a)
      BY <1>5
    <3>5. q \in DOMAIN Region[m] /\ Region[m][u.state] = Region[m][q]
      BY <1>1, <1>10, <3>3, <3>4, NextStatesStay DEF Ents
    <3>6. below = [state |-> q, open |-> u.open]
      BY <3>1
    <3>7. RunFits(m, f.nfa_states, stk, below)
      BY <2>2, <3>1, <3>5, FitsInside
    <3>8. <<"PUSH", e>> \in GetNextStackOps(m, q, f.alphabet)
      <4>1. GetSpecialNextStates(m, q, f.alphabet, e) # {}
        BY <3>3
      <4> HIDE DEF e
      <4> QED
        BY <1>1, <1>10, <1>11, <3>4, <3>5, <4>1, WayOnOpens
    <3>9. b \in OpenBracket(m) /\ Opened(m, b, f, s)
      BY <1>10, <3>4, <3>5, <3>8 DEF OpenBracket, Opened
    <3>10. b.state = q /\ b.alphabet = f.alphabet /\ b.ent = e
      OBVIOUS
    <3>11. /\ Append(u.open, b) \in Seq(OpenBracket(m))
           /\ Len(Append(u.open, b)) = Len(u.open) + 1 /\ Len(u.open) + 1 # 0
           /\ Append(u.open, b)[Len(u.open) + 1] = b
           /\ SubSeq(Append(u.open, b), 1, Len(Append(u.open, b)) - 1) = u.open
      <4> HIDE DEF b
      <4> QED
        BY <3>1, <3>9, OneMore
    <3> HIDE DEF b, below, e, s
    <3>12. RunFits(m, top, Append(stk, f), r)
      <4>1. RunFits(m, f.nfa_states, stk, [state |-> b.state, open |-> u.open])
        BY <3>6, <3>7, <3>10
      <4> QED
        BY <1>1, <3>1, <3>4, <3>9, <4>1, FitsInto
    <3>13. r \in Run(m) /\ r.state = s /\ r.open = Append(u.open, b)
      BY <1>1, <3>4, <3>11 DEF Run
    <3> HIDE DEF r
    <3>14. r \in RunsOver(m, w)
      BY <1>3, <1>9, <3>12, <3>13
    <3>15. u \in StepOut(m, r, a)
      <4>1. e \in EntsOf(m, r.state, a, "POP")
        BY <3>4, <3>13 DEF EntsOf, Ents
      <4>2. r.open[Len(r.open)] = b /\ Len(r.open) # 0
            /\ SubSeq(r.open, 1, Len(r.open) - 1) = u.open
        BY <3>11, <3>13
      <4> QED
        BY <3>1, <3>3, <3>10, <4>1, <4>2 DEF StepOut, e
    <3> QED
      BY <1>7, <1>8, <3>13, <3>14, <3>15 DEF StepAll
  <2> QED
    BY <2>1, <2>2
<1> QED
  BY <1>4, <1>14 DEF RunsFit

\* Where Feed meets no operation there is none.
LEMMA NoOperation ==
  ASSUME machine \in Machines, nfa_states \in SUBSET DOMAIN Region[machine],
         NEW a \in Alphabets, "NOP" \in OpTypes(nfa_states, a)
  PROVE  \A s \in nfa_states : GetNextStackOps(machine, s, a) = {}
<1> DEFINE types == UNION {{o[1] : o \in GetNextStackOps(machine, q, a)} : q \in nfa_states}
<1>1. "NOP" \in (IF types = {} THEN {"NOP"} ELSE types)
  BY DEF OpTypes
<1>2. "NOP" \notin types
  <2>1. ASSUME NEW q \in nfa_states, NEW o \in GetNextStackOps(machine, q, a)
        PROVE  o[1] # "NOP"
    BY StackOpsProperties
  <2> QED
    BY <2>1
<1>3. types = {}
  <2> HIDE DEF types
  <2> QED
    BY <1>1, <1>2
<1> QED
  BY <1>3

\* A plain feed: every run moves within its region.
LEMMA NopFits ==
  ASSUME IInv, RunsFit, NEW a \in Alphabets, FeedNop(a)
  PROVE  RunsFit'
<1>1. PICK m, w, top, stk :
         /\ m = machine /\ w = stream /\ top = nfa_states /\ stk = stack
         /\ m \in Machines /\ w \in Seq(Alphabets)
         /\ top \in SUBSET DOMAIN Region[m] /\ stk \in Seq(FrameOf(m))
  BY StatesOfRuns
<1> DEFINE next == NextStatesMap(top, a)
<1>2. machine' = m /\ stream' = Append(w, a) /\ stack' = stk
  BY <1>1 DEF FeedNop, Record
<1>3. \A t : t \in nfa_states' <=> \E s \in top : t \in GetNextStates(m, s, a)
  <2>1. nfa_states' = {p[1] : p \in next}
    <3>1. PICK map \in Selections(next) : nfa_states' = DOMAIN map
      BY <1>1 DEF FeedNop
    <3> QED
      BY <3>1, SelectionsProperties
  <2>2. \A x : x \in next <=> \E s \in top : \E t \in GetNextStates(m, s, a) : x = <<t, s>>
    BY <1>1 DEF NextStatesMap
  <2>3. ASSUME NEW t, t \in nfa_states'
        PROVE  \E s \in top : t \in GetNextStates(m, s, a)
    <3>1. PICK x \in next : t = x[1]
      BY <2>1, <2>3
    <3> HIDE DEF next
    <3> QED
      BY <2>2, <3>1
  <2>4. ASSUME NEW t, NEW s \in top, t \in GetNextStates(m, s, a)
        PROVE  t \in nfa_states'
    <3>1. <<t, s>> \in next
      BY <2>2, <2>4
    <3> HIDE DEF next
    <3> QED
      BY <2>1, <3>1
  <2> QED
    BY <2>3, <2>4
<1>4. \A s \in top : GetNextStackOps(m, s, a) = {}
  BY <1>1, NoOperation DEF FeedNop, States
<1>5. /\ RunsOver(m, Append(w, a)) = StepAll(m, RunsOver(m, w), a)
      /\ RunsOver(m, w) \subseteq Run(m)
  BY <1>1, RunsGrow
<1>6. \A r : r.state \in top => RunSteps(m, r, a) = StepInside(m, r, a)
  BY <1>4 DEF RunSteps, StepInto, StepOut, EntsOf
<1>7. \A r \in Run(m) : r \in RunsOver(m, w) <=> RunFits(m, top, stk, r)
  BY <1>1 DEF RunsFit
<1>8. Len(stk) \in Nat
  BY <1>1, LenProperties
<1> HIDE DEF next
<1>9. ASSUME NEW u \in Run(m)
      PROVE  u \in RunsOver(m, Append(w, a)) <=> RunFits(m, nfa_states', stk, u)
  <2>1. ASSUME u \in RunsOver(m, Append(w, a))
        PROVE  RunFits(m, nfa_states', stk, u)
    <3>1. PICK r \in RunsOver(m, w) : u \in RunSteps(m, r, a)
      BY <1>5, <2>1 DEF StepAll
    <3>2. r \in Run(m) /\ r.state \in top /\ r.state \in DOMAIN Region[m]
      BY <1>1, <1>5, StatesOfRuns
    <3>3. PICK t \in GetNextStates(m, r.state, a) : u = [r EXCEPT !.state = t]
      BY <1>6, <3>1, <3>2 DEF StepInside
    <3>4. t \in nfa_states' /\ Region[m][t] = Region[m][r.state]
      BY <1>1, <1>3, <3>2, NextStatesStay
    <3> QED
      BY <1>7, <1>8, <3>2, <3>3, <3>4, FitsInside
  <2>2. ASSUME RunFits(m, nfa_states', stk, u)
        PROVE  u \in RunsOver(m, Append(w, a))
    <3>1. u.state \in nfa_states'
      <4>1. Len(stk) \in 0..Len(stk) /\ Len(u.open) = Len(stk)
        BY <1>8, <2>2 DEF RunFits
      <4>2. StateAt(u, Len(stk)) \in LevelAt(nfa_states', stk, Len(stk))
        BY <2>2, <4>1 DEF RunFits
      <4> QED
        BY <4>1, <4>2 DEF StateAt, LevelAt
    <3>2. PICK s \in top : u.state \in GetNextStates(m, s, a)
      BY <1>3, <3>1
    <3> DEFINE r == [u EXCEPT !.state = s]
    <3>3. s \in DOMAIN Region[m] /\ Region[m][u.state] = Region[m][s]
      BY <1>1, <3>2, NextStatesStay
    <3>4. RunFits(m, top, stk, r)
      BY <1>8, <2>2, <3>3, FitsInside
    <3>5. r \in Run(m) /\ r.state = s /\ u = [r EXCEPT !.state = u.state]
      BY <3>3 DEF Run
    <3> HIDE DEF r
    <3>6. r \in RunsOver(m, w)
      BY <1>7, <3>4, <3>5
    <3>7. u \in StepInside(m, r, a)
      BY <3>2, <3>5 DEF StepInside
    <3> QED
      BY <1>5, <1>6, <3>5, <3>6, <3>7 DEF StepAll
  <2> QED
    BY <2>1, <2>2
<1> QED
  BY <1>2, <1>9 DEF RunsFit

\* A parser that was fed nothing has the one run that did not begin.
LEMMA StartFits ==
  ASSUME NEW m \in Machines, NEW r \in Run(m)
  PROVE  r \in RunsOver(m, << >>) <=> RunFits(m, {m.start_state}, << >>, r)
<1>1. r \in RunsOver(m, << >>) <=> r = StartRun(m)
  BY RunsOverNothing
<1>2. r.open \in Seq(OpenBracket(m)) /\ r = [state |-> r.state, open |-> r.open]
  BY DEF Run
<1>3. RunFits(m, {m.start_state}, << >>, r) <=> Len(r.open) = 0 /\ r.state = m.start_state
  <2>1. Len(<< >>) = 0 /\ 0..0 = {0} /\ 1..0 = {}
    OBVIOUS
  <2> QED
    BY <2>1 DEF RunFits, StateAt, LevelAt
<1>4. Len(r.open) = 0 <=> r.open = << >>
  BY <1>2
<1> QED
  BY <1>1, <1>2, <1>3, <1>4 DEF StartRun

\* In every state, the runs over the stream are those that fit.
LEMMA RunsInvariant == Spec => []RunsFit
<1>1. Init => RunsFit
  <2> SUFFICES ASSUME NEW m \in Machines, InitWith(m)
               PROVE  RunsFit
    BY DEF Init
  <2>1. machine = m /\ stream = << >> /\ stack = << >> /\ nfa_states = {m.start_state}
    BY DEF InitWith
  <2> QED
    BY <2>1, StartFits DEF RunsFit
<1>2. IInv /\ RunsFit /\ [Next]_vars => RunsFit'
  <2> SUFFICES ASSUME IInv, RunsFit, [Next]_vars
               PROVE  RunsFit'
    OBVIOUS
  <2>1. ASSUME NEW a \in Alphabets, Feed(a)
        PROVE  RunsFit'
    <3>1. CASE FeedInvalid(a) \/ UNCHANGED vars
      BY <3>1 DEF FeedInvalid, vars, RunsFit
    <3> QED
      BY <2>1, <3>1, PushFits, PopFits, NopFits DEF Feed
  <2>2. ASSUME NEW m \in Machines, (Reset /\ m = machine) \/ SetAParseMachine(m)
        PROVE  RunsFit'
    <3>1. machine' = m /\ stream' = << >> /\ stack' = << >> /\ nfa_states' = {m.start_state}
      BY <2>2 DEF Reset, SetAParseMachine, Cleared
    <3> QED
      BY <3>1, StartFits DEF RunsFit
  <2>3. CASE Reset
    BY <2>2, <2>3, StatesOfRuns
  <2>4. CASE UNCHANGED vars
    BY <2>4 DEF vars, RunsFit
  <2> QED
    BY <2>1, <2>2, <2>3, <2>4 DEF Next
<1> QED
  BY <1>1, <1>2, Invariant, PTL DEF Spec

-------------------------------------------------------------------------------
(* The states a parser is in are exactly those of the runs. *)

Nests(m, top, stk) ==
  \A i \in 1..Len(stk) : \A s \in LevelAt(top, stk, i) :
    \E q \in stk[i].nfa_states :
      <<"PUSH", Region[m][s]>> \in GetNextStackOps(m, q, stk[i].alphabet)

AllHaveRuns(m, top, stk) ==
  \A s \in top : \E r \in Run(m) : RunFits(m, top, stk, r) /\ r.state = s

\* From the frame below to a bracket more.
LEMMA NestedHaveRuns ==
  ASSUME NEW m \in Machines, NEW top \in SUBSET DOMAIN Region[m],
         NEW stk \in Seq(FrameOf(m)), NEW f \in FrameOf(m),
         Nests(m, top, Append(stk, f)),
         Nests(m, f.nfa_states, stk) => AllHaveRuns(m, f.nfa_states, stk)
  PROVE  AllHaveRuns(m, top, Append(stk, f))
<1> DEFINE n == Len(stk)
           stk2 == Append(stk, f)
<1>1. /\ n \in Nat /\ Len(stk2) = n + 1 /\ \A i \in 1..n : stk2[i] = stk[i]
      /\ stk2[n + 1] = f
  BY OneMore
<1>2. f.alphabet \in Alphabets /\ f.nfa_states \in SUBSET DOMAIN Region[m]
  BY DEF FrameOf
<1> HIDE DEF n, stk2
<1>3. Nests(m, f.nfa_states, stk)
  <2>1. ASSUME NEW i \in 1..n, NEW s \in LevelAt(f.nfa_states, stk, i)
        PROVE  \E q \in stk[i].nfa_states :
                 <<"PUSH", Region[m][s]>> \in GetNextStackOps(m, q, stk[i].alphabet)
    <3>1. i \in 1..Len(stk2) /\ stk2[i] = stk[i] /\ i # Len(stk2)
      BY <1>1
    <3>2. LevelAt(f.nfa_states, stk, i) = LevelAt(top, stk2, i)
      <4>1. CASE i = n
        BY <1>1, <3>1, <4>1 DEF LevelAt, n
      <4>2. CASE i # n
        <5>1. i + 1 \in 1..n
          BY <1>1, <4>2
        <5> QED
          BY <1>1, <3>1, <4>2, <5>1 DEF LevelAt, n
      <4> QED
        BY <4>1, <4>2
    <3>3. Nests(m, top, stk2)
      BY DEF stk2
    <3> QED
      BY <2>1, <3>1, <3>2, <3>3 DEF Nests
  <2> QED
    BY <2>1 DEF Nests, n
<1>4. ASSUME NEW s \in top
      PROVE  \E r \in Run(m) : RunFits(m, top, Append(stk, f), r) /\ r.state = s
  <2>1. PICK q \in f.nfa_states : <<"PUSH", Region[m][s]>> \in GetNextStackOps(m, q, f.alphabet)
    <3>1. Len(stk2) \in 1..Len(stk2) /\ LevelAt(top, stk2, Len(stk2)) = top /\ stk2[Len(stk2)] = f
      BY <1>1 DEF LevelAt
    <3>2. Nests(m, top, stk2)
      BY DEF stk2
    <3> QED
      BY <3>1, <3>2 DEF Nests
  <2>2. PICK below \in Run(m) : RunFits(m, f.nfa_states, stk, below) /\ below.state = q
    BY <1>3 DEF AllHaveRuns
  <2> DEFINE b == [state |-> q, alphabet |-> f.alphabet, ent |-> Region[m][s]]
             r == [state |-> s, open |-> Append(below.open, b)]
  <2>3. Region[m][s] \in Ents(m)
    <3>1. PICK op \in GetNextStackOps(m, q, f.alphabet) : op = <<"PUSH", Region[m][s]>>
      BY <2>1
    <3>2. op[2] \in Ents(m)
      BY <1>2, StackOpsProperties DEF Ents
    <3> QED
      BY <3>1, <3>2
  <2>4. b \in OpenBracket(m) /\ Opened(m, b, f, s) /\ b.state = q
    BY <1>2, <2>1, <2>3 DEF OpenBracket, Opened
  <2>5. below.open \in Seq(OpenBracket(m)) /\ below = [state |-> q, open |-> below.open]
    BY <2>2 DEF Run
  <2> HIDE DEF b
  <2>6. Append(below.open, b) \in Seq(OpenBracket(m))
    BY <2>4, <2>5, OneMore
  <2>7. r \in Run(m) /\ r.state = s
    BY <2>6 DEF Run
  <2>8. RunFits(m, top, Append(stk, f), r)
    BY <2>2, <2>4, <2>5, FitsInto
  <2> QED
    BY <2>7, <2>8
<1> QED
  BY <1>4 DEF AllHaveRuns

\* Every state of a parser whose regions nest is that of a run that fits.
LEMMA EveryStateHasRun ==
  ASSUME NEW m \in Machines, NEW top \in SUBSET DOMAIN Region[m],
         NEW stk \in Seq(FrameOf(m)), Nests(m, top, stk)
  PROVE  AllHaveRuns(m, top, stk)
<1> DEFINE IsDeep(n) == \A k \in Seq(FrameOf(m)) : \A t \in SUBSET DOMAIN Region[m] :
                          Len(k) = n /\ Nests(m, t, k) => AllHaveRuns(m, t, k)
           S == {n \in 0..Len(stk) : IsDeep(n)}
<1>1. Len(stk) \in Nat
  BY LenProperties
<1>2. IsDeep(0)
  <2> SUFFICES ASSUME NEW k \in Seq(FrameOf(m)), NEW t \in SUBSET DOMAIN Region[m],
                      Len(k) = 0, NEW s \in t
               PROVE  \E r \in Run(m) : RunFits(m, t, k, r) /\ r.state = s
    BY DEF AllHaveRuns
  <2> DEFINE r == [state |-> s, open |-> << >>]
  <2>1. << >> \in Seq(OpenBracket(m)) /\ Len(<< >>) = 0 /\ 0..0 = {0} /\ 1..0 = {}
    OBVIOUS
  <2>2. r \in Run(m) /\ r.state = s /\ r.open = << >>
    BY <2>1 DEF Run
  <2> HIDE DEF r
  <2>3. RunFits(m, t, k, r)
    BY <2>1, <2>2 DEF RunFits, StateAt, LevelAt
  <2> QED
    BY <2>2, <2>3
<1>3. ASSUME NEW n \in 1..Len(stk), IsDeep(n - 1)
      PROVE  IsDeep(n)
  <2> SUFFICES ASSUME NEW k \in Seq(FrameOf(m)), NEW t \in SUBSET DOMAIN Region[m],
                      Len(k) = n, Nests(m, t, k)
               PROVE  AllHaveRuns(m, t, k)
    OBVIOUS
  <2>1. Len(k) # 0
    BY <1>1
  <2>2. PICK front \in Seq(FrameOf(m)), f \in FrameOf(m) :
          k = Append(front, f) /\ Len(k) = Len(front) + 1
    BY <2>1, LastApart
  <2>3. Len(front) = n - 1 /\ f.nfa_states \in SUBSET DOMAIN Region[m]
    BY <1>1, <2>2, LenProperties DEF FrameOf
  <2>4. Nests(m, f.nfa_states, front) => AllHaveRuns(m, f.nfa_states, front)
    BY <1>3, <2>3
  <2> QED
    BY <2>2, <2>4, NestedHaveRuns
<1> HIDE DEF IsDeep
<1>4. 0 \in S
  BY <1>1, <1>2
<1>5. \A n \in 1..Len(stk) : n - 1 \in S => n \in S
  BY <1>1, <1>3
<1>6. 0..Len(stk) \subseteq S
  <2> HIDE DEF S
  <2> QED
    BY <1>1, <1>4, <1>5, UpwardInduction
<1>7. IsDeep(Len(stk))
  BY <1>1, <1>6
<1> QED
  BY <1>7 DEF IsDeep

\* A state has an entry for each alphabet that leads anywhere from it.
LEMMA EntriesAreListed ==
  ASSUME NEW m, NEW s, NEW a, GetNextStates(m, s, a) # {} \/ GetNextStackOps(m, s, a) # {}
  PROVE  a \in StateAlphabets(m, s)
<1>1. CASE GetNextStates(m, s, a) # {}
  <2>1. PICK k \in EdgeDepths(m, s, a) : TRUE
    BY <1>1 DEF GetNextStates
  <2> QED
    BY <2>1 DEF EdgeDepths, StateAlphabets
<1>2. CASE GetNextStackOps(m, s, a) # {}
  <2>1. PICK k \in SpecialDepths(m, s, a) : TRUE
    BY <1>2 DEF GetNextStackOps
  <2> QED
    BY <2>1 DEF SpecialDepths, StateAlphabets
<1> QED
  BY <1>1, <1>2

\* So for one on which a run in that state makes a step.
LEMMA StepsAreListed ==
  ASSUME NEW m, NEW r, NEW a, RunSteps(m, r, a) # {}
  PROVE  a \in StateAlphabets(m, r.state)
<1>1. GetNextStates(m, r.state, a) # {} \/ GetNextStackOps(m, r.state, a) # {}
  BY DEF RunSteps, StepInside, StepInto, StepOut, EntsOf
<1> QED
  BY <1>1, EntriesAreListed

\* And a run makes a step on every alphabet its state has an entry for: a state with a
\* POP is in a bracket of that ent, which was opened with somewhere to go on.
LEMMA ListedLeadsOn ==
  ASSUME NEW m \in Machines, NEW top, NEW stk \in Seq(FrameOf(m)), NEW r \in Run(m),
         RunFits(m, top, stk, r), \A s \in LevelAt(top, stk, 0) : Region[m][s] = MainRegion,
         NEW a \in StateAlphabets(m, r.state)
  PROVE  a \in Alphabets /\ RunSteps(m, r, a) # {}
<1> DEFINE n == Len(stk)
           b == r.open[n]
<1>1. RegionsAreApart(m, Region[m], Alphabets) /\ EntriesLeadOn(m, Region[m], Alphabets)
  BY MachinesAreWellFormed DEF WellFormed
<1>2. r.state \in DOMAIN Region[m] /\ r.open \in Seq(OpenBracket(m)) /\ n \in Nat /\ Len(r.open) = n
  BY LenProperties DEF Run, RunFits
<1>3. a \in Alphabets /\ (GetNextStates(m, r.state, a) # {} \/ GetNextStackOps(m, r.state, a) # {})
  BY <1>1, <1>2 DEF EntriesLeadOn
<1>4. CASE GetNextStates(m, r.state, a) # {}
  <2>1. StepInside(m, r, a) # {}
    BY <1>4 DEF StepInside
  <2> QED
    BY <1>3, <2>1 DEF RunSteps
<1>5. CASE GetNextStackOps(m, r.state, a) # {}
  <2>1. PICK type, e : <<type, e>> \in GetNextStackOps(m, r.state, a)
    BY <1>5 DEF GetNextStackOps
  <2>2. e \in Ents(m) /\ (type = "PUSH" \/ (type = "POP" /\ Region[m][r.state] = e))
    <3>1. \A op \in GetNextStackOps(m, r.state, a) :
            /\ op[2] \in DOMAIN m.enclosed_subnfa_map
            /\ op[1] = "PUSH" \/ (op[1] = "POP" /\ Region[m][r.state] = op[2])
      BY <1>1, <1>2, <1>3 DEF RegionsAreApart
    <3>2. PICK op : op = <<type, e>>
      OBVIOUS
    <3>3. op[1] = type /\ op[2] = e
      BY <3>2
    <3> QED
      BY <2>1, <3>1, <3>2, <3>3 DEF Ents
  <2>3. e \in EntsOf(m, r.state, a, type)
    BY <2>1, <2>2 DEF EntsOf, Ents
  <2>4. CASE type = "PUSH"
    <3>1. StepInto(m, r, a) # {}
      BY <2>3, <2>4 DEF StepInto
    <3> QED
      BY <1>3, <3>1 DEF RunSteps
  <2>5. CASE type = "POP" /\ Region[m][r.state] = e
    <3>1. n # 0
      <4> SUFFICES ASSUME n = 0
                   PROVE  FALSE
        OBVIOUS
      <4>1. r.state \in LevelAt(top, stk, 0)
        BY <1>2 DEF RunFits, StateAt
      <4> QED
        BY <2>2, <2>5, <4>1, StartStates DEF Ents
    <3>2. Opened(m, b, stk[n], r.state)
      <4>1. n \in 1..n /\ StateAt(r, n) = r.state
        BY <1>2, <3>1 DEF StateAt
      <4> QED
        BY <4>1 DEF RunFits
    <3>3. b \in OpenBracket(m)
      BY <1>2, <3>1, LastApart
    <3>4. /\ b.ent = e /\ b.state \in DOMAIN Region[m] /\ b.alphabet \in Alphabets
          /\ <<"PUSH", e>> \in GetNextStackOps(m, b.state, b.alphabet)
      BY <2>5, <3>2, <3>3 DEF Opened, OpenBracket
    <3>5. GetSpecialNextStates(m, b.state, b.alphabet, e) # {}
      BY <1>1, <3>4 DEF RegionsAreApart
    <3>6. StepOut(m, r, a) # {}
      BY <1>2, <2>3, <2>5, <3>1, <3>4, <3>5 DEF StepOut
    <3> QED
      BY <1>3, <3>6 DEF RunSteps
  <2> QED
    BY <2>2, <2>4, <2>5
<1> QED
  BY <1>3, <1>4, <1>5

\* The two invariants say what FollowsEveryRun does.
LEMMA InvFollowsRuns ==
  ASSUME IInv, RunsFit
  PROVE  FollowsEveryRun
<1>1. PICK m, w, top, stk :
         /\ m = machine /\ w = stream /\ top = nfa_states /\ stk = stack
         /\ m \in Machines /\ w \in Seq(Alphabets)
         /\ top \in SUBSET DOMAIN Region[m] /\ stk \in Seq(FrameOf(m))
  BY StatesOfRuns
<1>2. \A r \in Run(m) : r \in RunsOver(m, w) <=> RunFits(m, top, stk, r)
  BY <1>1 DEF RunsFit
<1>3. RunsOver(m, w) \subseteq Run(m) /\ \A r \in RunsOver(m, w) : r.state \in top
  BY <1>1, StatesOfRuns
<1>4. Nests(m, top, stk) /\ \A s \in LevelAt(top, stk, 0) : Region[m][s] = MainRegion
  <2>1. Len(stk) \in Nat /\ DOMAIN stk = 1..Len(stk)
    BY <1>1, LenProperties
  <2>2. \A i : Level(i) = LevelAt(top, stk, i)
    BY <1>1 DEF Level, LevelAt
  <2>3. \A s \in LevelAt(top, stk, 0) : Region[m][s] = MainRegion
    BY <1>1, <2>2 DEF IInv, RegionsNest
  <2>4. \A i \in DOMAIN stk : \A s \in LevelAt(top, stk, i) :
          \E q \in stk[i].nfa_states :
            <<"PUSH", Region[m][s]>> \in GetNextStackOps(m, q, stk[i].alphabet)
    BY <1>1, <2>2 DEF IInv, RegionsNest
  <2> QED
    BY <2>1, <2>3, <2>4 DEF Nests
<1>5. \A s \in top : \E r \in RunsOver(m, w) : r.state = s
  <2>1. AllHaveRuns(m, top, stk)
    BY <1>1, <1>4, EveryStateHasRun
  <2> QED
    BY <1>2, <2>1 DEF AllHaveRuns
<1>6. top = {r.state : r \in RunsOver(m, w)}
  BY <1>3, <1>5
<1>7. \A r \in RunsOver(m, w) : Len(r.open) = Len(stk)
  BY <1>2, <1>3 DEF RunFits
<1>8. ASSUME NEW r \in RunsOver(m, w), IsFinalState(m, r.state)
      PROVE  r.open = << >>
  <2>1. r \in Run(m) /\ r.state \in DOMAIN Region[m] /\ RunFits(m, top, stk, r)
    BY <1>2, <1>3 DEF Run
  <2>2. Region[m][r.state] = MainRegion
    BY <1>1, <1>8, <2>1, MachinesAreWellFormed DEF WellFormed, RegionsAreApart
  <2>3. r.open \in Seq(OpenBracket(m))
    BY <2>1 DEF Run
  <2>4. ASSUME Len(r.open) # 0
        PROVE  FALSE
    <3>1. Len(stk) \in 1..Len(stk) /\ Len(r.open) = Len(stk)
      BY <1>1, <1>7, <2>4, LenProperties
    <3>2. r.open[Len(stk)].ent = Region[m][r.state]
      BY <2>1, <3>1 DEF RunFits, Opened, StateAt
    <3>3. r.open[Len(stk)].ent \in Ents(m)
      <4>1. r.open[Len(r.open)] \in OpenBracket(m)
        BY <2>3, <2>4, LastApart
      <4> QED
        BY <3>1, <4>1 DEF OpenBracket
    <3> QED
      BY <1>1, <2>2, <3>2, <3>3, StartStates DEF Ents
  <2> QED
    BY <2>3, <2>4
<1>9. (\E s \in top : IsFinalState(m, s)) <=> Recognises(m, w)
  BY <1>3, <1>5, <1>8 DEF Recognises
<1>10. PossibleAlphabets = GoesOnWith(m, w)
  <2>1. ASSUME NEW a \in PossibleAlphabets
        PROVE  a \in GoesOnWith(m, w)
    <3>1. PICK s \in top : a \in StateAlphabets(m, s)
      BY <1>1, <2>1 DEF PossibleAlphabets
    <3>2. PICK r \in RunsOver(m, w) : r.state = s
      BY <1>5
    <3>3. r \in Run(m) /\ RunFits(m, top, stk, r)
      BY <1>2, <1>3
    <3>4. a \in Alphabets /\ RunSteps(m, r, a) # {}
      BY <1>1, <1>4, <3>1, <3>2, <3>3, ListedLeadsOn
    <3> QED
      BY <3>4 DEF GoesOnWith
  <2>2. ASSUME NEW a \in GoesOnWith(m, w)
        PROVE  a \in PossibleAlphabets
    <3>1. PICK r \in RunsOver(m, w) : RunSteps(m, r, a) # {}
      BY <2>2 DEF GoesOnWith
    <3>2. a \in StateAlphabets(m, r.state) /\ r.state \in top
      BY <1>3, <3>1, StepsAreListed
    <3> QED
      BY <1>1, <3>2 DEF PossibleAlphabets
  <2> QED
    BY <2>1, <2>2
<1> QED
  BY <1>1, <1>6, <1>7, <1>9, <1>10 DEF FollowsEveryRun, IsFinal

\* For every well-formed machine and every sequence of feeds, resets and machine
\* changes: CoreParser is in the states that the runs of its machine over the stream
\* are in, IsFinal holds exactly if one of them ends the parse, and PossibleAlphabets are
\* those that one of them goes on with (Feed, IsFinal, PossibleAlphabets).
THEOREM EveryRunIsFollowed == Spec => []FollowsEveryRun
<1>1. IInv /\ RunsFit => FollowsEveryRun
  BY InvFollowsRuns
<1> QED
  BY <1>1, Invariant, RunsInvariant, PTL

\* A feed is taken exactly if the machine has a run over the longer string.
LEMMA FeedsAreRecognisers ==
  ASSUME IInv, IInv', FollowsEveryRun, FollowsEveryRun', RunsFit, NEW a \in Alphabets, Feed(a)
  PROVE  [OfMachine!Next]_(OfMachine!recognizer_vars)
<1>1. /\ machine \in Machines /\ stream \in Seq(Alphabets)
      /\ nfa_states \in SUBSET DOMAIN Region[machine]
      /\ \A r \in RunsOver(machine, stream) : r.state \in nfa_states
  BY StatesOfRuns
<1>2. CASE is_valid_path_so_far /\ (FeedPush(a) \/ FeedPop(a) \/ FeedNop(a))
  <2>1. /\ stream' = Append(stream, a) /\ machine' = machine
        /\ is_valid_path_so_far' = is_valid_path_so_far
    BY <1>2 DEF FeedPush, FeedPop, FeedNop, Record
  <2>2. RunsOver(machine', stream') # {}
    BY DEF FollowsEveryRun, IInv, RegionsNest
  <2>3. OfMachine!Accept(a)
    BY <1>2, <2>1, <2>2 DEF OfMachine!Accept, HasRun
  <2> QED
    BY <2>3 DEF OfMachine!Next
<1>3. CASE FeedInvalid(a)
  <2>1. NextStatesMap(nfa_states, a) = {} /\ "NOP" \in OpTypes(nfa_states, a)
    BY <1>3 DEF FeedInvalid
  <2>2. \A s \in nfa_states : GetNextStates(machine, s, a) = {}
    <3> SUFFICES ASSUME NEW s \in nfa_states, NEW t \in GetNextStates(machine, s, a)
                 PROVE  FALSE
      OBVIOUS
    <3>1. <<t, s>> \in NextStatesMap(nfa_states, a)
      BY DEF NextStatesMap
    <3> QED
      BY <2>1, <3>1
  <2>3. \A s \in nfa_states : GetNextStackOps(machine, s, a) = {}
    BY <1>1, <2>1, NoOperation
  <2>4. \A r \in RunsOver(machine, stream) : RunSteps(machine, r, a) = {}
    BY <1>1, <2>2, <2>3 DEF RunSteps, StepInside, StepInto, StepOut, EntsOf
  <2>5. RunsOver(machine, Append(stream, a)) = {}
    BY <1>1, <2>4, RunsGrow DEF StepAll
  <2>6. OfMachine!Refuse(a)
    BY <1>3, <2>5 DEF FeedInvalid, OfMachine!Refuse, HasRun
  <2> QED
    BY <2>6 DEF OfMachine!Next
<1>4. CASE UNCHANGED vars
  BY <1>4 DEF vars, OfMachine!recognizer_vars
<1> QED
  BY <1>2, <1>3, <1>4 DEF Feed

\* CoreParser implements the recogniser of the strings its machine has a run over: it
\* takes an alphabet exactly if the longer string still has one (Feed, Reset).
THEOREM MachineIsRecognised == Spec => RecognisesMachine
<1>1. Init => OfMachine!Init
  BY DEF Init, InitWith, OfMachine!Init
<1>2. /\ IInv /\ IInv' /\ FollowsEveryRun /\ FollowsEveryRun' /\ RunsFit /\ [Next]_vars
      => [OfMachine!Next]_(OfMachine!recognizer_vars)
  <2> SUFFICES ASSUME IInv, IInv', FollowsEveryRun, FollowsEveryRun', RunsFit, [Next]_vars
               PROVE  [OfMachine!Next]_(OfMachine!recognizer_vars)
    OBVIOUS
  <2>1. ASSUME NEW a \in Alphabets, Feed(a)
        PROVE  [OfMachine!Next]_(OfMachine!recognizer_vars)
    BY <2>1, FeedsAreRecognisers
  <2>2. CASE Reset
    BY <2>2 DEF Reset, Cleared, OfMachine!Reset, OfMachine!Next
  <2>3. ASSUME NEW m \in Machines, SetAParseMachine(m)
        PROVE  OfMachine!Next
    BY <2>3 DEF SetAParseMachine, Cleared, OfMachine!Begin, OfMachine!Next
  <2>4. CASE UNCHANGED vars
    BY <2>4 DEF vars, OfMachine!recognizer_vars
  <2> QED
    BY <2>1, <2>2, <2>3, <2>4 DEF Next
<1> QED
  BY <1>1, <1>2, Invariant, EveryRunIsFollowed, RunsInvariant, PTL
     DEF Spec, RecognisesMachine, OfMachine!Spec
================================================================================
