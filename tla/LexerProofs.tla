-------------------------------- MODULE LexerProofs --------------------------------
(***************************************************************************)
(* Proofs about LexerInstance with a client that remembers its text, for    *)
(* every Lexer and every text.                                              *)
(***************************************************************************)
EXTENDS LexerText, Induction, FiniteSetTheorems, SequenceTheorems

\* What does not change in the life of an instance, and where the token is: it ends
\* where the text does.
TextTypeOK ==
  /\ lexer.jumps = lexer_grammar.jumps
  /\ lexer.main_section = lexer_grammar.main_section
  /\ text \in Seq(Characters)
  /\ token_end = Len(text)
  /\ token_start \in 0..token_end
  /\ \E S : tokens \in Seq(S)

\* Appending to a sequence, element by element.
LEMMA Appended ==
  ASSUME NEW S, NEW s \in Seq(S), NEW e
  PROVE  /\ DOMAIN Append(s, e) = 1..Len(s) + 1 /\ Len(Append(s, e)) = Len(s) + 1
         /\ \A i \in 1..Len(s) : Append(s, e)[i] = s[i]
         /\ Append(s, e)[Len(s) + 1] = e
         /\ Append(s, e) \in Seq(S \cup {e})
<1>1. s \in Seq(S \cup {e}) /\ e \in S \cup {e}
  <2>1. DOMAIN s = 1..Len(s) /\ Len(s) \in Nat /\ \A i \in 1..Len(s) : s[i] \in S
    BY LenProperties
  <2>2. s = [i \in 1..Len(s) |-> s[i]]
    OBVIOUS
  <2>3. \A i \in 1..Len(s) : s[i] \in S \cup {e}
    BY <2>1
  <2> QED
    BY <2>1, <2>2, <2>3
<1> QED
  BY <1>1, AppendProperties

\* The token the client remembers, before and after an alphabet.
LEMMA TokenGrows ==
  ASSUME NEW w \in Seq(Characters), NEW s \in 0..Len(w), NEW a \in Characters
  PROVE  /\ SubSeq(Append(w, a), s + 1, Len(w) + 1) = Append(SubSeq(w, s + 1, Len(w)), a)
         /\ SubSeq(Append(w, a), Len(w) + 1, Len(w) + 1) = <<a>>
         /\ SubSeq(w, Len(w) + 1, Len(w)) = << >>
         /\ SubSeq(w, s + 1, Len(w)) \in Seq(Characters)
<1> DEFINE t == SubSeq(w, s + 1, Len(w))
           n == Len(w)
           m == Len(w) - s
<1>1. n \in Nat /\ m \in Nat /\ s \in 0..n /\ n = s + m /\ \A i \in 1..n : w[i] \in Characters
  BY LenProperties
<1>2. /\ Append(w, a) \in Seq(Characters) /\ Len(Append(w, a)) = n + 1
      /\ \A i \in 1..n : Append(w, a)[i] = w[i]
      /\ Append(w, a)[n + 1] = a
  BY AppendProperties
<1>3. /\ t \in Seq(Characters) /\ Len(t) = m
      /\ \A i \in 1..m : t[i] = w[s + i]
  <2> HIDE DEF n, m
  <2>1. \A i \in s + 1..n : w[i] \in Characters
    BY <1>1
  <2> QED
    BY <1>1, <2>1, SubSeqProperties DEF n
<1> HIDE DEF t
<1>4. /\ Append(t, a) \in Seq(Characters) /\ Len(Append(t, a)) = m + 1
      /\ \A i \in 1..m : Append(t, a)[i] = t[i]
      /\ Append(t, a)[m + 1] = a
  BY <1>3, AppendProperties
<1>5. ASSUME NEW k \in 0..n
      PROVE  /\ SubSeq(Append(w, a), k + 1, n + 1) \in Seq(Characters)
             /\ Len(SubSeq(Append(w, a), k + 1, n + 1)) = n + 1 - k
             /\ \A i \in 1..n + 1 - k : SubSeq(Append(w, a), k + 1, n + 1)[i] = Append(w, a)[k + i]
  <2>1. \A i \in k + 1..n + 1 : Append(w, a)[i] \in Characters
    BY <1>1, <1>2
  <2> HIDE DEF n
  <2> QED
    BY <1>1, <2>1, SubSeqProperties
<1>6. SubSeq(Append(w, a), s + 1, n + 1) = Append(t, a)
  <2> DEFINE u == SubSeq(Append(w, a), s + 1, n + 1)
             v == Append(t, a)
  <2>1. u \in Seq(Characters) /\ v \in Seq(Characters) /\ Len(u) = Len(v)
    BY <1>1, <1>4, <1>5
  <2>2. \A i \in 1..Len(u) : u[i] = v[i]
    BY <1>1, <1>2, <1>3, <1>4, <1>5
  <2> HIDE DEF u, v
  <2>3. u = v
    BY <2>1, <2>2, SeqEqual
  <2> QED
    BY <2>3 DEF u, v
<1>7. SubSeq(Append(w, a), n + 1, n + 1) = <<a>>
  <2> DEFINE u == SubSeq(Append(w, a), n + 1, n + 1)
  <2>1. n \in 0..n /\ n + 1 - n = 1
    BY <1>1
  <2>2. u \in Seq(Characters) /\ Len(u) = 1 /\ u[1] = a
    BY <1>1, <1>2, <1>5, <2>1
  <2> HIDE DEF u
  <2>3. u = <<a>>
    BY <2>2, SeqEqual
  <2> QED
    BY <2>3 DEF u
<1>8. SubSeq(w, n + 1, n) = << >>
  BY <1>1, SubSeqEmpty
<1> QED
  BY <1>3, <1>6, <1>7, <1>8 DEF t

\* The token of the instance is the last part of the text of the client.
LEMMA TextTypeInvariant == TextSpec => []TextTypeOK
<1>1. TextInit => TextTypeOK
  <2> SUFFICES ASSUME TextInit
               PROVE  TextTypeOK
    OBVIOUS
  <2>1. PICK l \in LexersOf(lexer_grammar) : LexerStart(l)
    BY DEF TextInit
  <2>2. << >> \in Seq({}) /\ << >> \in Seq(Characters) /\ Len(<< >>) = 0
    OBVIOUS
  <2> QED
    BY <2>1, <2>2, LexersFitGrammar DEF TextInit, LexerStart, TextTypeOK
<1>2. TextTypeOK /\ [TextNext]_text_vars => TextTypeOK'
  <2> SUFFICES ASSUME TextTypeOK, [TextNext]_text_vars
               PROVE  TextTypeOK'
    OBVIOUS
  <2>1. PICK S : tokens \in Seq(S)
    BY DEF TextTypeOK
  <2>2. ASSUME NEW label, InvokeRuleAction(label)
        PROVE  \E T : tokens' \in Seq(T)
    <3>1. PICK e : tokens' = Append(tokens, e)
      BY <2>2 DEF InvokeRuleAction
    <3> QED
      BY <2>1, <3>1, Appended
  <2>3. \A a \in Characters : Append(text, a) \in Seq(Characters) /\ Len(Append(text, a)) = Len(text) + 1
    BY AppendProperties DEF TextTypeOK
  <2>4. Len(text) \in Nat
    BY LenProperties DEF TextTypeOK
  <2>5. ASSUME NEW a \in Characters, ClientFeed(a)
        PROVE  TextTypeOK'
    <3>1. CASE FeedContinues(a)
      BY <2>1, <2>3, <2>4, <2>5, <3>1 DEF ClientFeed, FeedContinues, TextTypeOK
    <3>2. CASE FeedRefused(a)
      BY <2>1, <2>3, <2>4, <2>5, <3>2 DEF ClientFeed, FeedRefused, TextTypeOK, lexer_vars
    <3>3. CASE FeedCuts(a)
      BY <2>2, <2>3, <2>4, <2>5, <3>3 DEF ClientFeed, FeedCuts, TextTypeOK
    <3>4. CASE FeedThrows(a)
      BY <2>1, <2>2, <2>3, <2>4, <2>5, <3>4 DEF ClientFeed, FeedThrows, TextTypeOK
    <3> QED
      BY <2>5, <3>1, <3>2, <3>3, <3>4 DEF ClientFeed, FeedCharacter
  <2>6. CASE ClientEndText
    BY <2>1, <2>2, <2>4, <2>6 DEF ClientEndText, EndText, TextTypeOK
  <2>7. CASE ClientCreateInstance \/ ClientResetLexer
    <3>1. << >> \in Seq(Characters) /\ << >> \in Seq({}) /\ Len(<< >>) = 0
      OBVIOUS
    <3>2. /\ lexer' = lexer /\ lexer_grammar' = lexer_grammar /\ text' = << >>
          /\ tokens' = << >> /\ token_start' = 0 /\ token_end' = 0
      BY <2>7 DEF ClientCreateInstance, ClientResetLexer, CreateInstance, ResetLexer,
                  InitLexer, InitWithScope, Restarted, Anew
    <3> QED
      BY <3>1, <3>2 DEF TextTypeOK
  <2>8. CASE UNCHANGED text_vars
    BY <2>1, <2>8 DEF text_vars, lexer_vars, TextTypeOK
  <2> QED
    BY <2>5, <2>6, <2>7, <2>8 DEF TextNext
<1> QED
  BY <1>1, <1>2, PTL DEF TextSpec

-------------------------------------------------------------------------------
(***************************************************************************)
(* The refinement: an instance whose states know the token is a tokenizer.  *)
(***************************************************************************)

SeenIn(t) == [i \in DOMAIN t |-> <<t[i].rule, t[i].range>>]

\* What the tokenizer has seen grows by the rule and the range of the new token.
LEMMA SeenGrows ==
  ASSUME NEW S, NEW t \in Seq(S), NEW e
  PROVE  SeenIn(Append(t, e)) = Append(SeenIn(t), <<e.rule, e.range>>)
<1> DEFINE T == {<<t[i].rule, t[i].range>> : i \in 1..Len(t)}
           pair == <<e.rule, e.range>>
           u == SeenIn(t)
           v == Append(u, pair)
           w == SeenIn(Append(t, e))
           n == Len(t)
<1>1. n \in Nat /\ DOMAIN t = 1..n
  BY LenProperties
<1>2. u \in Seq(T) /\ Len(u) = n
  <2>1. u = [i \in 1..n |-> <<t[i].rule, t[i].range>>]
    BY <1>1 DEF SeenIn
  <2>2. \A i \in 1..n : u[i] \in T
    BY <2>1
  <2>3. u \in [1..n -> T]
    BY <2>1, <2>2
  <2> HIDE DEF u, T, n
  <2> QED
    BY <1>1, <2>3, SeqDef
<1>3. DOMAIN v = 1..n + 1 /\ v[n + 1] = pair /\ \A i \in 1..n : v[i] = u[i]
  <2> HIDE DEF u, T, pair
  <2> QED
    BY <1>2, Appended
<1>4. DOMAIN w = 1..n + 1 /\ w[n + 1] = pair /\ \A i \in 1..n : w[i] = u[i]
  <2>1. /\ DOMAIN Append(t, e) = 1..n + 1 /\ Append(t, e)[n + 1] = e
        /\ \A i \in 1..n : Append(t, e)[i] = t[i]
    BY Appended
  <2>2. n + 1 \in 1..n + 1 /\ \A i \in 1..n : i \in 1..n + 1
    BY <1>1
  <2> QED
    BY <1>1, <2>1, <2>2 DEF SeenIn
<1>5. \A i \in 1..n + 1 : w[i] = v[i]
  BY <1>1, <1>3, <1>4
<1>6. w = [i \in 1..n + 1 |-> w[i]] /\ v = [i \in 1..n + 1 |-> v[i]]
  <2>1. v \in Seq(T \cup {pair})
    <3> HIDE DEF u, T, pair
    <3> QED
      BY <1>2, Appended
  <2>2. v = [i \in DOMAIN v |-> v[i]]
    <3> HIDE DEF v
    <3> QED
      BY <2>1, LenProperties
  <2>3. w = [i \in DOMAIN w |-> w[i]]
    BY DEF SeenIn
  <2> QED
    BY <1>3, <1>4, <2>2, <2>3
<1> QED
  BY <1>5, <1>6

\* The rule whose action runs is the first that matches the token, and its action is
\* all that an action of the tokenizer sees.
LEMMA ActionEmits ==
  ASSUME TextTypeOK, KnowsToken, IsFinalDFAState(current_state),
         HasAction(State(current_state).label), InvokeRuleAction(State(current_state).label)
  PROVE  Abstract!Emit
<1> DEFINE rules == Matches(lexer_grammar, section, CurrentToken)
           rule == lexer.pattern_actions[State(current_state).label]
<1>1. CurrentToken = Abstract!Token
  BY DEF CurrentToken, Abstract!Token, TextTypeOK
<1>2. rules # {} /\ rule = FirstRule(rules)
  BY DEF KnowsToken, Knows, State, IsFinalDFAState, HasAction
<1>3. PICK S : tokens \in Seq(S)
  BY DEF TextTypeOK
<1>4. PICK e : /\ tokens' = Append(tokens, e) /\ e.rule = rule
               /\ e.range = <<token_start, token_end>>
  BY DEF InvokeRuleAction
<1>5. SeenIn(tokens') = Append(SeenIn(tokens), <<rule, <<token_start, Len(text)>> >>)
  <2>1. SeenIn(Append(tokens, e)) = Append(SeenIn(tokens), <<e.rule, e.range>>)
    BY <1>3, SeenGrows
  <2>2. token_end = Len(text)
    BY DEF TextTypeOK
  <2> QED
    BY <1>4, <2>1, <2>2
<1>6. next_section' = IF rule \in DOMAIN JumpsOf(lexer_grammar) THEN JumpsOf(lexer_grammar)[rule]
                      ELSE next_section
  BY DEF InvokeRuleAction, TextTypeOK, JumpsOf
<1> HIDE DEF rule
<1>7. rule = CHOOSE r \in rules : \A q \in rules : r[2] <= q[2]
  BY <1>2 DEF FirstRule
<1> QED
  BY <1>1, <1>2, <1>5, <1>6, <1>7 DEF Abstract!Emit, SeenIn

\* Every step of the instance is a step of the tokenizer, or none.
LEMMA StepIsTokenizers ==
  ASSUME TextTypeOK, TextTypeOK', KnowsToken, KnowsToken', [TextNext]_text_vars
  PROVE  [Abstract!Next]_(Abstract!tokenizer_vars)
<1> DEFINE token == Abstract!Token
           viable(w) == Begins(lexer_grammar, section, w)
<1>1. token = CurrentToken
  BY DEF CurrentToken, Abstract!Token, TextTypeOK
<1>2. /\ text \in Seq(Characters) /\ Len(text) \in Nat /\ token_end = Len(text)
      /\ token_start \in 0..Len(text)
  BY LenProperties DEF TextTypeOK
<1>3. \A a \in Characters :
        a \in DOMAIN State(current_state).edges <=> viable(Append(token, a))
  BY <1>1 DEF KnowsToken, Knows, State, IsFinalDFAState, HasAction
<1>4. ASSUME NEW a \in Characters, ClientFeed(a)
      PROVE  Abstract!Next \/ UNCHANGED Abstract!tokenizer_vars
  <2>1. CASE FeedContinues(a)
    <3>1. viable(Append(token, a))
      BY <1>3, <2>1 DEF FeedContinues
    <3>2. text' = Append(text, a)
      BY <1>2, <1>4, <2>1 DEF ClientFeed, FeedContinues
    <3>3. ~CutsBefore(a)
      BY <2>1 DEF FeedContinues, CutsBefore
    <3>4. UNCHANGED <<lexer_grammar, token_start, section, next_section, tokens>>
      BY <1>4, <2>1, <3>3 DEF ClientFeed, FeedContinues, scope
    <3>5. Abstract!Continue(a)
      BY <3>1, <3>2, <3>4 DEF Abstract!Continue
    <3> QED
      BY <3>5 DEF Abstract!Next
  <2>2. CASE FeedRefused(a)
    <3>1. ~CutsBefore(a)
      BY <2>2 DEF FeedRefused, CutsBefore
    <3>2. UNCHANGED <<lexer_grammar, text, token_start, section, next_section, tokens>>
      BY <1>2, <1>4, <2>2, <3>1 DEF ClientFeed, FeedRefused, lexer_vars, scope
    <3> QED
      BY <3>2 DEF Abstract!tokenizer_vars
  <2>3. CASE FeedCuts(a)
    <3>1. ~viable(Append(token, a)) /\ Abstract!Emit
      BY <1>3, <2>3, ActionEmits DEF FeedCuts, TokenEnds
    <3>2. /\ CutsBefore(a) /\ section' = next_section' /\ token_start' = Len(text)
          /\ UNCHANGED lexer_grammar
      BY <1>2, <1>4, <2>3 DEF ClientFeed, FeedCuts, CutsBefore
    <3>3. text' = IF Begins(lexer_grammar, section', <<a>>) THEN Append(text, a) ELSE text
      <4> DEFINE start == SectionStarts[next_section']
      <4>1. CASE a \in DOMAIN State(start).edges
        <5>1. text' = Append(text, a)
          BY <1>2, <1>4, <2>3, <4>1 DEF ClientFeed, FeedCuts
        <5>2. token_end' = Len(text) + 1 /\ token_start' = Len(text)
          BY <1>2, <2>3, <4>1 DEF FeedCuts
        <5>3. CurrentToken' = <<a>>
          BY <1>2, <5>1, <5>2, TokenGrows DEF CurrentToken
        <5>4. Begins(lexer_grammar', section', <<a>>)
          BY <5>3 DEF KnowsToken, Knows, State, IsFinalDFAState, HasAction
        <5> QED
          BY <3>2, <5>1, <5>4
      <4>2. CASE a \notin DOMAIN State(start).edges
        <5>1. /\ text' = text /\ token_end' = Len(text) /\ token_start' = Len(text)
              /\ current_state' = start /\ lexer' = lexer
          BY <1>2, <1>4, <2>3, <4>2 DEF ClientFeed, FeedCuts
        <5>2. CurrentToken' = << >>
          BY <1>2, <5>1, TokenGrows DEF CurrentToken
        <5>3. State(start) = State(current_state)'
          BY <5>1 DEF State
        <5>4. Append(<< >>, a) = <<a>>
          OBVIOUS
        <5>5. ~Begins(lexer_grammar', section', Append(CurrentToken', a))
          BY <4>2, <5>3 DEF KnowsToken, Knows, State, IsFinalDFAState, HasAction
        <5> QED
          BY <3>2, <5>1, <5>2, <5>4, <5>5
      <4> QED
        BY <4>1, <4>2
    <3>4. Abstract!Cut(a)
      BY <3>1, <3>2, <3>3 DEF Abstract!Cut
    <3> QED
      BY <3>4 DEF Abstract!Next
  <2>4. CASE FeedThrows(a)
    <3>1. ~CutsBefore(a)
      BY <2>4 DEF FeedThrows, CutsBefore
    <3>2. UNCHANGED <<lexer_grammar, text, token_start, section>>
      BY <1>2, <1>4, <2>4, <3>1 DEF ClientFeed, FeedThrows
    <3>3. CASE ~HasAction(State(current_state).label)
      <4>1. UNCHANGED <<next_section, tokens>>
        BY <2>4, <3>3 DEF FeedThrows
      <4> QED
        BY <3>2, <4>1 DEF Abstract!tokenizer_vars
    <3>4. CASE HasAction(State(current_state).label)
      <4>1. Abstract!Emit
        BY <2>4, <3>4, ActionEmits DEF FeedThrows, TokenEnds
      <4> QED
        BY <3>2, <4>1 DEF Abstract!Finish, Abstract!Next
    <3> QED
      BY <3>3, <3>4
  <2> QED
    BY <1>4, <2>1, <2>2, <2>3, <2>4 DEF ClientFeed, FeedCharacter
<1>5. ASSUME ClientEndText
      PROVE  Abstract!Next \/ UNCHANGED Abstract!tokenizer_vars
  <2>1. UNCHANGED <<lexer_grammar, text, token_start, section>>
    BY <1>5 DEF ClientEndText, EndText
  <2>2. CASE ~HasAction(State(current_state).label)
    <3>1. UNCHANGED <<next_section, tokens>>
      BY <1>5, <2>2 DEF ClientEndText, EndText
    <3> QED
      BY <2>1, <3>1 DEF Abstract!tokenizer_vars
  <2>3. CASE HasAction(State(current_state).label)
    <3>1. Abstract!Emit
      BY <1>5, <2>3, ActionEmits DEF ClientEndText, EndText
    <3> QED
      BY <2>1, <3>1 DEF Abstract!Finish, Abstract!Next
  <2> QED
    BY <2>2, <2>3
<1>6. ASSUME ClientCreateInstance \/ ClientResetLexer
      PROVE  Abstract!Next
  <2>1. /\ text' = << >> /\ token_start' = 0 /\ tokens' = << >> /\ UNCHANGED lexer_grammar
        /\ section' = lexer_grammar.main_section /\ next_section' = lexer_grammar.main_section
    BY <1>6 DEF ClientCreateInstance, ClientResetLexer, CreateInstance, ResetLexer,
                InitLexer, InitWithScope, Restarted, Anew, TextTypeOK
  <2>2. SeenIn(tokens') = << >>
    BY <2>1 DEF SeenIn
  <2> QED
    BY <2>1, <2>2 DEF Abstract!Restart, Abstract!Next, SeenIn
<1>7. CASE UNCHANGED text_vars
  BY <1>7 DEF text_vars, lexer_vars, scope, Abstract!tokenizer_vars
<1> QED
  BY <1>4, <1>5, <1>6, <1>7 DEF TextNext

\* Where a new instance, which nothing was fed to, is.
LEMMA NewPositions == SubSeq(<< >>, 0 + 1, 0) = << >> /\ PositionOf(<< >>, 0) = <<1, 0>>
<1>1. SubSeq(<< >>, 0 + 1, 0) = << >>
  BY SubSeqEmpty
<1>2. PositionOf(<< >>, 0) = <<1, 0>>
  BY FS_EmptySet DEF PositionOf
<1> QED
  BY <1>1, <1>2

\* Along the edges of its DFA, the Lexer l comes from the state s to q with the word w.
LeadsTo(l, s, w, q) ==
  \E path : /\ path[0] = s /\ path[Len(w)] = q
            /\ \A i \in 1..Len(w) : LET edges == l.dfa.states[path[i - 1]].edges
                                    IN w[i] \in DOMAIN edges /\ path[i] = edges[w[i]]

\* What is demanded of the DFA alone: from the start of each section, wherever a word
\* leads, the state knows it.
DFAKnowsTokens(g, l) ==
  \A s \in DOMAIN l.section_to_start_state_mapping : \A w \in Seq(Characters) : \A q :
    LeadsTo(l, l.section_to_start_state_mapping[s], w, q) => Knows(g, l, s, w, q)

LexersKnowTokens ==
  \A g \in LexerGrammars : \A l \in LexersOf(g) : DFAKnowsTokens(g, l)

\* Where the instance is, though it keeps neither: the current token led to the current
\* state from the start of the section it is of.
FollowsToken ==
  /\ lexer_grammar \in LexerGrammars /\ lexer \in LexersOf(lexer_grammar)
  /\ section \in DOMAIN SectionStarts
  /\ LeadsTo(lexer, SectionStarts[section], CurrentToken, current_state)

\* The empty word leads nowhere else.
LEMMA LeadsNowhere ==
  ASSUME NEW l, NEW s
  PROVE  LeadsTo(l, s, << >>, s)
<1> DEFINE path == [i \in 0..0 |-> s]
<1>1. path[0] = s /\ Len(<< >>) = 0 /\ 1..0 = {}
  OBVIOUS
<1> HIDE DEF path
<1> QED
  BY <1>1 DEF LeadsTo

\* A word that leads to a state leads, with one alphabet more, along its edge.
LEMMA LeadsOn ==
  ASSUME NEW l, NEW s, NEW q, NEW w \in Seq(Characters), NEW a \in Characters,
         LeadsTo(l, s, w, q), a \in DOMAIN l.dfa.states[q].edges
  PROVE  LeadsTo(l, s, Append(w, a), l.dfa.states[q].edges[a])
<1> DEFINE Steps(p, v, i) == LET edges == l.dfa.states[p[i - 1]].edges
                             IN v[i] \in DOMAIN edges /\ p[i] = edges[v[i]]
           n == Len(w)
           u == Append(w, a)
<1>1. PICK path : path[0] = s /\ path[n] = q /\ \A i \in 1..n : Steps(path, w, i)
  BY DEF LeadsTo
<1> DEFINE t == l.dfa.states[q].edges[a]
           longer == [i \in 0..n + 1 |-> IF i = n + 1 THEN t ELSE path[i]]
<1>2. n \in Nat /\ Len(u) = n + 1 /\ u[n + 1] = a /\ \A i \in 1..n : u[i] = w[i]
  BY LenProperties, Appended
<1> HIDE DEF n, u, t
<1>3. longer[n + 1] = t /\ \A i \in 0..n : longer[i] = path[i]
  BY <1>2
<1>4. 0 \in 0..n /\ n \in 0..n /\ n + 1 - 1 = n
  BY <1>2
<1> HIDE DEF longer
<1>5. Steps(longer, u, n + 1)
  BY <1>1, <1>2, <1>3, <1>4 DEF t
<1>6. ASSUME NEW i \in 1..n
      PROVE  Steps(longer, u, i)
  <2>1. i \in 0..n /\ i - 1 \in 0..n
    BY <1>2
  <2>2. longer[i] = path[i] /\ longer[i - 1] = path[i - 1] /\ u[i] = w[i]
    BY <1>2, <1>3, <2>1
  <2>3. Steps(path, w, i)
    BY <1>1
  <2> QED
    BY <2>2, <2>3
<1>7. \A i \in 1..n + 1 : i = n + 1 \/ i \in 1..n
  BY <1>2
<1>8. longer[0] = s /\ longer[n + 1] = t
  BY <1>1, <1>3, <1>4
<1>9. \A i \in 1..n + 1 : Steps(longer, u, i)
  BY <1>5, <1>6, <1>7
<1>10. /\ longer[0] = s /\ longer[Len(u)] = t
       /\ \A i \in 1..Len(u) : Steps(longer, u, i)
  <2> HIDE DEF Steps
  <2> QED
    BY <1>2, <1>8, <1>9
<1> QED
  BY <1>10 DEF LeadsTo, u, t

\* The current state is the one that the current token leads to.
LEMMA TokenFollowed == TextSpec => []FollowsToken
<1>1. TextInit => FollowsToken
  <2> SUFFICES ASSUME TextInit
               PROVE  FollowsToken
    OBVIOUS
  <2>1. PICK l \in LexersOf(lexer_grammar) : LexerStart(l)
    BY DEF TextInit
  <2>2. /\ lexer_grammar \in LexerGrammars /\ lexer = l
        /\ section = l.main_section /\ current_state = l.dfa.start_state
        /\ text = << >> /\ token_start = 0 /\ token_end = 0
    BY <2>1, LexersFitGrammar DEF TextInit, LexerStart
  <2>3. CurrentToken = << >>
    BY <2>2, NewPositions DEF CurrentToken
  <2>4. /\ section \in DOMAIN SectionStarts /\ SectionStarts[section] = current_state
    BY <2>1, <2>2, LexersFitGrammar DEF SectionStarts
  <2> QED
    BY <2>1, <2>2, <2>3, <2>4, LeadsNowhere DEF FollowsToken
<1>2. TextTypeOK /\ FollowsToken /\ [TextNext]_text_vars => FollowsToken'
  <2> SUFFICES ASSUME TextTypeOK, FollowsToken, [TextNext]_text_vars
               PROVE  FollowsToken'
    OBVIOUS
  <2>1. /\ text \in Seq(Characters) /\ Len(text) \in Nat /\ token_end = Len(text)
        /\ token_start \in 0..Len(text) /\ CurrentToken \in Seq(Characters)
    BY LenProperties, TokenGrows DEF TextTypeOK, CurrentToken
  <2>2. ASSUME UNCHANGED <<lexer, lexer_grammar, section, text, token_start, token_end,
                           current_state>>
        PROVE  FollowsToken'
    BY <2>2 DEF FollowsToken, SectionStarts, CurrentToken
  <2>3. ASSUME NEW a \in Characters, ClientFeed(a)
        PROVE  FollowsToken'
    <3>1. CASE FeedContinues(a)
      <4>1. /\ UNCHANGED <<lexer, lexer_grammar, section, token_start>>
            /\ text' = Append(text, a) /\ token_end' = Len(text) + 1
            /\ a \in DOMAIN lexer.dfa.states[current_state].edges
            /\ current_state' = lexer.dfa.states[current_state].edges[a]
        BY <2>1, <2>3, <3>1 DEF ClientFeed, FeedContinues, CutsBefore, State
      <4>2. CurrentToken' = Append(CurrentToken, a)
        BY <2>1, <4>1, TokenGrows DEF CurrentToken
      <4>3. LeadsTo(lexer, SectionStarts[section], Append(CurrentToken, a), current_state')
        BY <2>1, <4>1, LeadsOn DEF FollowsToken
      <4> QED
        BY <4>1, <4>2, <4>3 DEF FollowsToken, SectionStarts
    <3>2. CASE FeedRefused(a)
      BY <2>1, <2>2, <2>3, <3>2 DEF ClientFeed, FeedRefused, CutsBefore, lexer_vars
    <3>3. CASE FeedCuts(a)
      <4> DEFINE start == SectionStarts[next_section']
      <4>1. /\ UNCHANGED <<lexer, lexer_grammar>> /\ section' = next_section'
            /\ section' \in DOMAIN SectionStarts /\ token_start' = Len(text)
        BY <2>1, <2>3, <3>3 DEF ClientFeed, FeedCuts, CutsBefore
      <4>2. LeadsTo(lexer, start, CurrentToken', current_state')
        <5>1. CASE a \in DOMAIN State(start).edges
          <6>1. /\ text' = Append(text, a) /\ token_end' = Len(text) + 1
                /\ current_state' = lexer.dfa.states[start].edges[a]
            BY <2>1, <2>3, <3>3, <5>1 DEF ClientFeed, FeedCuts, State
          <6>2. CurrentToken' = <<a>>
            BY <2>1, <4>1, <6>1, TokenGrows DEF CurrentToken
          <6>3. << >> \in Seq(Characters) /\ Append(<< >>, a) = <<a>>
            OBVIOUS
          <6>4. LeadsTo(lexer, start, << >>, start) /\ a \in DOMAIN lexer.dfa.states[start].edges
            BY <5>1, LeadsNowhere DEF State
          <6> HIDE DEF start
          <6>5. LeadsTo(lexer, start, Append(<< >>, a), lexer.dfa.states[start].edges[a])
            BY <6>3, <6>4, LeadsOn
          <6> QED
            BY <6>1, <6>2, <6>3, <6>5
        <5>2. CASE a \notin DOMAIN State(start).edges
          <6>1. text' = text /\ token_end' = Len(text) /\ current_state' = start
            BY <2>1, <2>3, <3>3, <5>2 DEF ClientFeed, FeedCuts
          <6>2. CurrentToken' = << >>
            BY <2>1, <4>1, <6>1, TokenGrows DEF CurrentToken
          <6> QED
            BY <6>1, <6>2, LeadsNowhere
        <5> QED
          BY <5>1, <5>2
      <4> QED
        BY <4>1, <4>2 DEF FollowsToken, SectionStarts
    <3>4. CASE FeedThrows(a)
      BY <2>1, <2>2, <2>3, <3>4 DEF ClientFeed, FeedThrows, CutsBefore
    <3> QED
      BY <2>3, <3>1, <3>2, <3>3, <3>4 DEF ClientFeed, FeedCharacter
  <2>4. CASE ClientEndText
    BY <2>2, <2>4 DEF ClientEndText, EndText
  <2>5. CASE ClientCreateInstance \/ ClientResetLexer
    <3>1. /\ UNCHANGED <<lexer, lexer_grammar>> /\ text' = << >> /\ token_start' = 0
          /\ token_end' = 0 /\ section' = lexer.main_section
          /\ current_state' = lexer.dfa.start_state
      BY <2>5 DEF ClientCreateInstance, ClientResetLexer, CreateInstance, ResetLexer,
                  InitLexer, InitWithScope, Restarted, Anew
    <3>2. CurrentToken' = << >>
      BY <3>1, NewPositions DEF CurrentToken
    <3>3. section' \in DOMAIN SectionStarts /\ SectionStarts[section'] = current_state'
      BY <3>1, LexersFitGrammar DEF FollowsToken, SectionStarts
    <3> QED
      BY <3>1, <3>2, <3>3, LeadsNowhere DEF FollowsToken, SectionStarts
  <2>6. CASE UNCHANGED text_vars
    BY <2>2, <2>6 DEF text_vars, lexer_vars
  <2> QED
    BY <2>3, <2>4, <2>5, <2>6 DEF TextNext
<1> QED
  BY <1>1, <1>2, TextTypeInvariant, PTL DEF TextSpec

\* Hence it knows the token, if the DFA knows all.
LEMMA TokenIsKnown ==
  ASSUME LexersKnowTokens, TextTypeOK, FollowsToken
  PROVE  KnowsToken
<1>1. CurrentToken \in Seq(Characters)
  BY LenProperties, TokenGrows DEF TextTypeOK, CurrentToken
<1>2. DFAKnowsTokens(lexer_grammar, lexer)
  BY DEF LexersKnowTokens, FollowsToken
<1> QED
  BY <1>1, <1>2 DEF DFAKnowsTokens, FollowsToken, SectionStarts, KnowsToken

\* LexerInstance cuts the text into tokens as Tokenizer says, whatever the text, the
\* sections the actions jump to and the number of resets, for every Lexer whose DFA
\* knows its tokens (lexer.hpp: Feed, End, Reset, Init).
THEOREM TokenizerImplemented ==
  ASSUME LexersKnowTokens
  PROVE  TextSpec => ImplementsTokenizer
<1>0. TextTypeOK /\ FollowsToken => KnowsToken
  BY TokenIsKnown
<1>1. TextInit => Abstract!Init
  <2> SUFFICES ASSUME TextInit
               PROVE  Abstract!Init
    OBVIOUS
  <2>1. PICK l \in LexersOf(lexer_grammar) : LexerStart(l)
    BY DEF TextInit
  <2>2. /\ text = << >> /\ token_start = 0 /\ tokens = << >>
        /\ section = next_section
    BY <2>1, LexersFitGrammar DEF TextInit, LexerStart
  <2>3. SeenIn(<< >>) = << >>
    BY DEF SeenIn
  <2> QED
    BY <2>2, <2>3 DEF Abstract!Init, SeenIn
<1>2. TextTypeOK /\ TextTypeOK' /\ KnowsToken /\ KnowsToken' /\ [TextNext]_text_vars
        => [Abstract!Next]_(Abstract!tokenizer_vars)
  BY StepIsTokenizers
<1> QED
  BY <1>0, <1>1, <1>2, TextTypeInvariant, TokenFollowed, PTL
     DEF TextSpec, ImplementsTokenizer, Abstract!Spec

-------------------------------------------------------------------------------
(***************************************************************************)
(* The positions of the first text: what Advanced adds up alphabet by       *)
(* alphabet is the position in the text.                                    *)
(***************************************************************************)

NewLinesBefore(w, n) == {i \in 1..n : w[i] = NewLine}
LastOf(T) == IF T = {} THEN 0 ELSE CHOOSE i \in T : \A j \in T : j <= i

\* LastOf is an element that none exceeds, or 0.
LEMMA LastIsGreatest ==
  ASSUME NEW n \in Nat, NEW T \in SUBSET (1..n)
  PROVE  LastOf(T) \in 0..n /\ (n \in T => LastOf(T) = n)
<1>1. CASE T = {}
  BY <1>1 DEF LastOf
<1>2. CASE T # {}
  <2> DEFINE D == {n - i : i \in T}
  <2>1. D \in SUBSET Nat /\ D # {}
    BY <1>2
  <2>2. PICK d \in D : \A m \in D : d <= m
    <3> HIDE DEF D
    <3> QED
      BY <2>1, LeastNumber
  <2>3. PICK k \in T : d = n - k
    BY <2>2
  <2>4. \A j \in T : j <= k
    BY <2>2, <2>3
  <2>5. LastOf(T) \in T /\ \A j \in T : j <= LastOf(T)
    BY <1>2, <2>4 DEF LastOf
  <2>6. \A i \in T : i \in 0..n /\ i <= n
    OBVIOUS
  <2>7. LastOf(T) \in 0..n /\ LastOf(T) <= n
    BY <2>5, <2>6
  <2>8. n \in T => n <= LastOf(T)
    BY <2>5
  <2> QED
    BY <2>7, <2>8
<1> QED
  BY <1>1, <1>2

\* New lines before the next position: one more, or as many.
LEMMA NewLinesAreCounted ==
  ASSUME NEW w, NEW n \in Nat
  PROVE  IsFiniteSet(NewLinesBefore(w, n)) /\ Cardinality(NewLinesBefore(w, n)) \in Nat
<1>1. IsFiniteSet(1..n)
  BY FS_Interval
<1>2. NewLinesBefore(w, n) \in SUBSET (1..n)
  BY DEF NewLinesBefore
<1> QED
  BY <1>1, <1>2, FS_Subset, FS_CardinalityType

\* A position by the new lines before it.
LEMMA PositionIs ==
  ASSUME NEW w, NEW n \in Nat
  PROVE  /\ PositionOf(w, n)[1] = Cardinality(NewLinesBefore(w, n)) + 1
         /\ PositionOf(w, n)[2] = n - LastOf(NewLinesBefore(w, n))
         /\ PositionOf(w, n) = <<PositionOf(w, n)[1], PositionOf(w, n)[2]>>
  BY DEF PositionOf, NewLinesBefore, LastOf

\* The position after an alphabet, from the one before it.
LEMMA PositionAfter ==
  ASSUME NEW w, NEW n \in Nat \ {0}
  PROVE  PositionOf(w, n) = IF w[n] = NewLine THEN <<PositionOf(w, n - 1)[1] + 1, 0>>
                            ELSE <<PositionOf(w, n - 1)[1], PositionOf(w, n - 1)[2] + 1>>
<1> DEFINE S == NewLinesBefore(w, n - 1)
           T == NewLinesBefore(w, n)
<1>1. n - 1 \in Nat /\ n \in Nat
  OBVIOUS
<1>2. IsFiniteSet(S) /\ Cardinality(S) \in Nat
  BY <1>1, NewLinesAreCounted
<1>3. S \in SUBSET (1..n - 1) /\ T \in SUBSET (1..n) /\ n \notin S
  BY <1>1 DEF NewLinesBefore
<1>4. LastOf(S) \in 0..n - 1
  <2> HIDE DEF S
  <2> QED
    BY <1>1, <1>3, LastIsGreatest
<1>5. CASE w[n] = NewLine
  <2>1. T = S \cup {n}
    BY <1>5 DEF NewLinesBefore
  <2>2. Cardinality(T) = Cardinality(S) + 1
    <3> HIDE DEF S, T
    <3> QED
      BY <1>2, <1>3, <2>1, FS_AddElement
  <2>3. LastOf(T) = n
    <3> HIDE DEF S, T
    <3> QED
      BY <1>1, <1>3, <2>1, LastIsGreatest
  <2> HIDE DEF S, T
  <2>4. PositionOf(w, n)[1] = PositionOf(w, n - 1)[1] + 1 /\ PositionOf(w, n)[2] = 0
    BY <1>1, <1>2, <2>2, <2>3, PositionIs DEF S, T
  <2> QED
    BY <1>1, <1>5, <2>4, PositionIs
<1>6. CASE w[n] # NewLine
  <2>1. T = S
    BY <1>6 DEF NewLinesBefore
  <2> HIDE DEF S, T
  <2>2. /\ PositionOf(w, n)[1] = PositionOf(w, n - 1)[1]
        /\ PositionOf(w, n)[2] = PositionOf(w, n - 1)[2] + 1
    BY <1>1, <1>2, <1>4, <2>1, PositionIs DEF S, T
  <2> QED
    BY <1>1, <1>6, <2>2, PositionIs
<1> QED
  BY <1>5, <1>6

\* Alphabets fed later do not move it.
LEMMA PositionStays ==
  ASSUME NEW w \in Seq(Characters), NEW a, NEW n \in 0..Len(w)
  PROVE  PositionOf(Append(w, a), n) = PositionOf(w, n)
<1>1. Len(w) \in Nat /\ \A i \in 1..n : Append(w, a)[i] = w[i]
  BY Appended, LenProperties
<1>2. NewLinesBefore(Append(w, a), n) = NewLinesBefore(w, n)
  BY <1>1 DEF NewLinesBefore
<1> QED
  BY <1>1, <1>2, PositionIs

\* The loop of Feed over the buffer computes the position after the token.
LEMMA AdvancedIsPosition ==
  ASSUME NEW w \in Seq(Characters), NEW s \in 0..Len(w),
         NEW line, NEW column, <<line, column>> = PositionOf(w, s)
  PROVE  Advanced(line, column, SubSeq(w, s + 1, Len(w))) = PositionOf(w, Len(w))
<1> DEFINE t == SubSeq(w, s + 1, Len(w))
           m == Len(w) - s
           Body(at) == [i \in 0..m |->
                          IF i = 0 THEN <<line, column>>
                          ELSE IF t[i] = NewLine THEN <<at[i - 1][1] + 1, 0>>
                          ELSE <<at[i - 1][1], at[i - 1][2] + 1>>]
           g == [i \in 0..m |-> PositionOf(w, s + i)]
<1>1. Len(w) \in Nat /\ m \in Nat /\ s \in Nat /\ s + m = Len(w) /\ s + 0 = s
  BY LenProperties
<1>2. Len(t) = m /\ \A i \in 1..m : t[i] = w[s + i]
  <2>1. \A i \in s + 1..Len(w) : w[i] \in Characters
    BY <1>1, LenProperties
  <2>2. /\ Len(t) = IF s + 1 <= Len(w) THEN Len(w) - (s + 1) + 1 ELSE 0
        /\ \A i \in 1..Len(w) - (s + 1) + 1 : t[i] = w[s + 1 + i - 1]
    <3> HIDE DEF m
    <3> QED
      BY <1>1, <2>1, SubSeqProperties
  <2> HIDE DEF t
  <2>3. Len(w) - (s + 1) + 1 = m /\ \A i \in 1..m : s + 1 + i - 1 = s + i
    BY <1>1
  <2> HIDE DEF m
  <2> QED
    BY <1>1, <2>2, <2>3
<1> HIDE DEF t
<1>3. g = Body(g)
  <2>1. ASSUME NEW i \in 0..m
        PROVE  g[i] = Body(g)[i]
    <3>1. CASE i = 0
      BY <1>1, <3>1
    <3>2. CASE i # 0
      <4>1. i \in 1..m /\ i - 1 \in 0..m /\ s + i \in Nat \ {0} /\ s + i - 1 = s + (i - 1)
        BY <1>1, <3>2
      <4>2. g[i] = PositionOf(w, s + i) /\ g[i - 1] = PositionOf(w, s + i - 1)
        BY <4>1
      <4>3. t[i] = w[s + i]
        BY <1>2, <4>1
      <4>4. g[i] = IF t[i] = NewLine THEN <<g[i - 1][1] + 1, 0>>
                   ELSE <<g[i - 1][1], g[i - 1][2] + 1>>
        <5>1. PICK k \in Nat \ {0} : k = s + i
          BY <4>1
        <5>2. PositionOf(w, k) = IF w[k] = NewLine THEN <<PositionOf(w, k - 1)[1] + 1, 0>>
                                 ELSE <<PositionOf(w, k - 1)[1], PositionOf(w, k - 1)[2] + 1>>
          BY PositionAfter
        <5> HIDE DEF g
        <5> QED
          BY <4>2, <4>3, <5>1, <5>2
      <4> HIDE DEF g
      <4> QED
        BY <3>2, <4>4
    <3> QED
      BY <3>1, <3>2
  <2>2. g = [i \in 0..m |-> g[i]]
    OBVIOUS
  <2>3. Body(g) = [i \in 0..m |-> Body(g)[i]]
    OBVIOUS
  <2> HIDE DEF g, Body
  <2> QED
    BY <2>1, <2>2, <2>3
<1> DEFINE at == CHOOSE f : f = Body(f)
<1>4. at = Body(at)
  <2> HIDE DEF g, Body
  <2> QED
    BY <1>3
<1>5. Advanced(line, column, t) = at[m]
  BY <1>2 DEF Advanced
<1> HIDE DEF at
<1> DEFINE X == [i \in 0..m |-> {g[i]}]
<1>6. at[0] \in X[0]
  BY <1>1, <1>4
<1>7. ASSUME NEW i \in 1..m, at[i - 1] \in X[i - 1]
      PROVE  at[i] \in X[i]
  <2>1. i \in 0..m /\ i - 1 \in 0..m /\ i # 0
    BY <1>1
  <2>2. at[i - 1] = g[i - 1]
    <3> HIDE DEF g, Body
    <3> QED
      BY <1>7, <2>1
  <2>3. at[i] = IF t[i] = NewLine THEN <<at[i - 1][1] + 1, 0>>
                ELSE <<at[i - 1][1], at[i - 1][2] + 1>>
    <3> HIDE DEF g
    <3> QED
      BY <1>4, <2>1
  <2>4. g[i] = IF t[i] = NewLine THEN <<g[i - 1][1] + 1, 0>>
               ELSE <<g[i - 1][1], g[i - 1][2] + 1>>
    <3> HIDE DEF g
    <3> QED
      BY <1>3, <2>1
  <2> HIDE DEF g, Body
  <2> QED
    BY <2>1, <2>2, <2>3, <2>4
<1>8. \A i \in 0..m : at[i] \in X[i]
  <2> HIDE DEF X, m
  <2> QED
    BY <1>1, <1>6, <1>7, FamilyInduction
<1>9. at[m] = PositionOf(w, Len(w))
  BY <1>1, <1>8
<1> QED
  BY <1>5, <1>9 DEF t

\* What an action saw was at its position in w, and still is when the text grows.
IsAt(e, w) ==
  e.range[1] \in 0..Len(w) /\ <<e.line, e.column>> = PositionOf(w, e.range[1])

\* A token seen stays where it is in a longer text.
LEMMA StaysAt ==
  ASSUME NEW w \in Seq(Characters), NEW a \in Characters, NEW e, IsAt(e, w)
  PROVE  IsAt(e, Append(w, a))
<1>1. Len(Append(w, a)) = Len(w) + 1 /\ Len(w) \in Nat
  BY AppendProperties, LenProperties
<1>2. PICK n \in 0..Len(w) : n = e.range[1]
  BY DEF IsAt
<1>3. PositionOf(Append(w, a), n) = PositionOf(w, n)
  BY PositionStays
<1> QED
  BY <1>1, <1>2, <1>3 DEF IsAt

\* The inductive invariant: tokens seen in the first text also lie in the text.
PositionInv ==
  first_text => /\ buffer = CurrentToken
                /\ <<line_number, column_number>> = PositionOf(text, token_start)
                /\ \A i \in DOMAIN tokens : IsAt(tokens[i], text)

\* An action sees the position of its token.
LEMMA ActionSeesPosition ==
  ASSUME TextTypeOK, PositionInv, first_text, NEW label, InvokeRuleAction(label)
  PROVE  \A i \in DOMAIN tokens' : IsAt(tokens'[i], text)
<1>1. PICK e : /\ tokens' = Append(tokens, e) /\ e.range = <<token_start, token_end>>
               /\ e.line = line_number /\ e.column = column_number
  BY DEF InvokeRuleAction
<1>2. PICK S : tokens \in Seq(S)
  BY DEF TextTypeOK
<1>3. IsAt(e, text)
  BY <1>1 DEF IsAt, PositionInv, TextTypeOK
<1>4. ASSUME NEW i \in DOMAIN tokens'
      PROVE  IsAt(tokens'[i], text)
  <2>1. i \in 1..Len(tokens) + 1 /\ Len(tokens) \in Nat /\ DOMAIN tokens = 1..Len(tokens)
    BY <1>1, <1>2, <1>4, Appended, LenProperties
  <2>2. CASE i = Len(tokens) + 1
    <3>1. tokens'[i] = e
      BY <1>1, <1>2, <2>2, Appended
    <3> QED
      BY <1>3, <3>1
  <2>3. CASE i # Len(tokens) + 1
    <3>1. i \in 1..Len(tokens)
      BY <2>1, <2>3
    <3>2. tokens'[i] = tokens[i]
      BY <1>1, <1>2, <3>1, Appended
    <3> QED
      BY <2>1, <3>1, <3>2 DEF PositionInv
  <2> QED
    BY <2>2, <2>3
<1> QED
  BY <1>4

\* Feed keeps the invariant: the position moves when the token is cut, by the token.
LEMMA FeedKeepsPositions ==
  ASSUME TextTypeOK, PositionInv, NEW a \in Characters, ClientFeed(a)
  PROVE  PositionInv'
<1> SUFFICES ASSUME first_text
             PROVE  /\ buffer' = CurrentToken'
                    /\ <<line_number', column_number'>> = PositionOf(text', token_start')
                    /\ \A i \in DOMAIN tokens' : IsAt(tokens'[i], text')
  BY DEF PositionInv, ClientFeed
<1>1. /\ text \in Seq(Characters) /\ Len(text) \in Nat /\ token_end = Len(text)
      /\ token_start \in 0..Len(text) /\ Len(text) \in 0..Len(text)
  BY LenProperties DEF TextTypeOK
<1>2. /\ buffer = SubSeq(text, token_start + 1, Len(text))
      /\ <<line_number, column_number>> = PositionOf(text, token_start)
      /\ \A i \in DOMAIN tokens : IsAt(tokens[i], text)
  BY <1>1 DEF PositionInv, CurrentToken
<1>3. /\ PositionOf(Append(text, a), token_start) = PositionOf(text, token_start)
      /\ PositionOf(Append(text, a), Len(text)) = PositionOf(text, Len(text))
  BY <1>1, PositionStays
<1>4. CASE FeedContinues(a)
  <2>1. /\ text' = Append(text, a) /\ token_start' = token_start /\ tokens' = tokens
        /\ token_end' = Len(text) + 1 /\ buffer' = Append(buffer, a)
        /\ line_number' = line_number /\ column_number' = column_number
    BY <1>1, <1>4 DEF ClientFeed, FeedContinues, scope
  <2>2. buffer' = CurrentToken'
    BY <1>1, <1>2, <2>1, TokenGrows DEF CurrentToken
  <2>3. \A i \in DOMAIN tokens : IsAt(tokens[i], Append(text, a))
    BY <1>1, <1>2, StaysAt
  <2> QED
    BY <1>2, <1>3, <2>1, <2>2, <2>3
<1>5. CASE FeedRefused(a)
  <2>1. UNCHANGED <<text, token_start, token_end, tokens, buffer, line_number, column_number>>
    BY <1>1, <1>5 DEF ClientFeed, FeedRefused, lexer_vars, scope
  <2> QED
    BY <1>1, <1>2, <2>1 DEF CurrentToken
<1>6. CASE FeedCuts(a)
  <2>1. /\ token_start' = Len(text)
        /\ <<line_number', column_number'>> = Advanced(line_number, column_number, buffer)
    <3>1. Advanced(line_number, column_number, buffer) = PositionOf(text, Len(text))
      BY <1>1, <1>2, AdvancedIsPosition
    <3>2. PositionOf(text, Len(text)) = <<PositionOf(text, Len(text))[1], PositionOf(text, Len(text))[2]>>
      BY <1>1, PositionIs
    <3> QED
      BY <1>1, <1>6, <3>1, <3>2 DEF FeedCuts
  <2>2. <<line_number', column_number'>> = PositionOf(text, Len(text))
    BY <1>1, <1>2, <2>1, AdvancedIsPosition
  <2>3. \A i \in DOMAIN tokens' : IsAt(tokens'[i], text)
    BY <1>6, ActionSeesPosition DEF FeedCuts
  <2>4. CASE buffer' = <<a>> /\ token_end' = token_end + 1
    <3>1. text' = Append(text, a) /\ token_end' = Len(text) + 1
      BY <1>1, <2>4, <1>6 DEF ClientFeed
    <3>2. buffer' = CurrentToken'
      BY <1>1, <2>1, <2>4, <3>1, TokenGrows DEF CurrentToken
    <3>3. \A i \in DOMAIN tokens' : IsAt(tokens'[i], Append(text, a))
      BY <1>1, <2>3, StaysAt
    <3> QED
      BY <1>3, <2>1, <2>2, <3>1, <3>2, <3>3
  <2>5. CASE buffer' = << >> /\ token_end' = token_end
    <3>1. text' = text
      BY <1>1, <2>5 DEF ClientFeed
    <3>2. buffer' = CurrentToken'
      BY <1>1, <2>1, <2>5, <3>1, TokenGrows DEF CurrentToken
    <3> QED
      BY <2>1, <2>2, <2>3, <3>1, <3>2
  <2> QED
    BY <1>6, <2>4, <2>5 DEF FeedCuts
<1>7. CASE FeedThrows(a)
  <2>1. UNCHANGED <<text, token_start, token_end, buffer, line_number, column_number>>
    BY <1>1, <1>7 DEF ClientFeed, FeedThrows
  <2>2. \A i \in DOMAIN tokens' : IsAt(tokens'[i], text)
    BY <1>2, <1>7, ActionSeesPosition DEF FeedThrows
  <2> QED
    BY <1>1, <1>2, <2>1, <2>2 DEF CurrentToken
<1> QED
  BY <1>4, <1>5, <1>6, <1>7 DEF ClientFeed, FeedCharacter

\* End keeps it: it moves nothing.
LEMMA EndKeepsPositions ==
  ASSUME TextTypeOK, PositionInv, ClientEndText
  PROVE  PositionInv'
<1>1. /\ UNCHANGED <<text, token_start, token_end, buffer, line_number, column_number, first_text>>
      /\ tokens' = tokens \/ InvokeRuleAction(State(current_state).label)
  BY DEF ClientEndText, EndText
<1>2. first_text => \A i \in DOMAIN tokens' : IsAt(tokens'[i], text)
  BY <1>1, ActionSeesPosition DEF PositionInv
<1> QED
  BY <1>1, <1>2 DEF PositionInv, CurrentToken

\* In the first text, buffer and position are those of the current token.
LEMMA PositionInvariant == TextSpec => []PositionInv
<1>1. TextInit => PositionInv
  <2> SUFFICES ASSUME TextInit
               PROVE  PositionInv
    OBVIOUS
  <2>1. PICK l \in LexersOf(lexer_grammar) : LexerStart(l)
    BY DEF TextInit
  <2> QED
    BY <2>1, NewPositions DEF TextInit, LexerStart, PositionInv, CurrentToken
<1>2. TextTypeOK /\ PositionInv /\ [TextNext]_text_vars => PositionInv'
  <2> SUFFICES ASSUME TextTypeOK, PositionInv, [TextNext]_text_vars
               PROVE  PositionInv'
    OBVIOUS
  <2>1. ASSUME NEW a \in Characters, ClientFeed(a)
        PROVE  PositionInv'
    BY <2>1, FeedKeepsPositions
  <2>2. CASE ClientEndText
    BY <2>2, EndKeepsPositions
  <2>3. CASE ClientCreateInstance
    <3>1. /\ text' = << >> /\ token_start' = 0 /\ token_end' = 0 /\ buffer' = << >>
          /\ line_number' = 1 /\ column_number' = 0 /\ tokens' = << >>
      BY <2>3 DEF ClientCreateInstance, CreateInstance, InitWithScope, Restarted, Anew
    <3> QED
      BY <3>1, NewPositions DEF PositionInv, CurrentToken
  <2>4. CASE ClientResetLexer
    BY <2>4 DEF ClientResetLexer, PositionInv
  <2>5. CASE UNCHANGED text_vars
    BY <2>5 DEF text_vars, lexer_vars, scope, PositionInv, CurrentToken
  <2> QED
    BY <2>1, <2>2, <2>3, <2>4, <2>5 DEF TextNext
<1> QED
  BY <1>1, <1>2, TextTypeInvariant, PTL DEF TextSpec

\* In the first text of an instance, however long, the buffer is the current token and
\* the line and the column are right for every token (LexerInstance::Feed).
THEOREM FirstPositionsAlwaysMatch == TextSpec => []FirstPositionsMatchText
<1>1. PositionInv => FirstPositionsMatchText
  BY DEF PositionInv, FirstPositionsMatchText, PositionsMatchText, IsAt
<1> QED
  BY <1>1, PositionInvariant, PTL
================================================================================
