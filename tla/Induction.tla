------------------------------- MODULE Induction -------------------------------
(***************************************************************************)
(* Induction over the natural numbers and definition by recursion, in a form*)
(* without operator parameters: what is to be shown of i is membership in a *)
(* set, X[i].  Everything follows from the well-foundedness of < on Nat.    *)
(***************************************************************************)
EXTENDS Integers, Sequences, TLAPS, WellFoundedInduction

\* A set of natural numbers that is not empty has a least element.
LEMMA LeastNumber ==
  ASSUME NEW T \in SUBSET Nat, T # {}
  PROVE  \E n \in T : \A m \in T : n <= m
<1> DEFINE R == OpToRel(<, Nat)
<1>1. IsWellFoundedOn(R, Nat)
  BY NatLessThanWellFounded
<1>2. \A x, y \in Nat : <<y, x>> \in R <=> y < x
  BY DEF OpToRel
<1> HIDE DEF R
<1>3. PICK n \in T : \A m \in T : ~(<<m, n>> \in R)
  BY <1>1, WFMin
<1>4. ASSUME NEW m \in T
      PROVE  n <= m
  <2>1. ~(m < n) /\ m \in Nat /\ n \in Nat
    BY <1>2, <1>3
  <2> QED
    BY <2>1
<1> QED
  BY <1>4

\* A set that has 0 and is closed under the successor up to n has 0..n.
LEMMA UpwardInduction ==
  ASSUME NEW n \in Nat, NEW S,
         0 \in S,
         \A i \in 1..n : i - 1 \in S => i \in S
  PROVE  0..n \subseteq S
<1> DEFINE T == (0..n) \ S
<1>1. SUFFICES ASSUME T # {}
               PROVE  FALSE
  OBVIOUS
<1>2. T \in SUBSET Nat
  OBVIOUS
<1>3. PICK k \in T : \A j \in T : k <= j
  <2> HIDE DEF T
  <2> QED
    BY <1>1, <1>2, LeastNumber
<1>4. k \in 1..n /\ k \notin S
  BY <1>3
<1>5. k - 1 \in 0..n /\ ~(k <= k - 1)
  BY <1>4
<1>6. k - 1 \in S
  BY <1>3, <1>5
<1> QED
  BY <1>4, <1>6

\* The members f[i] of a family of sets X: from each to the next.
LEMMA FamilyInduction ==
  ASSUME NEW n \in Nat, NEW f, NEW X,
         f[0] \in X[0],
         \A i \in 1..n : f[i - 1] \in X[i - 1] => f[i] \in X[i]
  PROVE  \A i \in 0..n : f[i] \in X[i]
<1> DEFINE S == {i \in 0..n : f[i] \in X[i]}
<1>1. 0 \in S
  OBVIOUS
<1>2. ASSUME NEW i \in 1..n, i - 1 \in S
      PROVE  i \in S
  BY <1>2
<1>3. 0..n \subseteq S
  <2> HIDE DEF S
  <2> QED
    BY <1>1, <1>2, UpwardInduction
<1> QED
  BY <1>3

\* Definition by recursion: f begins with base, and step makes each value from the
\* one before it.
StepsUp(step, n, X) == \A i \in 1..n : \A x \in X[i - 1] : step[i][x] \in X[i]
IsDefinedUp(f, base, step, n, X) ==
  /\ f \in [0..n -> UNION {X[i] : i \in 0..n}]
  /\ f[0] = base
  /\ \A i \in 1..n : f[i] = step[i][f[i - 1]]
  /\ \A i \in 0..n : f[i] \in X[i]

\* A function defined from 0 upwards by given steps within given sets exists.
LEMMA Recursion ==
  ASSUME NEW n \in Nat, NEW X, NEW base \in X[0], NEW step, StepsUp(step, n, X)
  PROVE  \E f : IsDefinedUp(f, base, step, n, X)
<1> USE DEF StepsUp, IsDefinedUp
<1> DEFINE Is(f, k) == /\ f[0] = base
                       /\ \A i \in 1..k : f[i] = step[i][f[i - 1]]
                       /\ \A i \in 0..k : f[i] \in X[i]
           S == {k \in 0..n : \E f : Is(f, k)}
<1>1. 0 \in S
  <2>1. Is([i \in 0..0 |-> base], 0)
    OBVIOUS
  <2>2. 0 \in 0..n
    OBVIOUS
  <2> HIDE DEF Is
  <2> QED
    BY <2>1, <2>2
<1>2. ASSUME NEW k \in 1..n, k - 1 \in S
      PROVE  k \in S
  <2>1. PICK f : Is(f, k - 1)
    BY <1>2
  <2> DEFINE g == [i \in 0..k |-> IF i = k THEN step[k][f[k - 1]] ELSE f[i]]
  <2>2. \A i \in 0..k - 1 : g[i] = f[i]
    OBVIOUS
  <2>3. g[k] = step[k][g[k - 1]] /\ g[k] \in X[k]
    <3>1. k - 1 \in 0..k - 1 /\ k \in 0..k
      OBVIOUS
    <3>2. f[k - 1] \in X[k - 1]
      BY <2>1, <3>1
    <3> QED
      BY <2>2, <3>1, <3>2
  <2>4. g[0] = base /\ g[0] \in X[0]
    BY <2>1, <2>2
  <2>5. ASSUME NEW i \in 1..k - 1
        PROVE  g[i] = step[i][g[i - 1]] /\ g[i] \in X[i]
    <3>1. i \in 0..k - 1 /\ i - 1 \in 0..k - 1 /\ i # 0
      OBVIOUS
    <3>2. f[i] = step[i][f[i - 1]] /\ f[i] \in X[i]
      BY <2>1, <3>1
    <3> QED
      BY <2>2, <3>1, <3>2
  <2> HIDE DEF g
  <2>6. \A i \in 0..k : i = 0 \/ i = k \/ i \in 1..k - 1
    OBVIOUS
  <2>7. Is(g, k)
    BY <2>3, <2>4, <2>5, <2>6
  <2>8. k \in 0..n
    OBVIOUS
  <2> QED
    BY <2>7, <2>8
<1>3. 0..n \subseteq S
  <2> HIDE DEF S
  <2> QED
    BY <1>1, <1>2, UpwardInduction
<1>4. PICK f : Is(f, n)
  BY <1>3
<1> DEFINE g == [i \in 0..n |-> f[i]]
<1>5. g \in [0..n -> UNION {X[i] : i \in 0..n}]
  BY <1>4
<1>6. Is(g, n)
  <2>1. \A i \in 0..n : g[i] = f[i]
    OBVIOUS
  <2>2. \A i \in 1..n : i \in 0..n /\ i - 1 \in 0..n
    OBVIOUS
  <2> HIDE DEF g
  <2> QED
    BY <1>4, <2>1, <2>2
<1> QED
  BY <1>5, <1>6

\* The same from the last value down to the first.
LEMMA DownwardFamilyInduction ==
  ASSUME NEW n \in Nat, NEW f, NEW X,
         f[n + 1] \in X[n + 1],
         \A i \in 1..n : f[i + 1] \in X[i + 1] => f[i] \in X[i]
  PROVE  \A i \in 1..n + 1 : f[i] \in X[i]
<1> DEFINE S == {k \in 0..n : f[n + 1 - k] \in X[n + 1 - k]}
<1>1. 0 \in S
  OBVIOUS
<1>2. ASSUME NEW k \in 1..n, k - 1 \in S
      PROVE  k \in S
  <2>1. n + 1 - k \in 1..n /\ n + 1 - (k - 1) = (n + 1 - k) + 1 /\ k \in 0..n
    OBVIOUS
  <2> QED
    BY <1>2, <2>1
<1>3. 0..n \subseteq S
  <2> HIDE DEF S
  <2> QED
    BY <1>1, <1>2, UpwardInduction
<1>4. ASSUME NEW i \in 1..n + 1
      PROVE  f[i] \in X[i]
  <2>1. n + 1 - i \in 0..n /\ n + 1 - (n + 1 - i) = i
    OBVIOUS
  <2>2. n + 1 - i \in S
    BY <1>3, <2>1
  <2> QED
    BY <2>1, <2>2
<1> QED
  BY <1>4

StepsDown(step, n, X) == \A i \in 1..n : \A x \in X[i + 1] : step[i][x] \in X[i]
IsDefinedDown(f, base, step, n, X) ==
  /\ f \in [1..n + 1 -> UNION {X[i] : i \in 1..n + 1}]
  /\ f[n + 1] = base
  /\ \A i \in 1..n : f[i] = step[i][f[i + 1]]
  /\ \A i \in 1..n + 1 : f[i] \in X[i]

\* And so does one defined from n + 1 downwards.
LEMMA DownwardRecursion ==
  ASSUME NEW n \in Nat, NEW X, NEW base \in X[n + 1], NEW step, StepsDown(step, n, X)
  PROVE  \E f : IsDefinedDown(f, base, step, n, X)
<1> USE DEF StepsDown, IsDefinedDown
<1> DEFINE Y == [k \in 0..n |-> X[n + 1 - k]]
           turned == [k \in 1..n |-> step[n + 1 - k]]
<1>1. base \in Y[0]
  OBVIOUS
<1>2. ASSUME NEW k \in 1..n, NEW x \in Y[k - 1]
      PROVE  turned[k][x] \in Y[k]
  <2>1. /\ n + 1 - k \in 1..n /\ n + 1 - (k - 1) = (n + 1 - k) + 1
        /\ k \in 0..n /\ k - 1 \in 0..n
    OBVIOUS
  <2>2. x \in X[(n + 1 - k) + 1]
    BY <2>1
  <2> QED
    BY <2>1, <2>2
<1>3. PICK g : IsDefinedUp(g, base, turned, n, Y)
  <2>1. StepsUp(turned, n, Y)
    BY <1>2 DEF StepsUp
  <2> HIDE DEF Y, turned
  <2> QED
    BY <1>1, <2>1, Recursion
<1> DEFINE f == [i \in 1..n + 1 |-> g[n + 1 - i]]
<1>4. ASSUME NEW i \in 1..n + 1
      PROVE  f[i] \in X[i]
  <2>1. n + 1 - i \in 0..n /\ n + 1 - (n + 1 - i) = i
    OBVIOUS
  <2> QED
    BY <1>3, <2>1 DEF IsDefinedUp
<1>5. f[n + 1] = base
  <2>1. n + 1 \in 1..n + 1 /\ n + 1 - (n + 1) = 0
    OBVIOUS
  <2> QED
    BY <1>3, <2>1 DEF IsDefinedUp
<1>6. ASSUME NEW i \in 1..n
      PROVE  f[i] = step[i][f[i + 1]]
  <2>1. /\ i \in 1..n + 1 /\ i + 1 \in 1..n + 1 /\ n + 1 - i \in 1..n
        /\ n + 1 - (i + 1) = n + 1 - i - 1 /\ n + 1 - (n + 1 - i) = i
    OBVIOUS
  <2> DEFINE k == n + 1 - i
  <2>2. k \in 1..n /\ f[i] = g[k] /\ f[i + 1] = g[k - 1] /\ turned[k] = step[i]
    BY <2>1
  <2>3. g[k] = turned[k][g[k - 1]]
    <3> HIDE DEF k, turned
    <3> QED
      BY <1>3, <2>2 DEF IsDefinedUp
  <2> QED
    BY <2>2, <2>3
<1>7. f \in [1..n + 1 -> UNION {X[i] : i \in 1..n + 1}]
  BY <1>4
<1> HIDE DEF f
<1> QED
  BY <1>4, <1>5, <1>6, <1>7
================================================================================
