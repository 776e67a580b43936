---------------------------- MODULE ParseTreeProofs ----------------------------
(***************************************************************************)
(* What ConstructTree makes of the parsing streams that the walk back has   *)
(* found, for every well-formed machine.                                    *)
(***************************************************************************)
EXTENDS BackTrackerProofs

Node == [label : Nat, start : Nat, end : Nat, parent : Nat]

\* Parsing streams for the n + 1 moments of a stream of n alphabets.
Streams(n) == [1..n + 1 -> ParsingStream]

\* Markers before position i or earlier, in the order of their positions.
PlacedMarker == {<<kind, rule, p>> : kind \in {"START", "END"}, rule \in Nat, p \in Nat}

OrderedMarkers(i) ==
  {q \in Seq(PlacedMarker) :
     /\ \A j \in DOMAIN q : q[j][3] < i
     /\ \A j, l \in DOMAIN q : j <= l => q[j][3] <= q[l][3]}

\* One more parsing stream.
Placed(parsing_stream, p) ==
  [j \in 1..Len(parsing_stream) |-> <<parsing_stream[j][1], parsing_stream[j][2], p>>]

\* They are markers with their position.
LEMMA PlacedTyped ==
  ASSUME NEW s \in ParsingStream, NEW p \in Nat
  PROVE  /\ Placed(s, p) \in Seq(PlacedMarker) /\ Len(Placed(s, p)) = Len(s)
         /\ \A j \in 1..Len(s) : Placed(s, p)[j][3] = p
<1> DEFINE added == Placed(s, p)
<1>1. s \in Seq(Marker) /\ Len(s) \in Nat
  BY DEF ParsingStream
<1>2. \A j \in 1..Len(s) : added[j] \in PlacedMarker /\ added[j][3] = p
  <2> SUFFICES ASSUME NEW j \in 1..Len(s)
               PROVE  added[j] \in PlacedMarker /\ added[j][3] = p
    OBVIOUS
  <2>1. s[j] \in Marker
    BY <1>1
  <2>2. s[j][1] \in {"START", "END"} /\ s[j][2] \in Nat
    BY <2>1 DEF Marker
  <2>3. added[j] = <<s[j][1], s[j][2], p>>
    BY DEF Placed
  <2>4. <<s[j][1], s[j][2], p>> \in PlacedMarker
    BY <2>2 DEF PlacedMarker
  <2> HIDE DEF added
  <2> QED
    BY <2>3, <2>4
<1>3. added \in Seq(PlacedMarker) /\ Len(added) = Len(s)
  <2> DEFINE k == Len(s)
  <2>1. added \in [1..k -> PlacedMarker] /\ k \in Nat
    BY <1>1, <1>2 DEF Placed
  <2> HIDE DEF k, added
  <2>2. added \in Seq(PlacedMarker)
    BY <2>1, SeqDef
  <2>3. Len(added) = k
    BY <2>1, <2>2, LenProperties
  <2> QED
    BY <2>2, <2>3 DEF k
<1> QED
  BY <1>2, <1>3

\* The markers of the next position come after all others.
LEMMA PlacedIsOrdered ==
  ASSUME NEW s \in ParsingStream, NEW i \in Nat \ {0}, NEW q \in OrderedMarkers(i - 1)
  PROVE  q \o Placed(s, i - 1) \in OrderedMarkers(i)
<1> DEFINE added == Placed(s, i - 1)
           both == q \o added
<1>1. /\ q \in Seq(PlacedMarker) /\ i - 1 \in Nat
      /\ \A j \in DOMAIN q : q[j] \in PlacedMarker /\ q[j][3] \in Nat /\ q[j][3] < i - 1
      /\ \A j, l \in DOMAIN q : j <= l => q[j][3] <= q[l][3]
  BY DEF OrderedMarkers, PlacedMarker
<1>3. \A j \in 1..Len(s) : added[j][3] = i - 1
  BY <1>1, PlacedTyped
<1>4. added \in Seq(PlacedMarker) /\ Len(added) = Len(s)
  BY <1>1, PlacedTyped
<1> HIDE DEF added
<1>5. /\ both \in Seq(PlacedMarker)
      /\ DOMAIN both = 1..Len(q) + Len(added)
      /\ \A j \in 1..Len(q) + Len(added) :
           both[j] = IF j <= Len(q) THEN q[j] ELSE added[j - Len(q)]
      /\ Len(q) \in Nat /\ Len(added) \in Nat /\ DOMAIN q = 1..Len(q)
  BY <1>1, <1>4
<1>6. ASSUME NEW j \in DOMAIN both
      PROVE  /\ both[j][3] \in Nat
             /\ both[j][3] < i
             /\ IF j <= Len(q) THEN j \in DOMAIN q /\ both[j] = q[j]
                               ELSE both[j][3] = i - 1
  <2>1. CASE j <= Len(q)
    BY <1>1, <1>5, <2>1
  <2>2. CASE ~(j <= Len(q))
    <3>1. j - Len(q) \in 1..Len(s) /\ both[j] = added[j - Len(q)]
      BY <1>4, <1>5, <2>2
    <3> QED
      BY <1>1, <1>3, <2>2, <3>1
  <2> QED
    BY <2>1, <2>2
<1>7. ASSUME NEW j \in DOMAIN both, NEW l \in DOMAIN both, j <= l
      PROVE  both[j][3] <= both[l][3]
  <2>1. j \in Nat /\ l \in Nat
    BY <1>5
  <2>2. CASE l <= Len(q)
    BY <1>1, <1>5, <1>6, <1>7, <2>1, <2>2
  <2>3. CASE ~(l <= Len(q))
    BY <1>1, <1>6, <2>3
  <2> QED
    BY <2>2, <2>3
<1> HIDE DEF both
<1>8. both \in OrderedMarkers(i)
  BY <1>5, <1>6, <1>7 DEF OrderedMarkers
<1> QED
  BY <1>8 DEF both, added

\* at[i] holds the markers of the first i parsing streams.
AreMarkers(at, pss, n) ==
  /\ at[0] = << >>
  /\ \A i \in 1..n + 1 : at[i] = at[i - 1] \o Placed(pss[i], i - 1)
  /\ \A i \in 0..n + 1 : at[i] \in OrderedMarkers(i)

\* Markers returns the markers of n + 1 parsing streams in order.
LEMMA MarkersDefined ==
  ASSUME NEW n \in Nat, NEW pss \in Streams(n)
  PROVE  /\ Len(pss) = n + 1
         /\ \E at : AreMarkers(at, pss, n) /\ Markers(pss) = at[n + 1]
<1> DEFINE m == Len(pss)
           X == [i \in 0..m |-> OrderedMarkers(i)]
           step == [i \in 1..m |-> [q \in X[i - 1] |-> q \o Placed(pss[i], i - 1)]]
           Body(g) == [i \in 0..m |-> IF i = 0 THEN << >> ELSE g[i - 1] \o Placed(pss[i], i - 1)]
<1>1. /\ pss \in Seq(ParsingStream) /\ m = n + 1 /\ m \in Nat
      /\ \A i \in 1..m : pss[i] \in ParsingStream
  BY DEF Streams
<1>2. << >> \in X[0]
  BY <1>1 DEF OrderedMarkers
<1>3. ASSUME NEW i \in 1..m, NEW q \in X[i - 1]
      PROVE  step[i][q] = q \o Placed(pss[i], i - 1) /\ step[i][q] \in X[i]
  <2>1. i \in Nat \ {0} /\ i \in 0..m /\ i - 1 \in 0..m /\ q \in OrderedMarkers(i - 1)
    BY <1>1
  <2> QED
    BY <1>1, <2>1, PlacedIsOrdered
<1>4. PICK f : IsDefinedUp(f, << >>, step, m, X)
  <2>1. StepsUp(step, m, X)
    BY <1>3 DEF StepsUp
  <2> HIDE DEF m, X, step
  <2> QED
    BY <1>1, <1>2, <2>1, Recursion
<1>5. f = Body(f)
  <2>1. ASSUME NEW i \in 0..m
        PROVE  f[i] = IF i = 0 THEN << >> ELSE f[i - 1] \o Placed(pss[i], i - 1)
    <3>1. CASE i = 0
      BY <1>4, <3>1 DEF IsDefinedUp
    <3>2. CASE i # 0
      <4>1. i \in 1..m /\ i - 1 \in 0..m
        BY <1>1, <3>2
      <4> HIDE DEF m, X, step
      <4>2. f[i] = step[i][f[i - 1]] /\ f[i - 1] \in X[i - 1]
        BY <1>4, <4>1 DEF IsDefinedUp
      <4> QED
        BY <1>3, <3>2, <4>1, <4>2
    <3> QED
      BY <3>1, <3>2
  <2>2. f = [i \in 0..m |-> f[i]]
    BY <1>4 DEF IsDefinedUp
  <2> HIDE DEF m
  <2> QED
    BY <2>1, <2>2
<1>6. PICK g : g = Body(g) /\ Markers(pss) = g[m]
  <2>1. Markers(pss) = (CHOOSE g : g = Body(g))[m]
    BY DEF Markers, Placed
  <2> HIDE DEF Body
  <2> QED
    BY <1>5, <2>1
<1>7. g[0] \in X[0]
  BY <1>1, <1>2, <1>6
<1>8. ASSUME NEW i \in 1..m, g[i - 1] \in X[i - 1]
      PROVE  g[i] \in X[i]
  <2>1. i \in 0..m /\ i # 0
    BY <1>1
  <2>2. g[i] = g[i - 1] \o Placed(pss[i], i - 1)
    BY <1>6, <2>1
  <2> HIDE DEF X, step
  <2> QED
    BY <1>3, <1>8, <2>2
<1>9. \A i \in 0..m : g[i] \in X[i]
  <2> HIDE DEF X, m
  <2> QED
    BY <1>1, <1>7, <1>8, FamilyInduction
<1>10. \A i \in 1..n + 1 : g[i] = g[i - 1] \o Placed(pss[i], i - 1)
  <2>1. \A i \in 1..n + 1 : i \in 0..m /\ i # 0
    BY <1>1
  <2> QED
    BY <1>6, <2>1
<1>11. g[0] = << >>
  BY <1>1, <1>6
<1>12. \A i \in 0..n + 1 : g[i] \in OrderedMarkers(i)
  BY <1>1, <1>9
<1> HIDE DEF X, step, Body
<1>13. AreMarkers(g, pss, n)
  BY <1>10, <1>11, <1>12 DEF AreMarkers
<1> QED
  BY <1>1, <1>6, <1>13

\* And they are in order.
LEMMA MarkersAreOrdered ==
  ASSUME NEW n \in Nat, NEW pss \in Streams(n)
  PROVE  Len(pss) = n + 1 /\ Markers(pss) \in OrderedMarkers(n + 1)
<1>1. PICK at : AreMarkers(at, pss, n) /\ Markers(pss) = at[n + 1]
  BY MarkersDefined
<1>2. Len(pss) = n + 1
  BY MarkersDefined
<1>3. n + 1 \in 0..n + 1
  OBVIOUS
<1> QED
  BY <1>1, <1>2, <1>3 DEF AreMarkers

-------------------------------------------------------------------------------
(* One marker *)

\* What TreeWalk makes, with the types of its fields.
Tree == [nodes : Seq(Node), open : Seq(Nat), status : {"done", "aborts"}]

IsTree(t) ==
  /\ t \in Tree
  /\ t.nodes # << >>
  /\ t.status = "done" => /\ t.open # << >>
                          /\ \A j \in DOMAIN t.open : t.open[j] \in DOMAIN t.nodes

OpenNodes(t) == {t.open[j] : j \in DOMAIN t.open}

\* The nodes open now lead from the root down, and each is the parent of the next.
OpenNodesDescend(t) ==
  /\ t.open[1] = 1
  /\ \A j, l \in DOMAIN t.open : j < l => t.open[j] < t.open[l]
  /\ \A j \in DOMAIN t.open \ {1} : t.nodes[t.open[j]].parent = t.open[j - 1]

\* Node k after the markers up to position p: its parent was made before it; when
\* both are closed it lies within its parent, and so far it does when only one is.
NodeNests(t, k, p) ==
  LET node == t.nodes[k]
      up == t.nodes[node.parent]
  IN /\ node.parent \in 1..k - 1
     /\ up.start <= node.start
     /\ k \in OpenNodes(t) => node.start <= p
     /\ k \notin OpenNodes(t) =>
          /\ node.start <= node.end
          /\ IF node.parent \in OpenNodes(t) \ {1} THEN node.end <= p ELSE node.end <= up.end

NestsUpTo(t, p, n) ==
  t.status = "done" =>
    /\ t.nodes[1].start = 0 /\ t.nodes[1].end = n
    /\ OpenNodesDescend(t)
    /\ \A k \in DOMAIN t.nodes \ {1} : NodeNests(t, k, p)

\* The two loops of ConstructTree, as records.
LEMMA NodeOpened ==
  ASSUME NEW t, IsTree(t), t.status = "done", NEW marker
  PROVE  OpenNode(t, marker) =
           [nodes |-> Append(t.nodes, [label |-> marker[2], start |-> marker[3], end |-> 0,
                                       parent |-> t.open[Len(t.open)]]),
            open |-> Append(t.open, Len(t.nodes) + 1), status |-> "done"]
<1> DEFINE node == [label |-> marker[2], start |-> marker[3], end |-> 0,
                    parent |-> t.open[Len(t.open)]]
           u == OpenNode(t, marker)
<1>1. PICK ns, op : t = [nodes |-> ns, open |-> op, status |-> "done"]
  BY DEF IsTree, Tree
<1>2. PICK x, y : x = Append(t.nodes, node) /\ y = Append(t.open, Len(t.nodes) + 1)
  OBVIOUS
<1>3. u = [t EXCEPT !.nodes = x, !.open = y]
  BY <1>2 DEF OpenNode, Last
<1> HIDE DEF node, u
<1>4. u = [nodes |-> x, open |-> y, status |-> "done"]
  BY <1>1, <1>3
<1> QED
  BY <1>2, <1>4 DEF node, u

LEMMA NodeClosed ==
  ASSUME NEW t, IsTree(t), t.status = "done", NEW marker
  PROVE  CloseNode(t, marker) =
           [nodes |-> [t.nodes EXCEPT ![t.open[Len(t.open)]] =
                         [t.nodes[t.open[Len(t.open)]] EXCEPT !.end = marker[3]]],
            open |-> SubSeq(t.open, 1, Len(t.open) - 1),
            status |-> IF Len(t.open) = 1 THEN "aborts" ELSE "done"]
<1> DEFINE nodes == [t.nodes EXCEPT ![t.open[Len(t.open)]] =
                       [t.nodes[t.open[Len(t.open)]] EXCEPT !.end = marker[3]]]
           u == CloseNode(t, marker)
<1>1. PICK ns, op : t = [nodes |-> ns, open |-> op, status |-> "done"]
  BY DEF IsTree, Tree
<1>2. PICK x, y, z : /\ x = nodes /\ y = SubSeq(t.open, 1, Len(t.open) - 1)
                     /\ z = IF Len(t.open) = 1 THEN "aborts" ELSE "done"
  OBVIOUS
<1>3. u = [t EXCEPT !.nodes = x, !.open = y, !.status = z]
  BY <1>2 DEF CloseNode, Last, Front
<1> HIDE DEF nodes, u
<1>4. u = [nodes |-> x, open |-> y, status |-> z]
  BY <1>1, <1>3
<1> QED
  BY <1>2, <1>4 DEF nodes, u

\* A START marker adds an open node below the last open one.
LEMMA OpenNodeNests ==
  ASSUME NEW t, IsTree(t), t.status = "done", NEW marker \in PlacedMarker
  PROVE  /\ IsTree(OpenNode(t, marker))
         /\ \A p, n \in Nat :
              NestsUpTo(t, p, n) /\ p <= marker[3] /\ marker[3] <= n =>
                NestsUpTo(OpenNode(t, marker), marker[3], n)
<1> DEFINE new == Len(t.nodes) + 1
           d == Len(t.open)
           node == [label |-> marker[2], start |-> marker[3], end |-> 0, parent |-> t.open[d]]
           u == OpenNode(t, marker)
<1>1. /\ t.nodes \in Seq(Node) /\ t.open \in Seq(Nat) /\ t.open # << >> /\ t.nodes # << >>
      /\ t = [nodes |-> t.nodes, open |-> t.open, status |-> "done"]
      /\ \A j \in DOMAIN t.open : t.open[j] \in DOMAIN t.nodes
  BY DEF IsTree, Tree
<1>2. /\ d \in Nat /\ d \in DOMAIN t.open /\ d # 0 /\ DOMAIN t.open = 1..d
      /\ new \in Nat /\ new # 1 /\ DOMAIN t.nodes = 1..new - 1 /\ 1 \in DOMAIN t.nodes
      /\ t.open[d] \in 1..new - 1
  BY <1>1
<1>3. marker[2] \in Nat /\ marker[3] \in Nat
  BY DEF PlacedMarker
<1>4. /\ node \in Node
      /\ node.start = marker[3] /\ node.end = 0 /\ node.parent = t.open[d]
  BY <1>2, <1>3 DEF Node
<1>5. u = [nodes |-> Append(t.nodes, node), open |-> Append(t.open, new), status |-> "done"]
  BY NodeOpened
<1>6. /\ u.nodes \in Seq(Node) /\ DOMAIN u.nodes = 1..new /\ u.nodes # << >>
      /\ u.nodes[new] = node /\ \A k \in 1..new - 1 : u.nodes[k] = t.nodes[k]
  BY <1>1, <1>2, <1>4, <1>5
<1>7. /\ u.open \in Seq(Nat) /\ DOMAIN u.open = 1..d + 1 /\ u.open # << >>
      /\ u.open[d + 1] = new /\ \A j \in 1..d : u.open[j] = t.open[j]
  BY <1>1, <1>2, <1>5
<1>8. u.status = "done" /\ u \in Tree
  BY <1>5, <1>6, <1>7 DEF Tree
<1> HIDE DEF u, new, d, node
<1>below. \A j \in 1..d : /\ u.open[j] = t.open[j] /\ t.open[j] \in 1..new - 1
                           /\ t.open[j] \in 1..new
  BY <1>1, <1>2, <1>7
<1>9. IsTree(u)
  <2>1. ASSUME NEW j \in 1..d + 1
        PROVE  u.open[j] \in 1..new
    <3>1. CASE j = d + 1
      BY <1>2, <1>7, <3>1
    <3>2. CASE j \in 1..d
      BY <1>below, <3>2
    <3> QED
      BY <1>2, <3>1, <3>2
  <2> QED
    BY <1>6, <1>7, <1>8, <2>1 DEF IsTree
<1>10. ASSUME NEW p \in Nat, NEW n \in Nat,
              NestsUpTo(t, p, n), p <= marker[3], marker[3] <= n
       PROVE  NestsUpTo(u, marker[3], n)
  <2>1. /\ t.nodes[1].start = 0 /\ t.nodes[1].end = n
        /\ OpenNodesDescend(t)
        /\ \A k \in 2..new - 1 : NodeNests(t, k, p)
    BY <1>2, <1>10 DEF NestsUpTo
  <2>2. OpenNodesDescend(u)
    <3>1. u.open[1] = 1
      BY <1>2, <1>7, <2>1 DEF OpenNodesDescend
    <3>2. ASSUME NEW j \in 1..d + 1, NEW l \in 1..d + 1, j < l
          PROVE  u.open[j] < u.open[l]
      <4>1. j \in 1..d
        BY <1>2, <3>2
      <4>2. CASE l = d + 1
        BY <1>2, <1>7, <1>below, <4>1, <4>2
      <4>3. CASE l \in 1..d
        BY <1>2, <1>below, <2>1, <3>2, <4>1, <4>3 DEF OpenNodesDescend
      <4> QED
        BY <1>2, <4>2, <4>3
    <3>3. ASSUME NEW j \in 2..d + 1
          PROVE  u.nodes[u.open[j]].parent = u.open[j - 1]
      <4>1. j - 1 \in 1..d /\ u.open[j - 1] = t.open[j - 1]
        BY <1>2, <1>7
      <4>2. CASE j = d + 1
        BY <1>2, <1>4, <1>6, <1>7, <4>1, <4>2
      <4>3. CASE j \in 2..d
        <5>1. /\ u.open[j] = t.open[j] /\ t.open[j] \in 1..new - 1
              /\ j \in DOMAIN t.open \ {1}
          BY <1>2, <1>below, <4>3
        <5>2. t.nodes[t.open[j]].parent = t.open[j - 1]
          BY <2>1, <5>1 DEF OpenNodesDescend
        <5> QED
          BY <1>6, <4>1, <5>1, <5>2
      <4> QED
        BY <1>2, <4>2, <4>3
    <3>4. \A j \in DOMAIN u.open \ {1} : j \in 2..d + 1
      BY <1>2, <1>7
    <3> QED
      BY <1>7, <3>1, <3>2, <3>3, <3>4 DEF OpenNodesDescend
  <2>3. OpenNodes(u) = OpenNodes(t) \cup {new} /\ new \notin OpenNodes(t)
    <3>1. new \notin OpenNodes(t)
      BY <1>1, <1>2 DEF OpenNodes
    <3>2. OpenNodes(u) = {u.open[j] : j \in 1..d + 1} /\ OpenNodes(t) = {t.open[j] : j \in 1..d}
      BY <1>2, <1>7 DEF OpenNodes
    <3>3. \A j : j \in 1..d + 1 <=> j \in 1..d \/ j = d + 1
      BY <1>2
    <3> QED
      BY <1>7, <3>1, <3>2, <3>3
  <2>4. NodeNests(u, new, marker[3])
    <3>1. t.open[d] \in 1..new - 1 /\ u.nodes[t.open[d]] = t.nodes[t.open[d]]
      BY <1>2, <1>6
    <3>2. t.nodes[t.open[d]].start <= marker[3]
      <4>1. CASE t.open[d] = 1
        BY <1>3, <2>1, <4>1
      <4>2. CASE t.open[d] # 1
        <5>1. t.open[d] \in 2..new - 1 /\ t.open[d] \in OpenNodes(t)
          BY <1>2, <4>2 DEF OpenNodes
        <5>2. t.nodes[t.open[d]].start <= p
          BY <2>1, <5>1 DEF NodeNests
        <5>3. t.nodes[t.open[d]] \in Node
          BY <1>1, <1>2
        <5>4. t.nodes[t.open[d]].start \in Nat
          BY <5>3 DEF Node
        <5>5. p \in Nat /\ p <= marker[3]
          BY <1>10
        <5> QED
          BY <1>3, <5>2, <5>4, <5>5
      <4> QED
        BY <4>1, <4>2
    <3> QED
      BY <1>2, <1>3, <1>4, <1>6, <2>3, <3>1, <3>2 DEF NodeNests
  <2>5. ASSUME NEW k \in 2..new - 1
        PROVE  NodeNests(u, k, marker[3])
    <3>1. /\ NodeNests(t, k, p) /\ k \in 1..new - 1 /\ k # new
          /\ t.nodes[k].parent \in 1..k - 1
          /\ t.nodes[k].parent \in 1..new - 1 /\ t.nodes[k].parent # new
      <4>1. k \in 1..new - 1 /\ k # new
        BY <1>2
      <4>2. NodeNests(t, k, p)
        BY <2>1
      <4>3. t.nodes[k].parent \in 1..k - 1
        BY <4>2 DEF NodeNests
      <4> QED
        BY <1>2, <4>1, <4>2, <4>3
    <3>2. u.nodes[k] = t.nodes[k] /\ u.nodes[t.nodes[k].parent] = t.nodes[t.nodes[k].parent]
      BY <1>6, <3>1
    <3>3. t.nodes[k] \in Node /\ t.nodes[k].start \in Nat /\ t.nodes[k].end \in Nat
      <4>1. t.nodes[k] \in Node
        BY <1>1, <1>2, <3>1
      <4> QED
        BY <4>1 DEF Node
    <3> QED
      BY <1>3, <1>10, <2>3, <3>1, <3>2, <3>3 DEF NodeNests
  <2>6. \A k \in DOMAIN u.nodes \ {1} : k = new \/ k \in 2..new - 1
    BY <1>2, <1>6
  <2>7. u.nodes[1] = t.nodes[1]
    BY <1>2, <1>6
  <2> QED
    BY <2>1, <2>2, <2>4, <2>5, <2>6, <2>7 DEF NestsUpTo
<1> QED
  BY <1>9, <1>10 DEF u

\* An END marker closes the last open node within its parent.
LEMMA CloseNodeNests ==
  ASSUME NEW t, IsTree(t), t.status = "done", NEW marker \in PlacedMarker
  PROVE  /\ IsTree(CloseNode(t, marker))
         /\ \A p, n \in Nat :
              NestsUpTo(t, p, n) /\ p <= marker[3] /\ marker[3] <= n =>
                NestsUpTo(CloseNode(t, marker), marker[3], n)
<1> DEFINE d == Len(t.open)
           c == t.open[d]
           m == Len(t.nodes)
           node == [t.nodes[c] EXCEPT !.end = marker[3]]
           nodes == [t.nodes EXCEPT ![c] = node]
           open == SubSeq(t.open, 1, d - 1)
           status == IF d = 1 THEN "aborts" ELSE "done"
           u == CloseNode(t, marker)
<1>1. /\ t.nodes \in Seq(Node) /\ t.open \in Seq(Nat) /\ t.open # << >> /\ t.nodes # << >>
      /\ t = [nodes |-> t.nodes, open |-> t.open, status |-> "done"]
      /\ \A j \in DOMAIN t.open : t.open[j] \in DOMAIN t.nodes
  BY DEF IsTree, Tree
<1>2. /\ d \in Nat /\ d \in DOMAIN t.open /\ d # 0 /\ DOMAIN t.open = 1..d
      /\ m \in Nat /\ m # 0 /\ DOMAIN t.nodes = 1..m
      /\ c \in 1..m /\ t.nodes[c] \in Node /\ c = t.open[d]
  BY <1>1
<1>3. marker[3] \in Nat
  BY DEF PlacedMarker
<1>4. /\ node \in Node /\ node.end = marker[3]
      /\ node.start = t.nodes[c].start /\ node.parent = t.nodes[c].parent
  BY <1>2, <1>3 DEF Node
<1>5. u = [nodes |-> nodes, open |-> open, status |-> status]
  BY NodeClosed
<1>6. /\ u.nodes \in Seq(Node) /\ DOMAIN u.nodes = 1..m /\ u.nodes # << >>
      /\ u.nodes[c] = node /\ \A k \in 1..m : k # c => u.nodes[k] = t.nodes[k]
  <2>1. /\ nodes \in Seq(Node) /\ Len(nodes) = m
        /\ \A k \in 1..m : nodes[k] = IF k = c THEN node ELSE t.nodes[k]
    <3> HIDE DEF node, c
    <3> QED
      BY <1>1, <1>2, <1>4, ExceptSeq
  <2> HIDE DEF nodes, node, c, open, status, u
  <2> QED
    BY <1>2, <1>5, <2>1
<1>7. /\ u.open \in Seq(Nat) /\ DOMAIN u.open = 1..d - 1
      /\ \A j \in 1..d - 1 : u.open[j] = t.open[j]
  BY <1>1, <1>5, FrontProperties
<1>8. u \in Tree /\ u.status = IF d = 1 THEN "aborts" ELSE "done"
  BY <1>5, <1>6, <1>7 DEF Tree
<1> HIDE DEF u, d, c, m, node, nodes, open, status
<1>9. IsTree(u)
  <2>1. \A j \in 1..d - 1 : u.open[j] \in 1..m
    <3>1. \A j \in 1..d - 1 : j \in DOMAIN t.open
      BY <1>2
    <3> QED
      BY <1>1, <1>2, <1>7, <3>1
  <2>2. d # 1 => u.open # << >>
    BY <1>2, <1>7
  <2> QED
    BY <1>6, <1>7, <1>8, <2>1, <2>2 DEF IsTree
<1>10. ASSUME NEW p \in Nat, NEW n \in Nat,
              NestsUpTo(t, p, n), p <= marker[3], marker[3] <= n
       PROVE  NestsUpTo(u, marker[3], n)
  <2> SUFFICES ASSUME d # 1
               PROVE  /\ u.nodes[1].start = 0 /\ u.nodes[1].end = n
                      /\ OpenNodesDescend(u)
                      /\ \A k \in DOMAIN u.nodes \ {1} : NodeNests(u, k, marker[3])
    BY <1>8 DEF NestsUpTo
  <2>1. /\ t.nodes[1].start = 0 /\ t.nodes[1].end = n
        /\ OpenNodesDescend(t)
        /\ \A k \in 2..m : NodeNests(t, k, p)
    BY <1>2, <1>10 DEF NestsUpTo
  <2>2. /\ 1 \in 1..d - 1 /\ d - 1 \in 1..d - 1 /\ t.open[1] = 1
        /\ \A j \in 1..d - 1 : t.open[j] < c /\ t.open[j] \in 1..m
        /\ t.nodes[c].parent = t.open[d - 1]
    <3>1. 1 \in 1..d - 1 /\ d - 1 \in 1..d - 1 /\ d \in DOMAIN t.open \ {1}
      BY <1>2
    <3>2. \A j \in 1..d - 1 : j \in DOMAIN t.open /\ j < d
      BY <1>2
    <3> QED
      BY <1>1, <1>2, <2>1, <3>1, <3>2 DEF OpenNodesDescend
  <2>3. c \in 2..m
    BY <1>2, <2>2
  <2>4. OpenNodes(u) = {t.open[j] : j \in 1..d - 1} /\ OpenNodes(t) = {t.open[j] : j \in 1..d}
    BY <1>2, <1>7 DEF OpenNodes
  <2>5. OpenNodes(t) = OpenNodes(u) \cup {c} /\ c \notin OpenNodes(u)
    <3>1. \A j : j \in 1..d <=> j \in 1..d - 1 \/ j = d
      BY <1>2
    <3>2. \A j \in 1..d - 1 : t.open[j] # c
      BY <1>2, <2>2
    <3> QED
      BY <1>2, <2>4, <3>1, <3>2
  <2>6. OpenNodesDescend(u)
    <3>1. u.open[1] = 1
      BY <1>7, <2>2
    <3>2. \A j, l \in 1..d - 1 : j < l => u.open[j] < u.open[l]
      <4>1. \A j \in 1..d - 1 : j \in DOMAIN t.open
        BY <1>2
      <4> QED
        BY <1>7, <2>1, <4>1 DEF OpenNodesDescend
    <3>3. ASSUME NEW j \in 2..d - 1
          PROVE  u.nodes[u.open[j]].parent = u.open[j - 1]
      <4>1. j \in 1..d - 1 /\ j - 1 \in 1..d - 1 /\ j \in DOMAIN t.open \ {1}
        BY <1>2
      <4>2. t.open[j] # c /\ t.open[j] \in 1..m
        BY <1>2, <2>2, <4>1
      <4> QED
        BY <1>6, <1>7, <2>1, <4>1, <4>2 DEF OpenNodesDescend
    <3>4. \A j \in DOMAIN u.open \ {1} : j \in 2..d - 1
      BY <1>2, <1>7
    <3> QED
      BY <1>7, <3>1, <3>2, <3>3, <3>4 DEF OpenNodesDescend
  <2>7. ASSUME NEW k \in 2..m
        PROVE  NodeNests(u, k, marker[3])
    <3> DEFINE up == t.nodes[k].parent
    <3>1. /\ NodeNests(t, k, p) /\ k \in 1..m /\ up \in 1..k - 1 /\ up \in 1..m
      BY <1>2, <2>1 DEF NodeNests
    <3>2. /\ t.nodes[k].start \in Nat /\ t.nodes[k].end \in Nat
          /\ t.nodes[up].start \in Nat /\ t.nodes[up].end \in Nat
      <4>1. t.nodes[k] \in Node /\ t.nodes[up] \in Node
        BY <1>1, <1>2, <3>1
      <4> QED
        BY <4>1 DEF Node
    <3>3. /\ u.nodes[k].parent = up /\ u.nodes[k].start = t.nodes[k].start
          /\ u.nodes[up].start = t.nodes[up].start
      BY <1>4, <1>6, <3>1
    <3> HIDE DEF up
    <3>4. CASE k = c
      <4>1. u.nodes[k].end = marker[3] /\ k \in OpenNodes(t) /\ k \notin OpenNodes(u)
        BY <1>4, <1>6, <2>5, <3>4
      <4>2. up = t.open[d - 1] /\ up \in OpenNodes(u)
        BY <2>2, <2>4, <3>4 DEF up
      <4>3. t.nodes[k].start <= p
        BY <3>1, <4>1 DEF NodeNests
      <4>4. up = 1 => u.nodes[up].end = n
        BY <1>6, <2>1, <2>3, <3>1
      <4> QED
        BY <1>3, <1>10, <3>1, <3>2, <3>3, <4>1, <4>2, <4>3, <4>4 DEF NodeNests, up
    <3>5. CASE k # c
      <4>1. u.nodes[k] = t.nodes[k] /\ (k \in OpenNodes(u) <=> k \in OpenNodes(t))
        BY <1>6, <2>5, <3>1, <3>5
      <4>2. CASE up = c
        <5>1. up \in OpenNodes(t) \ {1} /\ up \notin OpenNodes(u) /\ u.nodes[up].end = marker[3]
          BY <1>2, <1>4, <1>6, <2>3, <2>5, <4>2
        <5> QED
          BY <1>3, <1>10, <3>1, <3>2, <3>3, <4>1, <5>1 DEF NodeNests, up
      <4>3. CASE up # c
        <5>1. u.nodes[up] = t.nodes[up] /\ (up \in OpenNodes(u) <=> up \in OpenNodes(t))
          BY <1>6, <2>5, <3>1, <4>3
        <5> QED
          BY <1>3, <1>10, <3>1, <3>2, <3>3, <4>1, <5>1 DEF NodeNests, up
      <4> QED
        BY <4>2, <4>3
    <3> QED
      BY <3>4, <3>5
  <2>8. u.nodes[1] = t.nodes[1]
    BY <1>2, <1>6, <2>3
  <2>9. \A k \in DOMAIN u.nodes \ {1} : k \in 2..m
    BY <1>2, <1>6
  <2> QED
    BY <2>1, <2>6, <2>7, <2>8, <2>9
<1> QED
  BY <1>9, <1>10 DEF u

-------------------------------------------------------------------------------
(* All markers *)

\* Either keeps the tree nesting as far as it is made.
LEMMA ConstructMarkerNests ==
  ASSUME NEW t, IsTree(t), NEW marker \in PlacedMarker
  PROVE  /\ IsTree(ConstructMarker(t, marker))
         /\ \A p, n \in Nat :
              NestsUpTo(t, p, n) /\ p <= marker[3] /\ marker[3] <= n =>
                NestsUpTo(ConstructMarker(t, marker), marker[3], n)
<1>1. CASE t.status # "done"
  BY <1>1 DEF ConstructMarker, NestsUpTo
<1>2. CASE t.status = "done" /\ marker[1] = "START"
  BY <1>2, OpenNodeNests DEF ConstructMarker
<1>3. CASE t.status = "done" /\ marker[1] # "START"
  BY <1>3, CloseNodeNests DEF ConstructMarker
<1> QED
  BY <1>1, <1>2, <1>3

\* What TreeWalk begins with, and that it is defined for every number of markers.
Begin(output, n) ==
  [nodes |-> [output EXCEPT ![1].start = 0, ![1].end = n], open |-> <<1>>, status |-> "done"]

\* Before the first marker only the root is open.
LEMMA BeginIsTree ==
  ASSUME NEW n \in Nat, NEW output \in Seq(Node), output # << >>
  PROVE  /\ IsTree(Begin(output, n))
         /\ FitsIn(output, n) => NestsUpTo(Begin(output, n), 0, n)
<1> DEFINE root == [output[1] EXCEPT !.start = 0, !.end = n]
           t == Begin(output, n)
<1>1. 1 \in DOMAIN output /\ DOMAIN output = 1..Len(output) /\ Len(output) \in Nat
  OBVIOUS
<1>2. root \in Node /\ root.start = 0 /\ root.end = n /\ root.parent = output[1].parent
  <2>1. output[1] \in Node
    BY <1>1
  <2> QED
    BY <2>1 DEF Node
<1>3. /\ t.nodes \in Seq(Node) /\ Len(t.nodes) = Len(output)
      /\ \A k \in 1..Len(output) : t.nodes[k] = IF k = 1 THEN root ELSE output[k]
  <2>1. t.nodes = [output EXCEPT ![1] = root]
    BY <1>1 DEF Begin
  <2> HIDE DEF root, t
  <2> QED
    BY <1>1, <1>2, <2>1, ExceptSeq
<1>4. /\ t = [nodes |-> t.nodes, open |-> <<1>>, status |-> "done"]
      /\ t.open = <<1>> /\ t.status = "done"
  BY DEF Begin
<1> HIDE DEF root, t
<1>5. <<1>> \in Seq(Nat) /\ DOMAIN <<1>> = {1} /\ <<1>>[1] = 1 /\ <<1>> # << >>
  OBVIOUS
<1>6. DOMAIN t.nodes = 1..Len(output) /\ t.nodes # << >>
  BY <1>1, <1>3
<1>7. IsTree(t)
  BY <1>1, <1>3, <1>4, <1>5, <1>6 DEF IsTree, Tree
<1>8. ASSUME FitsIn(output, n)
      PROVE  NestsUpTo(t, 0, n)
  <2>1. OpenNodesDescend(t)
    BY <1>4, <1>5 DEF OpenNodesDescend
  <2>2. OpenNodes(t) = {1}
    BY <1>4, <1>5 DEF OpenNodes
  <2>3. ASSUME NEW k \in DOMAIN t.nodes \ {1}
        PROVE  NodeNests(t, k, 0)
    <3>1. /\ k \in 1..Len(output) /\ k # 1
          /\ output[k].parent \in 1..k - 1
          /\ Within(output[k], output[output[k].parent]) /\ output[1].end <= n
      BY <1>1, <1>6, <1>8, <2>3 DEF FitsIn
    <3>2. t.nodes[k] = output[k] /\ output[k].parent \in 1..Len(output)
      BY <1>1, <1>3, <3>1
    <3>3. output[k] \in Node /\ output[output[k].parent] \in Node /\ output[1] \in Node
      BY <1>1, <3>1, <3>2
    <3>4. CASE output[k].parent = 1
      <4>1. t.nodes[1].start = 0 /\ t.nodes[1].end = n
        BY <1>1, <1>2, <1>3
      <4>2. output[k].start \in Nat /\ output[k].end \in Nat /\ output[1].end \in Nat
        BY <3>3 DEF Node
      <4>3. output[k].start <= output[k].end /\ output[k].end <= output[1].end
        BY <3>1, <3>4 DEF Within
      <4> QED
        BY <2>2, <3>1, <3>2, <3>4, <4>1, <4>2, <4>3 DEF NodeNests
    <3>5. CASE output[k].parent # 1
      BY <1>3, <2>2, <3>1, <3>2, <3>3, <3>5 DEF NodeNests, Within, Node
    <3> QED
      BY <3>4, <3>5
  <2>4. t.nodes[1].start = 0 /\ t.nodes[1].end = n
    BY <1>1, <1>2, <1>3
  <2> QED
    BY <2>1, <2>3, <2>4 DEF NestsUpTo
<1> QED
  BY <1>7, <1>8 DEF t

\* The loops of ConstructTree are the function TreeWalk, marker by marker.
LEMMA TreeWalkDefined ==
  ASSUME NEW n \in Nat, NEW pss \in Streams(n), NEW output \in Seq(Node), output # << >>
  PROVE  /\ TreeWalk(pss, output)[0] = Begin(output, n)
         /\ \A k \in 1..Len(Markers(pss)) :
              TreeWalk(pss, output)[k] =
                ConstructMarker(TreeWalk(pss, output)[k - 1], Markers(pss)[k])
<1> DEFINE markers == Markers(pss)
           m == Len(markers)
           begin == Begin(output, n)
           X == [k \in 0..m |-> {t \in Tree : IsTree(t)}]
           step == [k \in 1..m |-> [t \in X[k - 1] |-> ConstructMarker(t, markers[k])]]
           Body(t) == [k \in 0..m |-> IF k = 0 THEN begin ELSE ConstructMarker(t[k - 1], markers[k])]
<1>1. markers \in Seq(PlacedMarker) /\ m \in Nat /\ Len(pss) - 1 = n
  BY MarkersAreOrdered DEF OrderedMarkers
<1>2. begin \in X[0]
  <2>1. IsTree(begin)
    BY BeginIsTree
  <2>2. begin \in Tree
    BY <2>1 DEF IsTree
  <2> HIDE DEF begin, m
  <2>3. 0 \in 0..m
    BY <1>1
  <2> QED
    BY <2>1, <2>2, <2>3
<1>3. ASSUME NEW k \in 1..m, NEW t \in X[k - 1]
      PROVE  step[k][t] = ConstructMarker(t, markers[k]) /\ step[k][t] \in X[k]
  <2>1. k \in 0..m /\ k - 1 \in 0..m /\ markers[k] \in PlacedMarker
    BY <1>1
  <2>2. IsTree(ConstructMarker(t, markers[k]))
    BY <2>1, ConstructMarkerNests
  <2> QED
    BY <2>1, <2>2 DEF IsTree
<1>4. PICK f : IsDefinedUp(f, begin, step, m, X)
  <2>1. StepsUp(step, m, X)
    BY <1>3 DEF StepsUp
  <2> HIDE DEF m, X, step, begin
  <2> QED
    BY <1>1, <1>2, <2>1, Recursion
<1>5. f = Body(f)
  <2>1. ASSUME NEW k \in 0..m
        PROVE  f[k] = IF k = 0 THEN begin ELSE ConstructMarker(f[k - 1], markers[k])
    <3>1. CASE k = 0
      BY <1>4, <3>1 DEF IsDefinedUp
    <3>2. CASE k # 0
      <4>1. k \in 1..m /\ k - 1 \in 0..m
        BY <1>1, <3>2
      <4> HIDE DEF m, X, step, begin
      <4>2. f[k] = step[k][f[k - 1]] /\ f[k - 1] \in X[k - 1]
        BY <1>4, <4>1 DEF IsDefinedUp
      <4> QED
        BY <1>3, <3>2, <4>1, <4>2
    <3> QED
      BY <3>1, <3>2
  <2>2. f = [k \in 0..m |-> f[k]]
    BY <1>4 DEF IsDefinedUp
  <2> HIDE DEF m, begin, markers
  <2> QED
    BY <2>1, <2>2
<1>6. TreeWalk(pss, output) = Body(TreeWalk(pss, output))
  <2>1. TreeWalk(pss, output) = CHOOSE t : t = Body(t)
    BY <1>1 DEF TreeWalk, Begin
  <2> HIDE DEF Body
  <2> QED
    BY <1>5, <2>1
<1> DEFINE w == TreeWalk(pss, output)
<1> HIDE DEF w, begin, markers
<1>7. ASSUME NEW k \in 1..m
      PROVE  w[k] = ConstructMarker(w[k - 1], markers[k])
  <2>1. k \in 0..m /\ k # 0
    BY <1>1
  <2> QED
    BY <1>6, <2>1 DEF w
<1>8. w[0] = begin
  BY <1>1, <1>6 DEF w
<1> QED
  BY <1>7, <1>8 DEF w, begin, markers

\* After any number of markers TreeWalk has a tree, whose nodes nest as far as they
\* are closed if those it was given did.
LEMMA TreeWalkNests ==
  ASSUME NEW n \in Nat, NEW pss \in Streams(n), NEW output \in Seq(Node), output # << >>
  PROVE  LET t == TreeWalk(pss, output)[Len(Markers(pss))]
         IN IsTree(t) /\ (FitsIn(output, n) => \E p \in Nat : NestsUpTo(t, p, n))
<1> DEFINE markers == Markers(pss)
           m == Len(markers)
           w == TreeWalk(pss, output)
           pos == [k \in 0..m |-> IF k = 0 THEN 0 ELSE markers[k][3]]
           X == [k \in 0..m |->
                   {t \in Tree : IsTree(t) /\ (FitsIn(output, n) => NestsUpTo(t, pos[k], n))}]
<1>1. /\ markers \in Seq(PlacedMarker) /\ m \in Nat /\ DOMAIN markers = 1..m
      /\ \A j \in 1..m : markers[j] \in PlacedMarker /\ markers[j][3] \in Nat /\ markers[j][3] < n + 1
      /\ \A j, l \in 1..m : j <= l => markers[j][3] <= markers[l][3]
  BY MarkersAreOrdered DEF OrderedMarkers, PlacedMarker
<1>2. /\ w[0] = Begin(output, n)
      /\ \A k \in 1..m : w[k] = ConstructMarker(w[k - 1], markers[k])
  BY TreeWalkDefined
<1> HIDE DEF w, markers, m
<1>3. w[0] \in X[0]
  <2>1. 0 \in 0..m /\ pos[0] = 0
    BY <1>1
  <2> QED
    BY <1>2, <2>1, BeginIsTree DEF IsTree
<1>4. ASSUME NEW k \in 1..m, w[k - 1] \in X[k - 1]
      PROVE  w[k] \in X[k]
  <2>1. /\ k \in 0..m /\ k - 1 \in 0..m
        /\ markers[k] \in PlacedMarker /\ pos[k] = markers[k][3]
    BY <1>1
  <2>2. pos[k - 1] \in Nat /\ pos[k - 1] <= markers[k][3] /\ markers[k][3] <= n
    <3>1. CASE k = 1
      BY <1>1, <3>1
    <3>2. CASE k # 1
      <4>1. k - 1 \in 1..m /\ k - 1 # 0 /\ k - 1 <= k
        BY <1>1, <3>2
      <4>2. pos[k - 1] = markers[k - 1][3]
        BY <2>1, <4>1
      <4> QED
        BY <1>1, <4>1, <4>2
    <3> QED
      BY <3>1, <3>2
  <2> HIDE DEF pos
  <2>3. IsTree(w[k - 1]) /\ (FitsIn(output, n) => NestsUpTo(w[k - 1], pos[k - 1], n))
    BY <1>4, <2>1
  <2>4. IsTree(w[k]) /\ (FitsIn(output, n) => NestsUpTo(w[k], pos[k], n))
    BY <1>2, <2>1, <2>2, <2>3, ConstructMarkerNests
  <2> QED
    BY <2>1, <2>4 DEF IsTree
<1>5. \A k \in 0..m : w[k] \in X[k]
  <2> HIDE DEF X
  <2> QED
    BY <1>1, <1>3, <1>4, FamilyInduction
<1>6. m \in 0..m /\ pos[m] \in Nat
  BY <1>1
<1> HIDE DEF pos
<1>7. IsTree(w[m]) /\ (FitsIn(output, n) => NestsUpTo(w[m], pos[m], n))
  BY <1>5, <1>6
<1> QED
  BY <1>6, <1>7 DEF w, m, markers

\* What ConstructTree returns when it does not abort.
LEMMA ConstructedTrees ==
  ASSUME NEW n \in Nat, NEW pss \in Streams(n), NEW output \in Seq(Node), output # << >>,
         ConstructTree(pss, output).status = "done"
  PROVE  /\ ConstructTree(pss, output).nodes \in Seq(Node)
         /\ ConstructTree(pss, output).nodes # << >>
         /\ FitsIn(output, n) => FitsIn(ConstructTree(pss, output).nodes, n)
<1> DEFINE t == TreeWalk(pss, output)[Len(Markers(pss))]
<1>1. IsTree(t) /\ (FitsIn(output, n) => \E p \in Nat : NestsUpTo(t, p, n))
  BY TreeWalkNests
<1> HIDE DEF t
<1>2. t \in Tree
  BY <1>1 DEF IsTree
<1>3. ConstructTree(pss, output) = t /\ Len(t.open) = 1
  <2>1. ConstructTree(pss, output) = IF Len(t.open) = 1 /\ Len(t.nodes) > 1 THEN t
                                     ELSE [t EXCEPT !.status = "aborts"]
    BY DEF ConstructTree, t
  <2> QED
    BY <1>2, <2>1 DEF Tree
<1>4. t.nodes \in Seq(Node) /\ t.nodes # << >> /\ t.status = "done"
  BY <1>1, <1>3 DEF IsTree, Tree
<1>5. ASSUME NEW p \in Nat, NestsUpTo(t, p, n)
      PROVE  FitsIn(t.nodes, n)
  <2>1. /\ t.nodes[1].end = n /\ t.open[1] = 1
        /\ \A k \in DOMAIN t.nodes \ {1} : NodeNests(t, k, p)
    BY <1>4, <1>5 DEF NestsUpTo, OpenNodesDescend
  <2>2. OpenNodes(t) = {1}
    <3>1. DOMAIN t.open = {1}
      BY <1>2, <1>3 DEF Tree
    <3> QED
      BY <2>1, <3>1 DEF OpenNodes
  <2> QED
    BY <2>1, <2>2 DEF FitsIn, NodeNests, Within
<1> QED
  BY <1>1, <1>3, <1>4, <1>5

-------------------------------------------------------------------------------
(* How many nodes are open *)

Kinds == {"START", "END"}

\* h[j] nodes are open after the first j markers.
IsClimb(h, markers, from, to) ==
  /\ h \in [0..Len(markers) -> Nat]
  /\ h[0] = from /\ h[Len(markers)] = to
  /\ \A j \in 1..Len(markers) :
       h[j] = IF markers[j][1] = "START" THEN h[j - 1] + 1 ELSE h[j - 1] - 1

ClimbsTo(markers, from, to) == \E h : IsClimb(h, markers, from, to)

\* The number that Climbs speaks of changes by one with each marker.
LEMMA HeightSteps ==
  ASSUME NEW q \in ParsingStream
  PROVE  /\ \A j \in 0..Len(q) : Height(q, j) \in Int
         /\ Height(q, 0) = 0
         /\ \A j \in 1..Len(q) :
              Height(q, j) = Height(q, j - 1) + IF q[j][1] = "START" THEN 1 ELSE -1
<1> DEFINE Marked(kind, j) == {i \in 1..j : q[i][1] = kind}
<1>1. Len(q) \in Nat /\ \A j \in 1..Len(q) : q[j][1] \in Kinds
  <2>1. q \in Seq(Marker)
    BY DEF ParsingStream
  <2>2. \A j \in 1..Len(q) : q[j] \in Marker
    BY <2>1
  <2> QED
    BY <2>1, <2>2 DEF Marker, Kinds
<1>2. ASSUME NEW j \in 0..Len(q), NEW kind \in Kinds
      PROVE  IsFiniteSet(Marked(kind, j)) /\ Cardinality(Marked(kind, j)) \in Nat
  <2>1. Marked(kind, j) \subseteq 1..j /\ IsFiniteSet(1..j)
    BY <1>1, FS_Interval
  <2> HIDE DEF Marked
  <2> QED
    BY <2>1, FS_Subset, FS_CardinalityType
<1>3. \A j : Height(q, j) = Cardinality(Marked("START", j)) - Cardinality(Marked("END", j))
  BY DEF Height
<1>4. Height(q, 0) = 0
  <2>1. Marked("START", 0) = {} /\ Marked("END", 0) = {}
    OBVIOUS
  <2> HIDE DEF Marked
  <2> QED
    BY <1>3, <2>1, FS_EmptySet
<1>5. ASSUME NEW j \in 1..Len(q), NEW kind \in Kinds
      PROVE  Cardinality(Marked(kind, j)) =
               Cardinality(Marked(kind, j - 1)) + IF q[j][1] = kind THEN 1 ELSE 0
  <2>1. /\ j - 1 \in 0..Len(q) /\ j \notin Marked(kind, j - 1)
        /\ Marked(kind, j) = IF q[j][1] = kind THEN Marked(kind, j - 1) \cup {j}
                             ELSE Marked(kind, j - 1)
    BY <1>1
  <2>2. IsFiniteSet(Marked(kind, j - 1)) /\ Cardinality(Marked(kind, j - 1)) \in Nat
    BY <1>2, <2>1
  <2> HIDE DEF Marked
  <2>3. CASE q[j][1] = kind
    BY <2>1, <2>2, <2>3, FS_AddElement
  <2>4. CASE q[j][1] # kind
    BY <2>1, <2>2, <2>4
  <2> QED
    BY <2>3, <2>4
<1> HIDE DEF Marked
<1>6. ASSUME NEW j \in 1..Len(q)
      PROVE  Height(q, j) = Height(q, j - 1) + IF q[j][1] = "START" THEN 1 ELSE -1
  <2>1. j \in 0..Len(q) /\ j - 1 \in 0..Len(q) /\ q[j][1] \in Kinds
    BY <1>1
  <2>2. \A kind \in Kinds : Cardinality(Marked(kind, j - 1)) \in Nat
    BY <1>2, <2>1
  <2> QED
    BY <1>3, <1>5, <2>1, <2>2 DEF Kinds
<1>7. \A j \in 0..Len(q) : Height(q, j) \in Int
  BY <1>2, <1>3 DEF Kinds
<1> QED
  BY <1>4, <1>6, <1>7

\* A parsing stream that climbs gives a number of open nodes after each marker.
LEMMA ClimbsHasHeights ==
  ASSUME NEW q \in ParsingStream, NEW from \in Nat, NEW to, Climbs(q, from, to)
  PROVE  ClimbsTo(q, from, to)
<1> DEFINE h == [j \in 0..Len(q) |-> from + Height(q, j)]
<1>1. Len(q) \in Nat
  BY DEF ParsingStream
<1>2. ASSUME NEW j \in 0..Len(q)
      PROVE  h[j] \in Nat
  <2>1. Height(q, j) \in Int /\ (j = 0 => Height(q, j) = 0)
    BY HeightSteps
  <2>2. j # 0 => from + Height(q, j) >= 0
    <3>1. j # 0 => j \in 1..Len(q)
      BY <1>1
    <3> QED
      BY <3>1 DEF Climbs
  <2> QED
    BY <2>1, <2>2
<1>3. h[0] = from /\ h[Len(q)] = to
  BY <1>1, HeightSteps DEF Climbs
<1>4. ASSUME NEW j \in 1..Len(q)
      PROVE  h[j] = IF q[j][1] = "START" THEN h[j - 1] + 1 ELSE h[j - 1] - 1
  <2>1. j \in 0..Len(q) /\ j - 1 \in 0..Len(q)
    BY <1>1
  <2>2. Height(q, j - 1) \in Int /\ h[j] = from + Height(q, j) /\ h[j - 1] = from + Height(q, j - 1)
    BY <2>1, HeightSteps
  <2>3. Height(q, j) = Height(q, j - 1) + IF q[j][1] = "START" THEN 1 ELSE -1
    BY HeightSteps
  <2> HIDE DEF h
  <2> QED
    BY <2>2, <2>3
<1>5. h \in [0..Len(q) -> Nat]
  BY <1>2
<1> HIDE DEF h
<1> QED
  BY <1>3, <1>4, <1>5 DEF ClimbsTo, IsClimb

\* So many nodes more may be open all the way.
LEMMA ClimbsHigher ==
  ASSUME NEW q, Len(q) \in Nat, NEW from, NEW to, ClimbsTo(q, from, to), NEW more \in Nat
  PROVE  ClimbsTo(q, more + from, more + to)
<1>1. PICK h : IsClimb(h, q, from, to)
  BY DEF ClimbsTo
<1> DEFINE g == [j \in 0..Len(q) |-> more + h[j]]
<1>2. /\ h \in [0..Len(q) -> Nat] /\ h[0] = from /\ h[Len(q)] = to
      /\ \A j \in 1..Len(q) : h[j] = IF q[j][1] = "START" THEN h[j - 1] + 1 ELSE h[j - 1] - 1
  BY <1>1 DEF IsClimb
<1>3. g \in [0..Len(q) -> Nat] /\ g[0] = more + from /\ g[Len(q)] = more + to
  BY <1>2
<1>4. ASSUME NEW j \in 1..Len(q)
      PROVE  g[j] = IF q[j][1] = "START" THEN g[j - 1] + 1 ELSE g[j - 1] - 1
  <2>1. j \in 0..Len(q) /\ j - 1 \in 0..Len(q)
    OBVIOUS
  <2>2. g[j] = more + h[j] /\ g[j - 1] = more + h[j - 1] /\ h[j] \in Nat /\ h[j - 1] \in Nat
    BY <1>2, <2>1
  <2> HIDE DEF g
  <2> QED
    BY <1>2, <2>2
<1> HIDE DEF g
<1>5. IsClimb(g, q, more + from, more + to)
  BY <1>3, <1>4 DEF IsClimb
<1> QED
  BY <1>5 DEF ClimbsTo

\* Markers that are given their position open and close as many nodes.
LEMMA PlacedClimbs ==
  ASSUME NEW q \in ParsingStream, NEW p, NEW from, NEW to, ClimbsTo(q, from, to)
  PROVE  ClimbsTo(Placed(q, p), from, to)
<1> DEFINE r == Placed(q, p)
<1>1. Len(q) \in Nat
  BY DEF ParsingStream
<1>2. Len(r) = Len(q) /\ \A j \in 1..Len(q) : r[j][1] = q[j][1]
  BY <1>1 DEF Placed
<1> HIDE DEF r
<1>3. PICK h : IsClimb(h, q, from, to)
  BY DEF ClimbsTo
<1>4. IsClimb(h, r, from, to)
  BY <1>2, <1>3 DEF IsClimb
<1> QED
  BY <1>4 DEF ClimbsTo, r

\* One after the other.
LEMMA ClimbsJoin ==
  ASSUME NEW S, NEW q \in Seq(S), NEW r \in Seq(S), NEW from, NEW by, NEW to,
         ClimbsTo(q, from, by), ClimbsTo(r, by, to)
  PROVE  ClimbsTo(q \o r, from, to)
<1> DEFINE a == Len(q)
           b == Len(r)
           both == q \o r
<1>1. PICK f : IsClimb(f, q, from, by)
  BY DEF ClimbsTo
<1>2. PICK g : IsClimb(g, r, by, to)
  BY DEF ClimbsTo
<1>3. /\ a \in Nat /\ b \in Nat /\ Len(both) = a + b
      /\ \A j \in 1..a + b : both[j] = IF j <= a THEN q[j] ELSE r[j - a]
  OBVIOUS
<1> HIDE DEF both, a, b
<1> DEFINE h == [j \in 0..a + b |-> IF j <= a THEN f[j] ELSE g[j - a]]
<1>4. /\ f \in [0..a -> Nat] /\ f[0] = from /\ f[a] = by
      /\ \A j \in 1..a : f[j] = IF q[j][1] = "START" THEN f[j - 1] + 1 ELSE f[j - 1] - 1
  BY <1>1 DEF IsClimb, a
<1>5. /\ g \in [0..b -> Nat] /\ g[0] = by /\ g[b] = to
      /\ \A j \in 1..b : g[j] = IF r[j][1] = "START" THEN g[j - 1] + 1 ELSE g[j - 1] - 1
  BY <1>2 DEF IsClimb, b
<1>6. /\ \A j \in 0..a : h[j] = f[j]
      /\ \A j \in 0..b : h[a + j] = g[j]
  <2>1. \A j \in 0..a : h[j] = f[j]
    BY <1>3
  <2>2. ASSUME NEW j \in 0..b
        PROVE  h[a + j] = g[j]
    <3>1. a + j \in 0..a + b /\ a + j - a = j /\ (a + j <= a => j = 0)
      BY <1>3
    <3> QED
      BY <1>3, <1>4, <1>5, <3>1
  <2> QED
    BY <2>1, <2>2
<1>7. h \in [0..a + b -> Nat]
  <2>1. ASSUME NEW j \in 0..a + b
        PROVE  h[j] \in Nat
    <3>1. CASE j <= a
      BY <1>3, <1>4, <3>1
    <3>2. CASE ~(j <= a)
      <4>1. j - a \in 0..b
        BY <1>3, <3>2
      <4> QED
        BY <1>5, <3>2, <4>1
    <3> QED
      BY <3>1, <3>2
  <2> QED
    BY <2>1
<1>8. h[0] = from /\ h[a + b] = to
  <2>1. 0 \in 0..a /\ b \in 0..b
    BY <1>3
  <2> HIDE DEF h
  <2> QED
    BY <1>4, <1>5, <1>6, <2>1
<1> HIDE DEF h
<1>9. ASSUME NEW j \in 1..a + b
      PROVE  h[j] = IF both[j][1] = "START" THEN h[j - 1] + 1 ELSE h[j - 1] - 1
  <2>1. CASE j <= a
    <3>1. j \in 1..a /\ j \in 0..a /\ j - 1 \in 0..a /\ both[j] = q[j]
      BY <1>3, <2>1
    <3> QED
      BY <1>4, <1>6, <3>1
  <2>2. CASE ~(j <= a)
    <3> DEFINE k == j - a
    <3>1. k \in 1..b /\ k \in 0..b /\ k - 1 \in 0..b /\ j = a + k /\ j - 1 = a + (k - 1)
      BY <1>3, <2>2
    <3>2. both[j] = r[k]
      BY <1>3, <2>2
    <3> HIDE DEF k
    <3>3. h[j] = g[k] /\ h[j - 1] = g[k - 1]
      BY <1>6, <3>1
    <3> QED
      BY <1>5, <3>1, <3>2, <3>3
  <2> QED
    BY <2>1, <2>2
<1>10. IsClimb(h, both, from, to)
  BY <1>3, <1>7, <1>8, <1>9 DEF IsClimb
<1> QED
  BY <1>10 DEF ClimbsTo, both

\* No marker, no climb.
LEMMA EmptyClimbs ==
  ASSUME NEW from, NEW to
  PROVE  /\ from \in Nat => ClimbsTo(<< >>, from, from)
         /\ ClimbsTo(<< >>, from, to) => from = to
<1>1. Len(<< >>) = 0 /\ 1..0 = {}
  OBVIOUS
<1>2. ASSUME from \in Nat
      PROVE  IsClimb([j \in 0..0 |-> from], << >>, from, from)
  BY <1>1, <1>2 DEF IsClimb
<1> QED
  BY <1>1, <1>2 DEF ClimbsTo, IsClimb

\* When the parsing streams climb one after the other, from dp[i] to dp[i + 1], so do
\* their markers; and there are none only if the last stream has none.
LEMMA MarkersClimb ==
  ASSUME NEW n \in Nat, NEW pss \in Streams(n), NEW dp \in [1..n + 2 -> Nat],
         \A i \in 1..n + 1 : ClimbsTo(pss[i], dp[i], dp[i + 1])
  PROVE  /\ ClimbsTo(Markers(pss), dp[1], dp[n + 2])
         /\ Markers(pss) = << >> => pss[n + 1] = << >> /\ dp[n + 1] = dp[1]
<1> DEFINE X == [i \in 0..n + 1 |-> {q \in Seq(PlacedMarker) : ClimbsTo(q, dp[1], dp[i + 1])}]
<1>1. PICK at : AreMarkers(at, pss, n) /\ Markers(pss) = at[n + 1]
  BY MarkersDefined
<1>2. /\ at[0] = << >>
      /\ \A i \in 1..n + 1 : at[i] = at[i - 1] \o Placed(pss[i], i - 1)
      /\ \A i \in 0..n + 1 : at[i] \in Seq(PlacedMarker)
  BY <1>1 DEF AreMarkers, OrderedMarkers
<1>3. \A i \in 1..n + 1 : pss[i] \in ParsingStream
  BY DEF Streams
<1>4. ASSUME NEW i \in 1..n + 1
      PROVE  /\ Placed(pss[i], i - 1) \in Seq(PlacedMarker)
             /\ Len(Placed(pss[i], i - 1)) = Len(pss[i])
             /\ ClimbsTo(Placed(pss[i], i - 1), dp[i], dp[i + 1])
  <2>1. /\ Placed(pss[i], i - 1) \in Seq(PlacedMarker)
        /\ Len(Placed(pss[i], i - 1)) = Len(pss[i])
    BY <1>3, PlacedTyped
  <2>2. ClimbsTo(pss[i], dp[i], dp[i + 1])
    OBVIOUS
  <2> QED
    BY <1>3, <2>1, <2>2, PlacedClimbs
<1>5. at[0] \in X[0]
  <2>1. dp[1] \in Nat /\ 0 \in 0..n + 1 /\ 0 + 1 = 1
    OBVIOUS
  <2> QED
    BY <1>2, <2>1, EmptyClimbs
<1>6. ASSUME NEW i \in 1..n + 1, at[i - 1] \in X[i - 1]
      PROVE  at[i] \in X[i]
  <2>1. i \in 0..n + 1 /\ i - 1 \in 0..n + 1 /\ i - 1 + 1 = i
    OBVIOUS
  <2>2. at[i - 1] \in Seq(PlacedMarker) /\ ClimbsTo(at[i - 1], dp[1], dp[i])
    BY <1>6, <2>1
  <2>3. ClimbsTo(at[i - 1] \o Placed(pss[i], i - 1), dp[1], dp[i + 1])
    BY <1>4, <2>2, ClimbsJoin
  <2> QED
    BY <1>2, <2>1, <2>3
<1>7. \A i \in 0..n + 1 : at[i] \in X[i]
  <2>1. n + 1 \in Nat
    OBVIOUS
  <2> HIDE DEF X
  <2> QED
    BY <1>5, <1>6, <2>1, FamilyInduction
<1>8. ClimbsTo(Markers(pss), dp[1], dp[n + 2])
  <2>1. n + 1 \in 0..n + 1 /\ n + 1 + 1 = n + 2
    OBVIOUS
  <2> QED
    BY <1>1, <1>7, <2>1
<1>9. ASSUME Markers(pss) = << >>
      PROVE  pss[n + 1] = << >> /\ dp[n + 1] = dp[1]
  <2> DEFINE last == n + 1
             added == Placed(pss[last], last - 1)
  <2>1. last \in 1..n + 1 /\ last - 1 = n /\ n \in 0..n + 1
    OBVIOUS
  <2>2. added \in Seq(PlacedMarker) /\ Len(added) = Len(pss[last]) /\ pss[last] \in ParsingStream
    BY <1>3, <1>4, <2>1
  <2>3. at[last] = at[n] \o added /\ at[last] = << >> /\ at[n] \in Seq(PlacedMarker)
    BY <1>1, <1>2, <1>9, <2>1
  <2> HIDE DEF added, last
  <2>4. at[n] = << >> /\ added = << >>
    <3>1. ASSUME NEW u \in Seq(PlacedMarker), NEW v \in Seq(PlacedMarker), u \o v = << >>
          PROVE  u = << >> /\ v = << >>
      <4>1. Len(u) + Len(v) = 0 /\ Len(u) \in Nat /\ Len(v) \in Nat
        BY <3>1
      <4> QED
        BY <4>1
    <3> QED
      BY <2>2, <2>3, <3>1
  <2>5. pss[last] = << >>
    BY <2>2, <2>4 DEF ParsingStream
  <2>6. ClimbsTo(at[n], dp[1], dp[last])
    BY <1>7, <2>1 DEF last
  <2> QED
    BY <2>4, <2>5, <2>6, EmptyClimbs DEF last
<1> QED
  BY <1>8, <1>9

\* So far nothing has failed: the nodes open, besides the one passed in, are nodes
\* made now, and those that were there before are as they were.
Completing(t, output, height) ==
  /\ IsTree(t) /\ t.status = "done"
  /\ Len(t.open) = height + 1
  /\ \A j \in 2..Len(t.open) : t.open[j] > Len(output)
  /\ Len(t.nodes) >= Len(output)
  /\ \A k \in 2..Len(output) : t.nodes[k] = output[k]

\* A START marker adds a node and opens it.
LEMMA OpenCompletes ==
  ASSUME NEW t, NEW output \in Seq(Node), NEW height \in Nat, NEW marker \in PlacedMarker,
         Completing(t, output, height)
  PROVE  /\ Completing(OpenNode(t, marker), output, height + 1)
         /\ Len(OpenNode(t, marker).nodes) = Len(t.nodes) + 1
<1> DEFINE new == Len(t.nodes) + 1
           d == Len(t.open)
           l == Len(output)
           node == [label |-> marker[2], start |-> marker[3], end |-> 0, parent |-> t.open[d]]
           u == OpenNode(t, marker)
<1>1. /\ t.nodes \in Seq(Node) /\ t.open \in Seq(Nat) /\ t.open # << >>
      /\ t = [nodes |-> t.nodes, open |-> t.open, status |-> "done"]
      /\ \A j \in DOMAIN t.open : t.open[j] \in DOMAIN t.nodes
  BY DEF Completing, IsTree, Tree
<1>2. /\ d = height + 1 /\ l \in Nat /\ Len(t.nodes) >= l
      /\ \A j \in 2..d : t.open[j] > l
      /\ \A k \in 2..l : t.nodes[k] = output[k]
  BY DEF Completing
<1>3. /\ d \in Nat /\ d \in DOMAIN t.open /\ Len(t.nodes) \in Nat
      /\ new \in Nat /\ new > l /\ t.open[d] \in Nat
  BY <1>1, <1>2
<1>4. node \in Node
  BY <1>3 DEF Node, PlacedMarker
<1>5. u = [nodes |-> Append(t.nodes, node), open |-> Append(t.open, new), status |-> "done"]
  BY NodeOpened DEF Completing
<1>6. /\ Len(u.nodes) = new /\ \A k \in 1..Len(t.nodes) : u.nodes[k] = t.nodes[k]
  BY <1>1, <1>4, <1>5
<1>7. /\ Len(u.open) = d + 1 /\ u.open[d + 1] = new /\ \A j \in 1..d : u.open[j] = t.open[j]
  BY <1>1, <1>3, <1>5
<1>8. IsTree(u) /\ u.status = "done"
  <2>1. IsTree(u)
    BY OpenNodeNests DEF Completing
  <2> QED
    BY <1>5, <2>1
<1> HIDE DEF u, node
<1>9. ASSUME NEW j \in 2..Len(u.open)
      PROVE  u.open[j] > l
  <2>1. j = d + 1 \/ j \in 2..d
    BY <1>3, <1>7
  <2>2. j \in 2..d => j \in 1..d
    BY <1>3
  <2> QED
    BY <1>2, <1>3, <1>7, <2>1, <2>2
<1>10. \A k \in 2..l : u.nodes[k] = output[k]
  <2>1. \A k \in 2..l : k \in 1..Len(t.nodes)
    BY <1>2, <1>3
  <2> QED
    BY <1>2, <1>6, <2>1
<1>11. Len(u.open) = height + 1 + 1 /\ Len(u.nodes) >= l
  BY <1>2, <1>3, <1>6, <1>7
<1>12. Completing(u, output, height + 1)
  BY <1>8, <1>9, <1>10, <1>11 DEF Completing
<1> QED
  BY <1>6, <1>12 DEF u

\* An END marker closes one that was made now.
LEMMA CloseCompletes ==
  ASSUME NEW t, NEW output \in Seq(Node), NEW height \in Nat \ {0}, NEW marker \in PlacedMarker,
         Completing(t, output, height)
  PROVE  /\ Completing(CloseNode(t, marker), output, height - 1)
         /\ Len(CloseNode(t, marker).nodes) = Len(t.nodes)
<1> DEFINE d == Len(t.open)
           c == t.open[d]
           l == Len(output)
           nodes == [t.nodes EXCEPT ![c] = [t.nodes[c] EXCEPT !.end = marker[3]]]
           open == SubSeq(t.open, 1, d - 1)
           u == CloseNode(t, marker)
<1>1. /\ t.nodes \in Seq(Node) /\ t.open \in Seq(Nat) /\ t.open # << >>
      /\ t = [nodes |-> t.nodes, open |-> t.open, status |-> "done"]
  BY DEF Completing, IsTree, Tree
<1>2. /\ d = height + 1 /\ l \in Nat /\ Len(t.nodes) >= l
      /\ \A j \in 2..d : t.open[j] > l
      /\ \A k \in 2..l : t.nodes[k] = output[k]
  BY DEF Completing
<1>3. d \in Nat /\ d # 1 /\ d \in 2..d /\ c > l
  BY <1>1, <1>2
<1>4. u = [nodes |-> nodes, open |-> open, status |-> "done"]
  BY <1>3, NodeClosed DEF Completing
<1>5. /\ Len(open) = d - 1 /\ \A j \in 1..d - 1 : open[j] = t.open[j]
  BY <1>1, FrontProperties
<1>6. /\ Len(nodes) = Len(t.nodes) /\ \A k \in DOMAIN t.nodes : k # c => nodes[k] = t.nodes[k]
  BY <1>1
<1>7. IsTree(u) /\ u.status = "done"
  <2>1. IsTree(u)
    BY CloseNodeNests DEF Completing
  <2> QED
    BY <1>4, <2>1
<1>8. u.nodes = nodes /\ u.open = open
  BY <1>4
<1> HIDE DEF u, nodes, open, c
<1>9. \A j \in 2..d - 1 : open[j] > l
  <2>1. \A j \in 2..d - 1 : j \in 1..d - 1 /\ j \in 2..d
    BY <1>3
  <2> QED
    BY <1>2, <1>5, <2>1
<1>10. \A k \in 2..l : nodes[k] = output[k]
  <2>1. \A k \in 2..l : k \in DOMAIN t.nodes /\ k # c
    BY <1>1, <1>2, <1>3
  <2> QED
    BY <1>2, <1>6, <2>1
<1>11. Len(open) = height - 1 + 1
  BY <1>2, <1>5
<1>12. Completing(u, output, height - 1)
  BY <1>2, <1>5, <1>6, <1>7, <1>8, <1>9, <1>10, <1>11 DEF Completing
<1> QED
  BY <1>6, <1>8, <1>12 DEF u

\* When the markers climb from no open node to none and there are some, ConstructTree
\* ends as it should.
LEMMA ClimbsComplete ==
  ASSUME NEW n \in Nat, NEW pss \in Streams(n), NEW output \in Seq(Node), output # << >>,
         ClimbsTo(Markers(pss), 0, 0), Markers(pss) # << >>
  PROVE  LET made == ConstructTree(pss, output)
         IN /\ made.status = "done" /\ Len(made.nodes) > Len(output)
            /\ \A k \in 2..Len(output) : made.nodes[k] = output[k]
<1> DEFINE markers == Markers(pss)
           m == Len(markers)
           w == TreeWalk(pss, output)
           l == Len(output)
<1>1. /\ markers \in Seq(PlacedMarker) /\ m \in Nat /\ m # 0
      /\ \A j \in 1..m : markers[j] \in PlacedMarker /\ markers[j][1] \in Kinds
  <2>1. markers \in Seq(PlacedMarker)
    BY MarkersAreOrdered DEF OrderedMarkers
  <2>2. \A j \in 1..m : markers[j] \in PlacedMarker
    BY <2>1
  <2> HIDE DEF markers
  <2>3. \A j \in 1..m : markers[j][1] \in Kinds
    BY <2>2 DEF PlacedMarker, Kinds
  <2> QED
    BY <2>1, <2>2, <2>3 DEF markers
<1>2. /\ w[0] = Begin(output, n)
      /\ \A k \in 1..m : w[k] = ConstructMarker(w[k - 1], markers[k])
  BY TreeWalkDefined
<1>3. PICK h : IsClimb(h, markers, 0, 0)
  BY DEF ClimbsTo
<1>4. /\ h \in [0..m -> Nat] /\ h[0] = 0 /\ h[m] = 0
      /\ \A k \in 1..m : h[k] = IF markers[k][1] = "START" THEN h[k - 1] + 1 ELSE h[k - 1] - 1
  BY <1>3 DEF IsClimb
<1> DEFINE X == [k \in 0..m |-> {t \in Tree : /\ Completing(t, output, h[k])
                                              /\ k # 0 => Len(t.nodes) > l}]
<1>5. w[0] \in X[0]
  <2> DEFINE begin == Begin(output, n)
  <2>1. IsTree(begin)
    BY BeginIsTree
  <2>2. /\ begin.open = <<1>> /\ begin.status = "done" /\ Len(begin.nodes) = l
        /\ \A k \in 2..l : begin.nodes[k] = output[k]
    BY DEF Begin
  <2> HIDE DEF begin
  <2>3. Len(begin.open) = 0 + 1 /\ 2..Len(begin.open) = {} /\ l \in Nat
    BY <2>2
  <2>4. Completing(begin, output, 0)
    BY <2>1, <2>2, <2>3 DEF Completing
  <2>5. begin \in Tree
    BY <2>1 DEF IsTree
  <2>6. 0 \in 0..m
    BY <1>1
  <2> HIDE DEF w, m, l
  <2> QED
    BY <1>2, <1>4, <2>4, <2>5, <2>6 DEF begin
<1> HIDE DEF w, markers, m, l
<1>6. ASSUME NEW k \in 1..m, w[k - 1] \in X[k - 1]
      PROVE  w[k] \in X[k]
  <2>1. /\ k \in 0..m /\ k - 1 \in 0..m /\ k # 0 /\ markers[k] \in PlacedMarker
        /\ markers[k][1] \in Kinds /\ h[k - 1] \in Nat /\ h[k] \in Nat
    BY <1>1, <1>4
  <2>2. Completing(w[k - 1], output, h[k - 1]) /\ (k - 1 # 0 => Len(w[k - 1].nodes) > l)
    BY <1>6, <2>1
  <2>3. w[k] = IF markers[k][1] = "START" THEN OpenNode(w[k - 1], markers[k])
               ELSE CloseNode(w[k - 1], markers[k])
    <3>1. w[k] = ConstructMarker(w[k - 1], markers[k])
      BY <1>2
    <3>2. w[k - 1].status = "done"
      BY <2>2 DEF Completing
    <3> QED
      BY <3>1, <3>2 DEF ConstructMarker
  <2> HIDE DEF X
  <2>4. Completing(w[k], output, h[k]) /\ Len(w[k].nodes) > l
    <3>1. CASE markers[k][1] = "START"
      <4>1. w[k] = OpenNode(w[k - 1], markers[k]) /\ h[k] = h[k - 1] + 1
        BY <1>4, <2>3, <3>1
      <4>2. Completing(w[k], output, h[k]) /\ Len(w[k].nodes) = Len(w[k - 1].nodes) + 1
        <5> DEFINE t == w[k - 1]
                   height == h[k - 1]
        <5>1. /\ height \in Nat /\ markers[k] \in PlacedMarker /\ output \in Seq(Node)
              /\ Completing(t, output, height)
          BY <2>1, <2>2
        <5> HIDE DEF t, height
        <5>2. /\ Completing(OpenNode(t, markers[k]), output, height + 1)
              /\ Len(OpenNode(t, markers[k]).nodes) = Len(t.nodes) + 1
          BY <5>1, OpenCompletes
        <5> QED
          BY <4>1, <5>2 DEF t, height
      <4>3. Len(w[k - 1].nodes) >= l /\ Len(w[k - 1].nodes) \in Nat /\ l \in Nat
        BY <2>2 DEF Completing, IsTree, Tree, l
      <4> QED
        BY <4>2, <4>3
    <3>2. CASE markers[k][1] # "START"
      <4>1. w[k] = CloseNode(w[k - 1], markers[k]) /\ h[k] = h[k - 1] - 1
        BY <1>4, <2>3, <3>2
      <4>2. h[k - 1] \in Nat \ {0}
        BY <2>1, <4>1
      <4>3. Completing(w[k], output, h[k]) /\ Len(w[k].nodes) = Len(w[k - 1].nodes)
        <5> DEFINE t == w[k - 1]
                   height == h[k - 1]
        <5>1. /\ height \in Nat \ {0} /\ markers[k] \in PlacedMarker /\ output \in Seq(Node)
              /\ Completing(t, output, height)
          BY <2>1, <2>2, <4>2
        <5> HIDE DEF t, height
        <5>2. /\ Completing(CloseNode(t, markers[k]), output, height - 1)
              /\ Len(CloseNode(t, markers[k]).nodes) = Len(t.nodes)
          BY <5>1, CloseCompletes
        <5> QED
          BY <4>1, <5>2 DEF t, height
      <4>4. k - 1 # 0
        BY <1>4, <4>2
      <4> QED
        BY <2>2, <4>3, <4>4
    <3> QED
      BY <3>1, <3>2
  <2>5. w[k] \in Tree
    BY <2>4 DEF Completing, IsTree
  <2> QED
    BY <2>1, <2>4, <2>5 DEF X
<1>7. \A k \in 0..m : w[k] \in X[k]
  <2> HIDE DEF X
  <2> QED
    BY <1>1, <1>5, <1>6, FamilyInduction
<1>8. Completing(w[m], output, 0) /\ Len(w[m].nodes) > l
  <2>1. m \in 0..m
    BY <1>1
  <2> QED
    BY <1>1, <1>4, <1>7, <2>1
<1>9. ConstructTree(pss, output) = w[m]
  <2> DEFINE end == w[m]
  <2>1. ConstructTree(pss, output) = IF Len(end.open) = 1 /\ Len(end.nodes) > 1 THEN end
                                     ELSE [end EXCEPT !.status = "aborts"]
    BY DEF ConstructTree, w, m, markers
  <2>2. Len(end.open) = 1 /\ Len(end.nodes) > 1
    <3>1. Len(end.open) = 1 /\ end.nodes \in Seq(Node) /\ Len(end.nodes) > l
      BY <1>8 DEF Completing, IsTree, Tree
    <3>2. l \in Nat /\ l >= 1
      BY DEF l
    <3> HIDE DEF end
    <3> QED
      BY <3>1, <3>2
  <2> QED
    BY <2>1, <2>2
<1> QED
  BY <1>8, <1>9 DEF Completing, l

-------------------------------------------------------------------------------
(* The walk back, and the nodes that are open at each moment *)

\* The streams of m nest, for some number of nodes open in each state.
NestsBy(m, D) == StreamsNest(m, Region[m], D, Alphabets)
HasDepths(m) == \E D : NestsBy(m, D)

\* What of StreamsNest a step along an edge uses, and a final state.
LEMMA StreamsClimb ==
  ASSUME NEW m \in Machines, NEW D, NestsBy(m, D), NEW s \in DOMAIN Region[m]
  PROVE  /\ D[s] \in Nat
         /\ D[m.start_state] = 0
         /\ \A e \in DOMAIN m.enclosed_subnfa_map : D[m.enclosed_subnfa_map[e].start_state] = 0
         /\ \A a \in Alphabets :
              /\ \A t \in GetNextStates(m, s, a) :
                   ClimbsTo(GetParsingStream(m, s, a, t), D[s], D[t])
              /\ \A e \in DOMAIN m.enclosed_subnfa_map :
                   \A t \in GetSpecialNextStates(m, s, a, e) :
                     ClimbsTo(GetSpecialParsingStream(m, s, a, e, t), D[s], D[t])
         /\ IsFinalState(m, s) => /\ ClimbsTo(m.final_states[s], D[s], 0)
                                  /\ D[s] # 0 \/ m.final_states[s] # << >>
         /\ \A e \in DOMAIN m.enclosed_subnfa_map :
              Region[m][s] = e /\ s \in DOMAIN m.enclosed_subnfa_map[e].final_states =>
                ClimbsTo(m.enclosed_subnfa_map[e].final_states[s], D[s], 0)
<1>1. /\ D[s] \in Nat /\ D[m.start_state] = 0
      /\ \A e \in DOMAIN m.enclosed_subnfa_map : D[m.enclosed_subnfa_map[e].start_state] = 0
  BY DEF NestsBy, StreamsNest
<1>2. ASSUME NEW a \in Alphabets, NEW t \in GetNextStates(m, s, a)
      PROVE  ClimbsTo(GetParsingStream(m, s, a, t), D[s], D[t])
  <2>1. Climbs(GetParsingStream(m, s, a, t), D[s], D[t])
    BY DEF NestsBy, StreamsNest
  <2>2. GetParsingStream(m, s, a, t) \in ParsingStream
    BY StreamsLookedUp
  <2> QED
    BY <1>1, <2>1, <2>2, ClimbsHasHeights
<1>3. ASSUME NEW a \in Alphabets, NEW e \in DOMAIN m.enclosed_subnfa_map,
             NEW t \in GetSpecialNextStates(m, s, a, e)
      PROVE  ClimbsTo(GetSpecialParsingStream(m, s, a, e, t), D[s], D[t])
  <2>1. Climbs(GetSpecialParsingStream(m, s, a, e, t), D[s], D[t])
    BY DEF NestsBy, StreamsNest
  <2>2. GetSpecialParsingStream(m, s, a, e, t) \in ParsingStream
    BY StreamsLookedUp
  <2> QED
    BY <1>1, <2>1, <2>2, ClimbsHasHeights
<1>4. ASSUME IsFinalState(m, s)
      PROVE  /\ ClimbsTo(m.final_states[s], D[s], 0)
             /\ D[s] # 0 \/ m.final_states[s] # << >>
  <2>1. /\ Climbs(m.final_states[s], D[s], 0)
        /\ D[s] # 0 \/ m.final_states[s] # << >>
    BY <1>4 DEF NestsBy, StreamsNest
  <2>2. m.final_states[s] \in ParsingStream
    BY <1>4, MachinesAreWellFormed DEF WellFormed, StreamsAreThere, IsFinalState
  <2> QED
    BY <1>1, <2>1, <2>2, ClimbsHasHeights
<1>5. ASSUME NEW e \in DOMAIN m.enclosed_subnfa_map, Region[m][s] = e,
             s \in DOMAIN m.enclosed_subnfa_map[e].final_states
      PROVE  ClimbsTo(m.enclosed_subnfa_map[e].final_states[s], D[s], 0)
  <2>1. Climbs(m.enclosed_subnfa_map[e].final_states[s], D[s], 0)
    BY <1>5 DEF NestsBy, StreamsNest
  <2>2. m.enclosed_subnfa_map[e].final_states[s] \in ParsingStream
    BY <1>5, MachinesAreWellFormed DEF WellFormed, StreamsAreThere
  <2> QED
    BY <1>1, <2>1, <2>2, ClimbsHasHeights
<1> QED
  BY <1>1, <1>2, <1>3, <1>4, <1>5

\* levels[j] nodes are open outside bracket j, and as many as its way on leads to more
\* inside; the last level is that of the current state.
AreLevels(levels, brackets, D) ==
  /\ levels \in Seq(Nat) /\ Len(levels) = Len(brackets) + 1
  /\ levels[1] = 0
  /\ \A j \in DOMAIN brackets : levels[j + 1] = levels[j] + D[brackets[j][3]]

\* The streams found from moment i on climb from the nodes open at one moment to those
\* open at the next: dp[k] at moment k, none in the end.
AreDepths(dp, b, i, n) ==
  /\ dp \in [1..n + 2 -> Nat] /\ dp[n + 2] = 0
  /\ \A k \in i..n + 1 : ClimbsTo(b.pss[k], dp[k], dp[k + 1])

Leveled(b, i, n, D, s) ==
  /\ b.pss[n + 1] = machine.final_states[s]
  /\ \E levels, dp :
       /\ AreLevels(levels, b.construction_stack, D)
       /\ AreDepths(dp, b, i, n)
       /\ dp[i] = levels[Len(levels)] + D[b.cur]
       /\ dp[n + 1] = D[s]

\* before keeps q as the stream of feed i, and the later ones of after.
OneStreamMore(before, after, i, q) == before.pss = [after.pss EXCEPT ![i] = q]

\* One depth more, then.
LEMMA OneDepthMore ==
  ASSUME NEW n \in Nat, NEW i \in 1..n, NEW next, next = i + 1, NEW last, last = n + 1,
         NEW before, NEW after, NEW q, after.pss \in [1..last -> ParsingStream],
         OneStreamMore(before, after, i, q),
         NEW dp, AreDepths(dp, after, next, n), NEW d \in Nat, ClimbsTo(q, d, dp[next])
  PROVE  /\ \E new : AreDepths(new, before, i, n) /\ new[i] = d /\ new[last] = dp[last]
         /\ before.pss[last] = after.pss[last]
<1> DEFINE new == [dp EXCEPT ![i] = d]
<1>1. /\ dp \in [1..n + 2 -> Nat] /\ dp[n + 2] = 0
      /\ \A k \in i + 1..n + 1 : ClimbsTo(after.pss[k], dp[k], dp[k + 1])
  BY DEF AreDepths
<1>2. /\ new \in [1..n + 2 -> Nat] /\ new[i] = d
      /\ \A k \in 1..n + 2 : k # i => new[k] = dp[k]
      /\ before.pss[i] = q /\ \A k \in 1..n + 1 : k # i => before.pss[k] = after.pss[k]
  BY <1>1 DEF OneStreamMore
<1> HIDE DEF new
<1>3. ASSUME NEW k \in i..n + 1
      PROVE  ClimbsTo(before.pss[k], new[k], new[k + 1])
  <2>1. k \in 1..n + 1 /\ k \in 1..n + 2 /\ k + 1 \in 1..n + 2 /\ k + 1 # i
    OBVIOUS
  <2>2. CASE k = i
    BY <1>2, <2>1, <2>2
  <2>3. CASE k # i
    <3>1. k \in i + 1..n + 1
      BY <2>3
    <3> QED
      BY <1>1, <1>2, <2>1, <2>3, <3>1
  <2> QED
    BY <2>2, <2>3
<1>4. /\ n + 2 \in 1..n + 2 /\ n + 1 \in 1..n + 2 /\ n + 1 \in 1..n + 1
      /\ n + 2 # i /\ n + 1 # i
  OBVIOUS
<1>5. AreDepths(new, before, i, n)
  BY <1>1, <1>2, <1>3, <1>4 DEF AreDepths
<1> QED
  BY <1>2, <1>4, <1>5

\* Levels are numbers, one for each bracket and one for the current state.
LEMMA LevelsTyped ==
  ASSUME NEW levels, NEW brackets \in Seq(Bracket), NEW D, AreLevels(levels, brackets, D)
  PROVE  /\ Len(levels) \in Nat /\ Len(levels) - 1 \in Nat /\ Len(levels) # 0
         /\ levels[Len(levels)] \in Nat
         /\ \A j \in 1..Len(levels) : levels[j] \in Nat
BY DEF AreLevels

\* A walk that is leveled stays so, one feed back.
LEMMA StepLevels ==
  ASSUME IInv, NEW hist, IsHistory(hist), NEW D, NestsBy(machine, D), NEW s,
         NEW i \in DOMAIN stream, NEW before, NEW after,
         before \in WalkedTo(hist, i), after \in WalkedTo(hist, i + 1),
         Stepped(before, after, i), Leveled(after, i + 1, Len(stream), D, s)
  PROVE  Leveled(before, i, Len(stream), D, s)
<1> DEFINE n == Len(stream)
           a == stream[i]
           ents == machine.enclosed_subnfa_map
<1>1. /\ machine \in Machines /\ n \in Nat /\ i \in 1..n /\ a \in Alphabets
      /\ DOMAIN stream = 1..n
  BY DEF IInv, TypeOK
<1>2. /\ hist[i] \in Moment /\ hist[i + 1] \in Moment
  BY <1>1 DEF IsHistory
<1>3. /\ before.cur \in DOMAIN Region[machine] /\ after.cur \in DOMAIN Region[machine]
      /\ before.construction_stack \in Seq(Bracket) /\ after.construction_stack \in Seq(Bracket)
      /\ after.pss \in [1..n + 1 -> ParsingStream] /\ before.pss \in [1..n + 1 -> ParsingStream]
  BY <1>2 DEF WalkedTo, Moment, States
<1>4. D[before.cur] \in Nat /\ D[after.cur] \in Nat
  BY <1>1, <1>3, StreamsClimb
<1>5. PICK levels, dp :
        /\ AreLevels(levels, after.construction_stack, D)
        /\ AreDepths(dp, after, i + 1, n)
        /\ dp[i + 1] = levels[Len(levels)] + D[after.cur]
        /\ dp[n + 1] = D[s] /\ after.pss[n + 1] = machine.final_states[s]
  BY DEF Leveled
<1>6. /\ Len(levels) \in Nat /\ Len(levels) - 1 \in Nat /\ Len(levels) # 0
      /\ levels[Len(levels)] \in Nat
      /\ \A j \in 1..Len(levels) : levels[j] \in Nat
      /\ levels \in Seq(Nat) /\ Len(levels) = Len(after.construction_stack) + 1
      /\ levels[1] = 0
      /\ \A j \in DOMAIN after.construction_stack :
           levels[j + 1] = levels[j] + D[after.construction_stack[j][3]]
  BY <1>3, <1>5, LevelsTyped DEF AreLevels
<1> SUFFICES Leveled(before, i, n, D, s)
  OBVIOUS
<1> HIDE DEF n
<1>7. ASSUME NEW lower, AreLevels(lower, before.construction_stack, D), NEW q,
             OneStreamMore(before, after, i, q),
             ClimbsTo(q, lower[Len(lower)] + D[before.cur], levels[Len(levels)] + D[after.cur])
      PROVE  Leveled(before, i, n, D, s)
  <2> DEFINE d == lower[Len(lower)] + D[before.cur]
  <2>1. d \in Nat
    BY <1>3, <1>4, <1>7, LevelsTyped
  <2>2. ClimbsTo(q, d, dp[i + 1])
    BY <1>5, <1>7
  <2> HIDE DEF d
  <2> DEFINE next == i + 1
             last == n + 1
  <2>3. /\ n \in Nat /\ i \in 1..n /\ next = i + 1 /\ last = n + 1
        /\ AreDepths(dp, after, next, n) /\ ClimbsTo(q, d, dp[next])
    BY <1>1, <1>5, <2>2
  <2>4. after.pss \in [1..last -> ParsingStream] /\ OneStreamMore(before, after, i, q)
    BY <1>3, <1>7
  <2> HIDE DEF next, last
  <2>5. /\ \E new : AreDepths(new, before, i, n) /\ new[i] = d /\ new[last] = dp[last]
        /\ before.pss[last] = after.pss[last]
    BY <2>1, <2>3, <2>4, OneDepthMore
  <2> QED
    BY <1>5, <1>7, <2>5 DEF Leveled, d, last
<1>8. CASE NopStep(before, after, i)
  <2> DEFINE q == GetParsingStream(machine, before.cur, a, after.cur)
  <2>1. /\ after.cur \in GetNextStates(machine, before.cur, a)
        /\ after.construction_stack = before.construction_stack
        /\ OneStreamMore(before, after, i, q)
    BY <1>8 DEF NopStep, OneStreamMore
  <2>2. ClimbsTo(q, D[before.cur], D[after.cur])
    BY <1>1, <1>3, <2>1, StreamsClimb
  <2>3. Len(q) \in Nat
    <3>1. q \in ParsingStream
      BY <1>1, <1>3, StreamsLookedUp
    <3> QED
      BY <3>1 DEF ParsingStream
  <2> HIDE DEF q
  <2>4. ClimbsTo(q, levels[Len(levels)] + D[before.cur], levels[Len(levels)] + D[after.cur])
    BY <1>6, <2>2, <2>3, ClimbsHigher
  <2> QED
    BY <1>5, <1>7, <2>1, <2>4
<1>9. CASE PushStep(before, after, i)
  <2>1. PICK e \in DOMAIN ents, t \in UNION {GetSpecialNextStates(machine, before.cur, a, f) :
                                             f \in DOMAIN ents} :
          /\ t \in GetSpecialNextStates(machine, before.cur, a, e)
          /\ after.cur = ents[e].start_state
          /\ after.construction_stack = Append(before.construction_stack, <<before.cur, e, t>>)
          /\ OneStreamMore(before, after, i,
                           GetSpecialParsingStream(machine, before.cur, a, e, t))
    BY <1>9 DEF PushStep, OneStreamMore
  <2> DEFINE q == GetSpecialParsingStream(machine, before.cur, a, e, t)
             lower == SubSeq(levels, 1, Len(levels) - 1)
             k == Len(before.construction_stack) + 1
  <2>2. ClimbsTo(q, D[before.cur], D[t]) /\ D[after.cur] = 0 /\ D[t] \in Nat
    <3>1. t \in DOMAIN Region[machine]
      BY <1>1, <1>3, <2>1, NextStatesStay
    <3> QED
      BY <1>1, <1>3, <2>1, <3>1, StreamsClimb
  <2>3. Len(q) \in Nat
    <3>1. q \in ParsingStream
      BY <1>1, <1>3, StreamsLookedUp
    <3> QED
      BY <3>1 DEF ParsingStream
  <2>4. /\ k \in Nat /\ Len(after.construction_stack) = k
        /\ after.construction_stack[k][3] = t
        /\ \A j \in 1..k - 1 : after.construction_stack[j] = before.construction_stack[j]
        /\ DOMAIN before.construction_stack = 1..k - 1
        /\ DOMAIN after.construction_stack = 1..k
    <3> DEFINE bracket == <<before.cur, e, t>>
               outside == before.construction_stack
    <3>1. outside \in Seq(Bracket) /\ after.construction_stack = Append(outside, bracket)
      BY <1>3, <2>1
    <3>2. bracket[3] = t
      OBVIOUS
    <3> HIDE DEF bracket, outside
    <3>3. /\ Len(outside) \in Nat /\ Len(after.construction_stack) = Len(outside) + 1
          /\ after.construction_stack[Len(outside) + 1] = bracket
          /\ \A j \in 1..Len(outside) : after.construction_stack[j] = outside[j]
          /\ DOMAIN outside = 1..Len(outside)
          /\ DOMAIN after.construction_stack = 1..Len(outside) + 1
      BY <3>1
    <3>4. Len(outside) + 1 - 1 = Len(outside)
      BY <3>3
    <3> QED
      BY <3>2, <3>3, <3>4 DEF outside
  <2>5. /\ lower \in Seq(Nat) /\ Len(lower) = k
        /\ \A j \in 1..k : lower[j] = levels[j]
    <3>1. Len(levels) = k + 1 /\ Len(levels) - 1 = k /\ levels # << >>
      BY <1>6, <2>4
    <3> QED
      BY <1>6, <3>1, FrontProperties
  <2>6. levels[Len(levels)] = lower[Len(lower)] + D[t] /\ Len(levels) = k + 1
        /\ lower[Len(lower)] \in Nat
    <3>1. k \in 1..k /\ Len(levels) = k + 1
      BY <1>6, <2>4
    <3>2. levels[k + 1] = levels[k] + D[t]
      BY <1>6, <2>4, <3>1
    <3>3. levels[k] \in Nat
      BY <1>6, <3>1
    <3> QED
      BY <2>5, <3>1, <3>2, <3>3
  <2> HIDE DEF q, lower
  <2>7. AreLevels(lower, before.construction_stack, D)
    <3>1. lower[1] = 0
      <4>1. k # 0 /\ 1 \in 1..k
        BY <1>3 DEF k
      <4> QED
        BY <1>6, <2>5, <4>1
    <3>2. ASSUME NEW j \in 1..k - 1
          PROVE  lower[j + 1] = lower[j] + D[before.construction_stack[j][3]]
      <4>1. j \in 1..k /\ j + 1 \in 1..k
        BY <2>4
      <4> QED
        BY <1>6, <2>4, <2>5, <4>1
    <3> HIDE DEF k
    <3>3. Len(lower) = Len(before.construction_stack) + 1
      BY <2>5 DEF k
    <3> QED
      BY <2>4, <2>5, <3>1, <3>2, <3>3 DEF AreLevels
  <2>8. ClimbsTo(q, lower[Len(lower)] + D[before.cur], levels[Len(levels)] + D[after.cur])
    <3>1. ClimbsTo(q, lower[Len(lower)] + D[before.cur], lower[Len(lower)] + D[t])
      BY <2>2, <2>3, <2>6, ClimbsHigher
    <3>2. levels[Len(levels)] + D[after.cur] = lower[Len(lower)] + D[t]
      BY <2>2, <2>6
    <3> QED
      BY <3>1, <3>2
  <2> QED
    BY <1>7, <2>1, <2>7, <2>8 DEF q
<1>10. CASE PopStep(before, after, i)
  <2>1. PICK e \in DOMAIN ents, p \in States :
          /\ <<"POP", e>> \in GetNextStackOps(machine, before.cur, a)
          /\ before.construction_stack = Append(after.construction_stack, <<p, e, after.cur>>)
          /\ OneStreamMore(before, after, i, ents[e].final_states[before.cur])
    BY <1>10 DEF PopStep, OneStreamMore
  <2> DEFINE q == ents[e].final_states[before.cur]
             level == levels[Len(levels)] + D[after.cur]
             inner == Append(levels, level)
             k == Len(after.construction_stack)
  <2>2. Region[machine][before.cur] = e /\ before.cur \in DOMAIN ents[e].final_states
    <3> DEFINE op == <<"POP", e>>
    <3>1. op \in GetNextStackOps(machine, before.cur, a) /\ op[1] = "POP" /\ op[2] = e
      BY <2>1
    <3> HIDE DEF op
    <3> QED
      BY <1>1, <1>3, <3>1, StackOpsProperties
  <2>3. ClimbsTo(q, D[before.cur], 0)
    BY <1>1, <1>3, <2>1, <2>2, StreamsClimb
  <2>4. Len(q) \in Nat
    <3>1. q \in ParsingStream
      BY <1>1, <2>1, <2>2, MachinesAreWellFormed DEF WellFormed, StreamsAreThere
    <3> QED
      BY <3>1 DEF ParsingStream
  <2>5. level \in Nat
    <3>1. levels[Len(levels)] \in Nat /\ D[after.cur] \in Nat
      BY <1>4, <1>6
    <3> QED
      BY <3>1
  <2>6. /\ k \in Nat /\ Len(before.construction_stack) = k + 1
        /\ before.construction_stack[k + 1][3] = after.cur
        /\ \A j \in 1..k : before.construction_stack[j] = after.construction_stack[j]
        /\ DOMAIN before.construction_stack = 1..k + 1
        /\ DOMAIN after.construction_stack = 1..k
    <3> DEFINE bracket == <<p, e, after.cur>>
               outside == after.construction_stack
    <3>1. outside \in Seq(Bracket) /\ before.construction_stack = Append(outside, bracket)
      BY <1>3, <2>1
    <3>2. bracket[3] = after.cur
      OBVIOUS
    <3> HIDE DEF bracket, outside
    <3>3. /\ Len(outside) \in Nat /\ Len(before.construction_stack) = Len(outside) + 1
          /\ before.construction_stack[Len(outside) + 1] = bracket
          /\ \A j \in 1..Len(outside) : before.construction_stack[j] = outside[j]
          /\ DOMAIN outside = 1..Len(outside)
          /\ DOMAIN before.construction_stack = 1..Len(outside) + 1
      BY <3>1
    <3> QED
      BY <3>2, <3>3 DEF outside
  <2> HIDE DEF q, level
  <2>7. /\ inner \in Seq(Nat) /\ Len(levels) = k + 1 /\ Len(inner) = k + 2
        /\ inner[k + 2] = level /\ \A j \in 1..k + 1 : inner[j] = levels[j]
    <3>1. Len(levels) = k + 1
      BY <1>6
    <3>2. /\ inner \in Seq(Nat) /\ Len(inner) = Len(levels) + 1
          /\ inner[Len(levels) + 1] = level
          /\ \A j \in 1..Len(levels) : inner[j] = levels[j]
      <4>1. levels \in Seq(Nat)
        BY <1>6
      <4> QED
        BY <2>5, <4>1
    <3>3. k + 1 + 1 = k + 2
      BY <2>6
    <3> QED
      BY <3>1, <3>2, <3>3
  <2> HIDE DEF inner, k
  <2>8. AreLevels(inner, before.construction_stack, D)
    <3>1. 1 \in 1..k + 1 /\ inner[1] = 0 /\ k + 1 + 1 = k + 2
      BY <1>6, <2>6, <2>7
    <3>2. ASSUME NEW j \in 1..k + 1
          PROVE  inner[j + 1] = inner[j] + D[before.construction_stack[j][3]]
      <4>1. CASE j = k + 1
        <5>1. inner[j + 1] = level /\ inner[j] = levels[Len(levels)]
          BY <2>6, <2>7, <3>1, <4>1
        <5>2. D[before.construction_stack[j][3]] = D[after.cur]
          BY <2>6, <4>1
        <5> QED
          BY <5>1, <5>2 DEF level
      <4>2. CASE j # k + 1
        <5>1. j \in 1..k /\ j + 1 \in 1..k + 1
          BY <2>6, <4>2
        <5>2. /\ inner[j + 1] = levels[j + 1] /\ inner[j] = levels[j]
              /\ before.construction_stack[j] = after.construction_stack[j]
              /\ j \in DOMAIN after.construction_stack
          BY <2>6, <2>7, <5>1
        <5> QED
          BY <1>6, <5>2
      <4> QED
        BY <4>1, <4>2
    <3> QED
      BY <2>6, <2>7, <3>1, <3>2 DEF AreLevels
  <2>9. ClimbsTo(q, inner[Len(inner)] + D[before.cur], levels[Len(levels)] + D[after.cur])
    <3>1. ClimbsTo(q, level + D[before.cur], level + 0)
      BY <2>3, <2>4, <2>5, ClimbsHigher
    <3>2. level + 0 = levels[Len(levels)] + D[after.cur]
      BY <2>5 DEF level
    <3>3. inner[Len(inner)] = level
      BY <2>7
    <3> QED
      BY <3>1, <3>2, <3>3
  <2> QED
    BY <1>7, <2>1, <2>8, <2>9 DEF q
<1> QED
  BY <1>8, <1>9, <1>10 DEF Stepped, n

\* The last moment is leveled, with no bracket and the nodes open in a final state.
LEMMA StartLevels ==
  ASSUME IInv, NEW D, NestsBy(machine, D), NEW s \in nfa_states, IsFinalState(machine, s)
  PROVE  Leveled(BackStart(s), Len(stream) + 1, Len(stream), D, s)
<1> DEFINE n == Len(stream)
           last == n + 1
           levels == <<0>>
           dp == [k \in 1..n + 2 |-> IF k = n + 2 THEN 0 ELSE D[s]]
           b == BackStart(s)
<1>1. /\ machine \in Machines /\ n \in Nat /\ s \in DOMAIN Region[machine]
      /\ last \in 1..n + 1 /\ last \in 1..n + 2 /\ last # n + 2 /\ n + 2 \in 1..n + 2
  BY DEF IInv, TypeOK, States
<1>2. D[s] \in Nat /\ ClimbsTo(machine.final_states[s], D[s], 0)
  BY <1>1, StreamsClimb
<1>3. /\ b.cur = s /\ b.construction_stack = << >> /\ b.pss[last] = machine.final_states[s]
  BY <1>1 DEF BackStart
<1>4. AreLevels(levels, b.construction_stack, D) /\ levels[Len(levels)] = 0
  BY <1>3 DEF AreLevels
<1>5. dp \in [1..n + 2 -> Nat] /\ dp[n + 2] = 0 /\ dp[last] = D[s]
  BY <1>1, <1>2
<1> HIDE DEF dp, b, levels
<1>6. AreDepths(dp, b, last, n)
  <2>1. ASSUME NEW k \in last..n + 1
        PROVE  ClimbsTo(b.pss[k], dp[k], dp[k + 1])
    <3>1. k = last /\ k + 1 = n + 2
      BY <1>1
    <3> HIDE DEF last
    <3> QED
      BY <1>2, <1>3, <1>5, <3>1
  <2> QED
    BY <1>5, <2>1 DEF AreDepths
<1>7. dp[last] = levels[Len(levels)] + D[b.cur]
  BY <1>2, <1>3, <1>4, <1>5
<1> QED
  BY <1>3, <1>4, <1>5, <1>6, <1>7 DEF Leveled, b

\* So is each moment before it.
LEMMA WalkLevels ==
  ASSUME IInv, NEW hist, IsHistory(hist), NEW D, NestsBy(machine, D),
         NEW s \in nfa_states, IsFinalState(machine, s)
  PROVE  Leveled(BackWalk(s)[1], 1, Len(stream), D, s)
<1> DEFINE n == Len(stream)
           w == BackWalk(s)
           X == [i \in 1..n + 1 |-> {b \in WalkedTo(hist, i) : Leveled(b, i, n, D, s)}]
<1>1. n \in Nat /\ DOMAIN stream = 1..n
  BY DEF IInv, TypeOK
<1>2. /\ w[n + 1] = BackStart(s)
      /\ \A i \in 1..n + 1 : w[i] \in WalkedTo(hist, i)
      /\ \A i \in 1..n : Stepped(w[i], w[i + 1], i)
  BY <1>1, BackWalkWalks
<1> HIDE DEF w
<1>3. w[n + 1] \in X[n + 1]
  <2>1. Leveled(w[n + 1], n + 1, n, D, s)
    BY <1>2, StartLevels
  <2>2. n + 1 \in 1..n + 1
    BY <1>1
  <2> QED
    BY <1>2, <2>1, <2>2
<1>4. ASSUME NEW i \in 1..n, w[i + 1] \in X[i + 1]
      PROVE  w[i] \in X[i]
  <2>1. i \in DOMAIN stream /\ i \in 1..n + 1 /\ i + 1 \in 1..n + 1
    BY <1>1
  <2>2. /\ w[i] \in WalkedTo(hist, i) /\ w[i + 1] \in WalkedTo(hist, i + 1)
        /\ Stepped(w[i], w[i + 1], i) /\ Leveled(w[i + 1], i + 1, n, D, s)
    BY <1>2, <1>4, <2>1
  <2>3. Leveled(w[i], i, n, D, s)
    BY <2>1, <2>2, StepLevels
  <2> QED
    BY <2>1, <2>2, <2>3
<1>5. \A i \in 1..n + 1 : w[i] \in X[i]
  <2> HIDE DEF X, n
  <2> QED
    BY <1>1, <1>3, <1>4, DownwardFamilyInduction
<1>6. 1 \in 1..n + 1
  BY <1>1
<1> QED
  BY <1>5, <1>6 DEF w

-------------------------------------------------------------------------------
(* The tree of an instance *)

TreeTyped == parse_tree \in Seq(Node) /\ parse_tree # << >>

\* What End makes of the tree.
LEMMA EndTree ==
  ASSUME IInv, HasHistory, TreeTyped, End
  PROVE  TreeTyped' /\ (TreeFits => TreeFits')
<1> DEFINE n == Len(stream)
<1>1. PICK result \in Parse(parse_tree) : result.status = "done" /\ parse_tree' = result.nodes
  BY DEF End
<1>2. PICK s \in nfa_states :
        /\ IsFinalState(machine, s)
        /\ result = IF Backtrack(s).status = "done" THEN ConstructTree(Backtrack(s).pss, parse_tree)
                    ELSE [status |-> Backtrack(s).status, nodes |-> parse_tree]
  BY <1>1 DEF Parse
<1>3. PICK hist : IsHistory(hist)
  BY DEF HasHistory
<1>4. n \in Nat /\ 1 \in 1..n + 1
  BY DEF IInv, TypeOK
<1>5. Backtrack(s).pss \in Streams(n)
  <2>1. Backtrack(s) \in WalkedTo(hist, 1)
    BY <1>2, <1>3, <1>4, BackWalkWalks DEF Backtrack
  <2> QED
    BY <2>1 DEF WalkedTo, Streams
<1>6. result = ConstructTree(Backtrack(s).pss, parse_tree)
  BY <1>1, <1>2
<1>7. stream' = stream
  BY DEF End, vars
<1> HIDE DEF n
<1>8. /\ result.nodes \in Seq(Node) /\ result.nodes # << >>
      /\ FitsIn(parse_tree, n) => FitsIn(result.nodes, n)
  BY <1>1, <1>4, <1>5, <1>6, ConstructedTrees DEF TreeTyped
<1> QED
  BY <1>1, <1>7, <1>8 DEF TreeTyped, TreeFits, n

\* The tree of a new instance fits.
LEMMA FreshTreeFits ==
  /\ FreshTree \in Seq(Node) /\ FreshTree # << >>
  /\ \A length \in Nat : FitsIn(FreshTree, length)
<1>1. FreshTree[1].end = 0 /\ FreshTree[1] \in Node /\ DOMAIN FreshTree = {1}
  BY DEF FreshTree, Node
<1>2. FreshTree = <<FreshTree[1]>>
  BY DEF FreshTree
<1>3. FreshTree \in Seq(Node) /\ FreshTree # << >>
  <2> DEFINE root == FreshTree[1]
  <2>1. root \in Node
    BY <1>1
  <2> HIDE DEF root
  <2>2. <<root>> \in Seq(Node) /\ <<root>> # << >>
    BY <2>1
  <2> QED
    BY <1>2, <2>2 DEF root
<1> QED
  BY <1>1, <1>3 DEF FitsIn

\* Feeds only lengthen the stream.
LEMMA FeedLengthens ==
  ASSUME IInv, NEW a \in Alphabets, Feed(a)
  PROVE  Len(stream) \in Nat /\ Len(stream') \in Nat /\ Len(stream) <= Len(stream')
<1>1. stream \in Seq(Alphabets) /\ (stream' = stream \/ stream' = Append(stream, a))
  BY DEF IInv, TypeOK, Feed, FeedPush, FeedPop, FeedNop, FeedInvalid, Record, vars
<1> QED
  BY <1>1

\* A tree that fits does so after every operation but Init.
LEMMA InstanceTree ==
  IInv /\ HasHistory /\ TreeTyped /\ [InstanceNext]_instance_vars =>
    TreeTyped' /\ (TreeFits => TreeFits' \/ InstanceInit(machine'))
<1> SUFFICES ASSUME IInv, HasHistory, TreeTyped, [InstanceNext]_instance_vars
             PROVE  TreeTyped' /\ (TreeFits => TreeFits' \/ InstanceInit(machine'))
  OBVIOUS
<1>1. ASSUME NEW a \in Alphabets, InstanceFeed(a)
      PROVE  TreeTyped' /\ (TreeFits => TreeFits')
  <2>1. parse_tree' = parse_tree
    BY <1>1 DEF InstanceFeed
  <2>2. /\ Len(stream) \in Nat /\ Len(stream') \in Nat /\ Len(stream) <= Len(stream')
        /\ parse_tree[1].end \in Nat
    <3>1. parse_tree[1] \in Node
      BY DEF TreeTyped
    <3> QED
      BY <1>1, <3>1, FeedLengthens DEF InstanceFeed, Node
  <2> QED
    BY <2>1, <2>2 DEF TreeTyped, TreeFits, FitsIn
<1>2. CASE InstanceReset
  <2>1. parse_tree' = FreshTree /\ Len(stream') = 0
    BY <1>2 DEF InstanceReset, Reset, Cleared
  <2> QED
    BY <2>1, FreshTreeFits DEF TreeTyped, TreeFits
<1>3. CASE End
  BY <1>3, EndTree
<1>4. ASSUME NEW m \in Machines, InstanceInit(m)
      PROVE  TreeTyped' /\ InstanceInit(machine')
  <2>1. machine' = m /\ parse_tree' = parse_tree
    BY <1>4 DEF InstanceInit, SetAParseMachine
  <2> QED
    BY <1>4, <2>1 DEF TreeTyped
<1>5. CASE UNCHANGED instance_vars
  BY <1>5 DEF instance_vars, vars, TreeTyped, TreeFits
<1> QED
  BY <1>1, <1>2, <1>3, <1>4, <1>5 DEF InstanceNext

\* An instance always has a tree.
LEMMA TreeAlwaysTyped == InstanceSpec => []TreeTyped
<1>1. InstanceInitial => TreeTyped
  BY FreshTreeFits DEF InstanceInitial, InstanceStart, TreeTyped
<1>2. InstanceSpec => [](IInv /\ HasHistory)
  BY InstanceIsCoreParser, HistoryInvariant, PTL
<1>3. IInv /\ HasHistory /\ TreeTyped /\ [InstanceNext]_instance_vars => TreeTyped'
  BY InstanceTree
<1> QED
  BY <1>1, <1>2, <1>3, PTL DEF InstanceSpec

\* For every well-formed machine and every sequence of operations of an instance:
\* the tree End leaves lies within the stream and each of its nodes within its
\* parent, and this lasts until Init gives the instance another stream.
THEOREM TreesFitUntilInit == InstanceSpec => TreeFitsUntilInit
<1>1. InstanceSpec => [](IInv /\ HasHistory)
  BY InstanceIsCoreParser, HistoryInvariant, PTL
<1>2. IInv /\ HasHistory /\ TreeTyped /\ [InstanceNext]_instance_vars =>
        [TreeFits => TreeFits' \/ InstanceInit(machine')]_instance_vars
  BY InstanceTree
<1> QED
  BY <1>1, <1>2, TreeAlwaysTyped, PTL DEF InstanceSpec, TreeFitsUntilInit

\* Nothing is open before the first feed, so the markers of the walk climb from no
\* node to none; and they are some, for a final state that has no stream has nodes open.
LEMMA WalkComplete ==
  ASSUME IInv, HasHistory, HasDepths(machine), TreeTyped,
         NEW s \in nfa_states, IsFinalState(machine, s)
  PROVE  LET made == ConstructTree(Backtrack(s).pss, parse_tree)
         IN /\ Backtrack(s).status = "done" /\ made.status = "done"
            /\ Len(made.nodes) > Len(parse_tree)
            /\ \A k \in 2..Len(parse_tree) : made.nodes[k] = parse_tree[k]
<1> DEFINE n == Len(stream)
           b == Backtrack(s)
<1>1. PICK hist : IsHistory(hist)
  BY DEF HasHistory
<1>2. PICK D : NestsBy(machine, D)
  BY DEF HasDepths
<1>3. /\ machine \in Machines /\ n \in Nat /\ 1 \in 1..n + 1 /\ s \in DOMAIN Region[machine]
  BY DEF IInv, TypeOK, States
<1>4. b \in WalkedTo(hist, 1) /\ hist[1].nfa_states = {machine.start_state} /\ hist[1].stack = << >>
  <2>1. hist[1].nfa_states = {machine.start_state} /\ hist[1].stack = << >>
    BY <1>1 DEF IsHistory
  <2>2. \A i \in 1..Len(stream) + 1 : BackWalk(s)[i] \in WalkedTo(hist, i)
    BY <1>1, BackWalkWalks
  <2> QED
    BY <1>3, <2>1, <2>2 DEF Backtrack
<1>5. /\ b.pss \in Streams(n) /\ b.status = "done" /\ b.cur = machine.start_state
      /\ b.construction_stack \in Seq(Bracket) /\ Len(b.construction_stack) = 0
  BY <1>4 DEF WalkedTo, FitFrames, Streams
<1>6. Leveled(b, 1, n, D, s)
  BY <1>1, <1>2, WalkLevels DEF Backtrack
<1> HIDE DEF b, n
<1>7. PICK levels, dp :
        /\ AreLevels(levels, b.construction_stack, D)
        /\ AreDepths(dp, b, 1, n)
        /\ dp[1] = levels[Len(levels)] + D[b.cur]
        /\ dp[n + 1] = D[s] /\ b.pss[n + 1] = machine.final_states[s]
  BY <1>6 DEF Leveled
<1>8. D[machine.start_state] = 0 /\ (D[s] # 0 \/ machine.final_states[s] # << >>)
  BY <1>2, <1>3, StreamsClimb
<1>9. dp[1] = 0
  <2>1. Len(levels) = 1 /\ levels[1] = 0
    BY <1>5, <1>7 DEF AreLevels
  <2> QED
    BY <1>5, <1>7, <1>8, <2>1
<1>10. /\ dp \in [1..n + 2 -> Nat] /\ dp[n + 2] = 0
       /\ \A i \in 1..n + 1 : ClimbsTo(b.pss[i], dp[i], dp[i + 1])
  BY <1>7 DEF AreDepths
<1>11. /\ ClimbsTo(Markers(b.pss), dp[1], dp[n + 2])
       /\ Markers(b.pss) = << >> => b.pss[n + 1] = << >> /\ dp[n + 1] = dp[1]
  <2> DEFINE pss == b.pss
  <2>1. pss \in Streams(n) /\ \A i \in 1..n + 1 : ClimbsTo(pss[i], dp[i], dp[i + 1])
    BY <1>5, <1>10
  <2> HIDE DEF pss
  <2>2. /\ ClimbsTo(Markers(pss), dp[1], dp[n + 2])
        /\ Markers(pss) = << >> => pss[n + 1] = << >> /\ dp[n + 1] = dp[1]
    BY <1>3, <1>10, <2>1, MarkersClimb
  <2> QED
    BY <2>2 DEF pss
<1>12. ClimbsTo(Markers(b.pss), 0, 0) /\ Markers(b.pss) # << >>
  BY <1>7, <1>8, <1>9, <1>10, <1>11
<1>13. parse_tree \in Seq(Node) /\ parse_tree # << >>
  BY DEF TreeTyped
<1>14. LET made == ConstructTree(b.pss, parse_tree)
       IN /\ made.status = "done" /\ Len(made.nodes) > Len(parse_tree)
          /\ \A k \in 2..Len(parse_tree) : made.nodes[k] = parse_tree[k]
  BY <1>3, <1>5, <1>12, <1>13, ClimbsComplete
<1> QED
  BY <1>5, <1>14 DEF b

\* For every machine whose streams nest, every sequence of operations of an instance
\* and every tree earlier Ends left: whichever final state Parse takes, ConstructTree
\* meets neither an END with no node open nor an open node left over, adds a child, and
\* leaves the nodes that were there.
THEOREM EndsAlwaysComplete == InstanceSpec => [](HasDepths(machine) => EndsComplete)
<1>1. InstanceSpec => [](IInv /\ HasHistory)
  BY InstanceIsCoreParser, HistoryInvariant, PTL
<1>2. InstanceSpec => []TreeTyped
  BY TreeAlwaysTyped
<1>3. IInv /\ HasHistory /\ TreeTyped => (HasDepths(machine) => EndsComplete)
  <2> SUFFICES ASSUME IInv, HasHistory, TreeTyped, HasDepths(machine),
                      NEW result \in Parse(parse_tree)
               PROVE  /\ result.status = "done" /\ Len(result.nodes) > Len(parse_tree)
                      /\ \A k \in 2..Len(parse_tree) : result.nodes[k] = parse_tree[k]
    BY DEF EndsComplete
  <2>1. PICK s \in nfa_states :
          /\ IsFinalState(machine, s)
          /\ result = IF Backtrack(s).status = "done"
                      THEN ConstructTree(Backtrack(s).pss, parse_tree)
                      ELSE [status |-> Backtrack(s).status, nodes |-> parse_tree]
    BY DEF Parse
  <2>2. LET made == ConstructTree(Backtrack(s).pss, parse_tree)
        IN /\ Backtrack(s).status = "done" /\ made.status = "done"
           /\ Len(made.nodes) > Len(parse_tree)
           /\ \A k \in 2..Len(parse_tree) : made.nodes[k] = parse_tree[k]
    BY <2>1, WalkComplete
  <2> QED
    BY <2>1, <2>2
<1> QED
  BY <1>1, <1>2, <1>3, PTL

-------------------------------------------------------------------------------
(* The run that the walk back has found *)

\* Where a run of m can be: a state, and the brackets open around it.
BracketsOf(m) ==
  {<<q, e, t>> : q \in DOMAIN Region[m], e \in DOMAIN m.enclosed_subnfa_map, t \in DOMAIN Region[m]}
Point(m) == [cur : DOMAIN Region[m], construction_stack : Seq(BracketsOf(m))]

\* One alphabet leads from one to the other, and q is the parsing stream there.
Moves(m, before, after, a, q) ==
  \/ /\ after.cur \in GetNextStates(m, before.cur, a)
     /\ after.construction_stack = before.construction_stack
     /\ q = GetParsingStream(m, before.cur, a, after.cur)
  \/ \E e \in DOMAIN m.enclosed_subnfa_map :
       \E t \in GetSpecialNextStates(m, before.cur, a, e) :
         /\ <<"PUSH", e>> \in GetNextStackOps(m, before.cur, a)
         /\ after.cur = m.enclosed_subnfa_map[e].start_state
         /\ after.construction_stack = Append(before.construction_stack, <<before.cur, e, t>>)
         /\ q = GetSpecialParsingStream(m, before.cur, a, e, t)
  \/ \E e \in DOMAIN m.enclosed_subnfa_map, s \in DOMAIN Region[m] :
       /\ <<"POP", e>> \in GetNextStackOps(m, before.cur, a)
       /\ before.construction_stack = Append(after.construction_stack, <<s, e, after.cur>>)
       /\ q = m.enclosed_subnfa_map[e].final_states[before.cur]

\* A run of m over w, from its start state to a final state outside all brackets, has
\* these parsing streams.
Spells(m, w, pss) ==
  LET n == Len(w)
  IN \E run \in [1..n + 1 -> Point(m)] :
       /\ run[1] = [cur |-> m.start_state, construction_stack |-> << >>]
       /\ \A i \in 1..n : Moves(m, run[i], run[i + 1], w[i], pss[i])
       /\ run[n + 1].construction_stack = << >> /\ IsFinalState(m, run[n + 1].cur)
       /\ pss[n + 1] = m.final_states[run[n + 1].cur]

\* A turn of the loop keeps the parsing stream of a move.
LEMMA StepMoves ==
  ASSUME NEW hist, NEW i \in DOMAIN stream, NEW before, NEW after,
         before \in WalkedTo(hist, i), after \in WalkedTo(hist, i + 1),
         Stepped(before, after, i)
  PROVE  \E q : /\ Moves(machine, before, after, stream[i], q)
                /\ OneStreamMore(before, after, i, q)
<1>1. CASE NopStep(before, after, i)
  BY <1>1 DEF NopStep, Moves, OneStreamMore
<1>2. CASE PushStep(before, after, i)
  BY <1>2 DEF PushStep, Moves, OneStreamMore
<1>3. CASE PopStep(before, after, i)
  <2>1. PICK e \in DOMAIN machine.enclosed_subnfa_map, s \in States :
          /\ <<"POP", e>> \in GetNextStackOps(machine, before.cur, stream[i])
          /\ before.construction_stack = Append(after.construction_stack, <<s, e, after.cur>>)
          /\ OneStreamMore(before, after, i,
                           machine.enclosed_subnfa_map[e].final_states[before.cur])
    BY <1>3 DEF PopStep, OneStreamMore
  <2> QED
    BY <2>1 DEF Moves, States
<1> QED
  BY <1>1, <1>2, <1>3 DEF Stepped

\* From moment i on, the streams that b keeps are those of the moves that w has found.
Kept(b, w, i, n) ==
  /\ \A j \in i..n : Moves(machine, w[j], w[j + 1], stream[j], b.pss[j])
  /\ b.pss[n + 1] = machine.final_states[w[n + 1].cur]

\* One stream more, and the later ones stay.
LEMMA KeepsOneMore ==
  ASSUME NEW n \in Nat, NEW i \in 1..n, NEW next, next = i + 1, NEW w, NEW before, NEW after,
         after.pss \in [1..n + 1 -> ParsingStream], NEW q, OneStreamMore(before, after, i, q),
         Moves(machine, w[i], w[next], stream[i], q), Kept(after, w, next, n)
  PROVE  Kept(before, w, i, n)
<1>1. /\ before.pss[i] = q /\ \A j \in 1..n + 1 : j # i => before.pss[j] = after.pss[j]
  BY DEF OneStreamMore
<1>2. ASSUME NEW j \in i..n
      PROVE  Moves(machine, w[j], w[j + 1], stream[j], before.pss[j])
  <2>1. CASE j = i
    BY <1>1, <2>1
  <2>2. CASE j # i
    <3>1. j \in next..n /\ j \in 1..n + 1
      BY <2>2
    <3> QED
      BY <1>1, <2>2, <3>1 DEF Kept
  <2> QED
    BY <2>1, <2>2
<1>3. n + 1 \in 1..n + 1 /\ n + 1 # i
  OBVIOUS
<1> QED
  BY <1>1, <1>2, <1>3 DEF Kept

\* From every final state the walk back has in the end the parsing streams of one run of
\* the machine over the stream, although its records are of many runs.
LEMMA WalkSpells ==
  ASSUME IInv, HasHistory, NEW s \in nfa_states, IsFinalState(machine, s)
  PROVE  /\ Backtrack(s).status = "done" /\ Backtrack(s).pss \in Streams(Len(stream))
         /\ Spells(machine, stream, Backtrack(s).pss)
<1> DEFINE n == Len(stream)
           w == BackWalk(s)
<1>1. PICK hist : IsHistory(hist)
  BY DEF HasHistory
<1>2. n \in Nat /\ DOMAIN stream = 1..n /\ machine \in Machines
  BY DEF IInv, TypeOK
<1>3. /\ w[n + 1] = BackStart(s)
      /\ \A i \in 1..n + 1 : w[i] \in WalkedTo(hist, i)
      /\ \A i \in 1..n : Stepped(w[i], w[i + 1], i)
  BY <1>1, <1>2, BackWalkWalks
<1> HIDE DEF w, n
<1>4. \A i \in 1..n + 1 :
        /\ w[i].cur \in DOMAIN Region[machine] /\ w[i].construction_stack \in Seq(BracketsOf(machine))
        /\ w[i].status = "done" /\ w[i].pss \in [1..n + 1 -> ParsingStream]
  <2>1. ASSUME NEW i \in 1..n + 1
        PROVE  /\ w[i].cur \in DOMAIN Region[machine]
               /\ w[i].construction_stack \in Seq(BracketsOf(machine))
               /\ w[i].status = "done" /\ w[i].pss \in [1..n + 1 -> ParsingStream]
    <3>1. hist[i] \in Moment
      BY <1>1, <1>2 DEF IsHistory, n
    <3>2. w[i] \in WalkedTo(hist, i)
      BY <1>3
    <3>3. Bracket = BracketsOf(machine)
      BY DEF Bracket, BracketsOf, States
    <3> QED
      BY <3>1, <3>2, <3>3 DEF WalkedTo, Moment, States, n
  <2> QED
    BY <2>1
<1> DEFINE X == [i \in 1..n + 1 |-> {b \in WalkedTo(hist, i) : Kept(b, w, i, n)}]
<1>5. w[n + 1] \in X[n + 1]
  <2>1. w[n + 1].cur = s /\ w[n + 1].pss[n + 1] = machine.final_states[s]
    BY <1>2, <1>3 DEF BackStart, n
  <2>2. n + 1 \in 1..n + 1 /\ n + 1..n = {}
    BY <1>2
  <2>3. Kept(w[n + 1], w, n + 1, n)
    BY <2>1, <2>2 DEF Kept
  <2> QED
    BY <1>3, <2>2, <2>3
<1>6. ASSUME NEW i \in 1..n, w[i + 1] \in X[i + 1]
      PROVE  w[i] \in X[i]
  <2> DEFINE next == i + 1
             before == w[i]
             after == w[next]
  <2>1. /\ next = i + 1 /\ i \in 1..n + 1 /\ next \in 1..n + 1 /\ i \in DOMAIN stream
        /\ before \in WalkedTo(hist, i) /\ after \in WalkedTo(hist, i + 1)
        /\ Stepped(before, after, i) /\ after.pss \in [1..n + 1 -> ParsingStream]
    BY <1>2, <1>3, <1>4
  <2>2. Kept(after, w, next, n)
    BY <1>6, <2>1
  <2> HIDE DEF next, X
  <2>3. PICK q : Moves(machine, before, after, stream[i], q) /\ OneStreamMore(before, after, i, q)
    BY <2>1, StepMoves
  <2>4. Kept(before, w, i, n)
    BY <1>2, <2>1, <2>2, <2>3, KeepsOneMore
  <2> QED
    BY <2>1, <2>4 DEF X
<1>7. \A i \in 1..n + 1 : w[i] \in X[i]
  <2> HIDE DEF X
  <2> QED
    BY <1>2, <1>5, <1>6, DownwardFamilyInduction
<1>8. 1 \in 1..n + 1 /\ n + 1 \in 1..n + 1
  BY <1>2
<1>9. Kept(w[1], w, 1, n)
  BY <1>7, <1>8
<1> DEFINE run == [i \in 1..n + 1 |->
                    [cur |-> w[i].cur, construction_stack |-> w[i].construction_stack]]
<1>10. run \in [1..n + 1 -> Point(machine)]
  BY <1>4 DEF Point
<1>11. run[1] = [cur |-> machine.start_state, construction_stack |-> << >>]
  <2>1. hist[1].nfa_states = {machine.start_state} /\ hist[1].stack = << >>
    BY <1>1 DEF IsHistory
  <2>2. w[1] \in WalkedTo(hist, 1)
    BY <1>3, <1>8
  <2>3. w[1].cur = machine.start_state /\ w[1].construction_stack = << >>
    BY <1>4, <1>8, <2>1, <2>2 DEF WalkedTo, FitFrames
  <2> QED
    BY <1>8, <2>3
<1>12. ASSUME NEW i \in 1..n
       PROVE  Moves(machine, run[i], run[i + 1], stream[i], w[1].pss[i])
  <2>1. i \in 1..n + 1 /\ i + 1 \in 1..n + 1
    BY <1>2
  <2>2. /\ run[i].cur = w[i].cur /\ run[i].construction_stack = w[i].construction_stack
        /\ run[i + 1].cur = w[i + 1].cur
        /\ run[i + 1].construction_stack = w[i + 1].construction_stack
    BY <2>1
  <2>3. Moves(machine, w[i], w[i + 1], stream[i], w[1].pss[i])
    BY <1>9 DEF Kept
  <2> HIDE DEF run
  <2> QED
    BY <2>2, <2>3 DEF Moves
<1>13. /\ run[n + 1].construction_stack = << >> /\ run[n + 1].cur = s
       /\ w[1].pss[n + 1] = machine.final_states[s]
  <2>1. w[n + 1].cur = s /\ w[n + 1].construction_stack = << >>
    BY <1>3 DEF BackStart
  <2>2. run[n + 1].construction_stack = << >> /\ run[n + 1].cur = s
    BY <1>8, <2>1
  <2> QED
    BY <1>9, <2>1, <2>2 DEF Kept
<1> HIDE DEF run
<1>14. Spells(machine, stream, w[1].pss)
  BY <1>10, <1>11, <1>12, <1>13 DEF Spells, n
<1>15. w[1].status = "done" /\ w[1].pss \in Streams(n)
  BY <1>4, <1>8 DEF Streams
<1> QED
  BY <1>14, <1>15 DEF Backtrack, w, n

-------------------------------------------------------------------------------
(* A tree made below the children that were there *)

\* Where node x of a fresh tree is when l - 1 other nodes were there first.
Shift(x, l) == IF x = 1 THEN 1 ELSE x + l - 1
Shifted(node, l) == [node EXCEPT !.parent = Shift(@, l)]

\* The node a client passes in carries no rule.
IsRoot(node) == node.label = 0 /\ node.parent = 0

\* t holds what f does, each node but the root l - 1 places later.
Mirrors(t, f, l) ==
  /\ IsTree(t) /\ t.status = "done" /\ IsTree(f) /\ f.status = "done"
  /\ Len(t.open) = Len(f.open)
  /\ \A j \in 1..Len(f.open) : t.open[j] = Shift(f.open[j], l)
  /\ \A j \in 2..Len(f.open) : f.open[j] # 1
  /\ Len(t.nodes) = Len(f.nodes) + l - 1
  /\ t.nodes[1] = f.nodes[1] /\ IsRoot(t.nodes[1])
  /\ \A k \in 2..Len(f.nodes) :
       f.nodes[k].parent # 0 /\ t.nodes[k + l - 1] = Shifted(f.nodes[k], l)

\* One element more is the last.
LEMMA OneMoreIn ==
  ASSUME NEW S, NEW s \in Seq(S), NEW x \in S, NEW longer, longer = Append(s, x),
         NEW d, d = Len(s)
  PROVE  Len(longer) = d + 1 /\ longer[d + 1] = x /\ \A j \in 1..d : longer[j] = s[j]
OBVIOUS

\* Both open a node below the same one.
LEMMA OpenMirrors ==
  ASSUME NEW t, NEW f, NEW l \in Nat \ {0}, Mirrors(t, f, l), NEW marker \in PlacedMarker
  PROVE  Mirrors(OpenNode(t, marker), OpenNode(f, marker), l)
<1> DEFINE d == Len(f.open)
           m == Len(f.nodes)
           n == Len(t.nodes)
           node == [label |-> marker[2], start |-> marker[3], end |-> 0, parent |-> f.open[d]]
           mirrored == [label |-> marker[2], start |-> marker[3], end |-> 0, parent |-> t.open[d]]
           u == OpenNode(t, marker)
           g == OpenNode(f, marker)
<1>1. /\ IsTree(t) /\ t.status = "done" /\ IsTree(f) /\ f.status = "done" /\ Len(t.open) = d
      /\ \A j \in 1..d : t.open[j] = Shift(f.open[j], l)
      /\ \A j \in 2..d : f.open[j] # 1
      /\ n = m + l - 1 /\ t.nodes[1] = f.nodes[1] /\ IsRoot(t.nodes[1])
      /\ \A k \in 2..m : f.nodes[k].parent # 0 /\ t.nodes[k + l - 1] = Shifted(f.nodes[k], l)
  BY DEF Mirrors
<1>2. /\ t.nodes \in Seq(Node) /\ t.open \in Seq(Nat) /\ t.nodes # << >> /\ t.open # << >>
      /\ f.nodes \in Seq(Node) /\ f.open \in Seq(Nat) /\ f.nodes # << >> /\ f.open # << >>
      /\ \A j \in DOMAIN f.open : f.open[j] \in DOMAIN f.nodes
  BY <1>1 DEF IsTree, Tree
<1>3. /\ d \in Nat /\ d # 0 /\ d \in 1..d /\ m \in Nat /\ m # 0 /\ n \in Nat /\ n # 0
      /\ f.open[d] \in 1..m /\ t.open[d] = Shift(f.open[d], l)
  <2>1. d \in Nat /\ d # 0 /\ m \in Nat /\ m # 0 /\ n \in Nat /\ n # 0
    BY <1>2
  <2>2. d \in DOMAIN f.open /\ DOMAIN f.nodes = 1..m /\ d \in 1..d
    BY <1>2, <2>1
  <2> HIDE DEF d, m, n
  <2> QED
    BY <1>1, <1>2, <2>1, <2>2
<1>4. IsTree(u) /\ IsTree(g)
  BY <1>1, OpenNodeNests
<1>5. /\ u = [nodes |-> Append(t.nodes, mirrored), open |-> Append(t.open, n + 1), status |-> "done"]
      /\ g = [nodes |-> Append(f.nodes, node), open |-> Append(f.open, m + 1), status |-> "done"]
  BY <1>1, NodeOpened
<1>6. /\ Len(u.nodes) = n + 1 /\ u.nodes[n + 1] = mirrored
      /\ \A k \in 1..n : u.nodes[k] = t.nodes[k]
      /\ Len(g.nodes) = m + 1 /\ g.nodes[m + 1] = node
      /\ \A k \in 1..m : g.nodes[k] = f.nodes[k]
  <2> HIDE DEF node, mirrored, u, g
  <2>1. u.nodes = Append(t.nodes, mirrored) /\ g.nodes = Append(f.nodes, node)
    BY <1>5
  <2> QED
    BY <1>2, <2>1
<1>7. /\ Len(u.open) = d + 1 /\ u.open[d + 1] = n + 1 /\ \A j \in 1..d : u.open[j] = t.open[j]
      /\ Len(g.open) = d + 1 /\ g.open[d + 1] = m + 1 /\ \A j \in 1..d : g.open[j] = f.open[j]
  <2> HIDE DEF node, mirrored, u, g
  <2>1. u.open = Append(t.open, n + 1) /\ t.open \in Seq(Nat) /\ d = Len(t.open)
    BY <1>1, <1>2, <1>5
  <2>2. g.open = Append(f.open, m + 1) /\ f.open \in Seq(Nat) /\ d = Len(f.open)
    BY <1>2, <1>5
  <2>3. n + 1 \in Nat /\ m + 1 \in Nat
    BY <1>3
  <2> HIDE DEF d, m, n
  <2>4. Len(u.open) = d + 1 /\ u.open[d + 1] = n + 1 /\ \A j \in 1..d : u.open[j] = t.open[j]
    BY <2>1, <2>3, OneMoreIn
  <2>5. Len(g.open) = d + 1 /\ g.open[d + 1] = m + 1 /\ \A j \in 1..d : g.open[j] = f.open[j]
    BY <2>2, <2>3, OneMoreIn
  <2> QED
    BY <2>4, <2>5
<1>8. u.status = "done" /\ g.status = "done"
  BY <1>5
<1>9. mirrored = Shifted(node, l) /\ node.parent # 0
  BY <1>3 DEF Shifted
<1> HIDE DEF u, g, node, mirrored, d, m, n
<1>10. ASSUME NEW j \in 1..d + 1
       PROVE  u.open[j] = Shift(g.open[j], l) /\ (j # 1 => g.open[j] # 1)
  <2>1. CASE j = d + 1
    <3>1. n + 1 = Shift(m + 1, l) /\ m + 1 # 1
      BY <1>1, <1>3 DEF Shift
    <3> QED
      BY <1>7, <2>1, <3>1
  <2>2. CASE j # d + 1
    <3>1. j \in 1..d /\ (j # 1 => j \in 2..d)
      BY <1>3, <2>2
    <3> QED
      BY <1>1, <1>7, <3>1
  <2> QED
    BY <2>1, <2>2
<1>11. ASSUME NEW k \in 2..m + 1
       PROVE  g.nodes[k].parent # 0 /\ u.nodes[k + l - 1] = Shifted(g.nodes[k], l)
  <2>1. CASE k = m + 1
    <3>1. k + l - 1 = n + 1
      BY <1>1, <1>3, <2>1
    <3> QED
      BY <1>6, <1>9, <2>1, <3>1
  <2>2. CASE k # m + 1
    <3>1. k \in 2..m /\ k \in 1..m /\ k + l - 1 \in 1..n
      BY <1>1, <1>3, <2>2
    <3> QED
      BY <1>1, <1>6, <3>1
  <2> QED
    BY <2>1, <2>2
<1>12. u.nodes[1] = g.nodes[1] /\ IsRoot(u.nodes[1]) /\ Len(u.nodes) = Len(g.nodes) + l - 1
  <2>1. 1 \in 1..n /\ 1 \in 1..m
    BY <1>3
  <2> QED
    BY <1>1, <1>3, <1>6, <2>1
<1>13. \A j \in 2..d + 1 : j \in 1..d + 1 /\ j # 1
  BY <1>3
<1>14. Mirrors(u, g, l)
  BY <1>4, <1>6, <1>7, <1>8, <1>10, <1>11, <1>12, <1>13 DEF Mirrors
<1> QED
  BY <1>14 DEF u, g

\* Both close the same one.
LEMMA CloseMirrors ==
  ASSUME NEW t, NEW f, NEW l \in Nat \ {0}, Mirrors(t, f, l), NEW marker \in PlacedMarker,
         CloseNode(f, marker).status = "done"
  PROVE  Mirrors(CloseNode(t, marker), CloseNode(f, marker), l)
<1> DEFINE d == Len(f.open)
           m == Len(f.nodes)
           n == Len(t.nodes)
           c == f.open[d]
           b == t.open[d]
           node == [f.nodes[c] EXCEPT !.end = marker[3]]
           mirrored == [t.nodes[b] EXCEPT !.end = marker[3]]
           u == CloseNode(t, marker)
           g == CloseNode(f, marker)
<1>1. /\ IsTree(t) /\ t.status = "done" /\ IsTree(f) /\ f.status = "done" /\ Len(t.open) = d
      /\ \A j \in 1..d : t.open[j] = Shift(f.open[j], l)
      /\ \A j \in 2..d : f.open[j] # 1
      /\ n = m + l - 1 /\ t.nodes[1] = f.nodes[1] /\ IsRoot(t.nodes[1])
      /\ \A k \in 2..m : f.nodes[k].parent # 0 /\ t.nodes[k + l - 1] = Shifted(f.nodes[k], l)
  BY DEF Mirrors
<1>2. /\ t.nodes \in Seq(Node) /\ t.open \in Seq(Nat) /\ t.nodes # << >> /\ t.open # << >>
      /\ f.nodes \in Seq(Node) /\ f.open \in Seq(Nat) /\ f.nodes # << >> /\ f.open # << >>
      /\ \A j \in DOMAIN f.open : f.open[j] \in DOMAIN f.nodes
  BY <1>1 DEF IsTree, Tree
<1>3. /\ u = [nodes |-> [t.nodes EXCEPT ![b] = mirrored], open |-> SubSeq(t.open, 1, d - 1),
              status |-> IF d = 1 THEN "aborts" ELSE "done"]
      /\ g = [nodes |-> [f.nodes EXCEPT ![c] = node], open |-> SubSeq(f.open, 1, d - 1),
              status |-> IF d = 1 THEN "aborts" ELSE "done"]
  <2>1. u = [nodes |-> [t.nodes EXCEPT ![t.open[Len(t.open)]] =
                         [t.nodes[t.open[Len(t.open)]] EXCEPT !.end = marker[3]]],
             open |-> SubSeq(t.open, 1, Len(t.open) - 1),
             status |-> IF Len(t.open) = 1 THEN "aborts" ELSE "done"]
    BY <1>1, NodeClosed
  <2>2. g = [nodes |-> [f.nodes EXCEPT ![f.open[Len(f.open)]] =
                         [f.nodes[f.open[Len(f.open)]] EXCEPT !.end = marker[3]]],
             open |-> SubSeq(f.open, 1, Len(f.open) - 1),
             status |-> IF Len(f.open) = 1 THEN "aborts" ELSE "done"]
    BY <1>1, NodeClosed
  <2> HIDE DEF u, g
  <2> QED
    BY <1>1, <2>1, <2>2
<1>4. /\ d \in Nat /\ d # 0 /\ d # 1 /\ d \in 2..d /\ d \in 1..d /\ d \in DOMAIN f.open
      /\ d - 1 \in Nat
  <2>1. d # 1
    BY <1>3
  <2>2. d \in Nat /\ d # 0 /\ DOMAIN f.open = 1..d
    BY <1>2
  <2> HIDE DEF d
  <2> QED
    BY <2>1, <2>2
<1>5. /\ m \in Nat /\ m # 0 /\ n \in Nat /\ n # 0
      /\ c \in 1..m /\ c # 1 /\ c \in 2..m /\ b = c + l - 1 /\ b \in 1..n /\ b # 1
  <2>1. /\ m \in Nat /\ m # 0 /\ n \in Nat /\ n # 0 /\ c \in 1..m /\ c # 1
    <3>1. /\ m \in Nat /\ m # 0 /\ n \in Nat /\ n # 0 /\ DOMAIN f.nodes = 1..m
      BY <1>2
    <3> HIDE DEF d, m, n
    <3> QED
      BY <1>1, <1>2, <1>4, <3>1
  <2>2. b = Shift(c, l)
    BY <1>1, <1>4
  <2>3. b = c + l - 1
    BY <2>1, <2>2 DEF Shift
  <2>4. n = m + l - 1
    BY <1>1
  <2> HIDE DEF b, c, m, n
  <2> QED
    BY <2>1, <2>3, <2>4
<1>6. IsTree(u) /\ IsTree(g) /\ u.status = "done" /\ g.status = "done"
  <2>1. IsTree(u) /\ IsTree(g)
    BY <1>1, CloseNodeNests
  <2>2. u.status = "done" /\ g.status = "done"
    <3> HIDE DEF node, mirrored, b, c
    <3> QED
      BY <1>3, <1>4
  <2> QED
    BY <2>1, <2>2
<1>7. /\ mirrored = Shifted(node, l) /\ node.parent # 0
  <2>1. f.nodes[c] \in Node
    <3>1. f.nodes \in Seq(Node) /\ c \in DOMAIN f.nodes
      BY <1>2, <1>5
    <3> HIDE DEF c, m
    <3> QED
      BY <3>1
  <2>2. t.nodes[b] = Shifted(f.nodes[c], l) /\ f.nodes[c].parent # 0
    <3> HIDE DEF b, c, m, n
    <3> QED
      BY <1>1, <1>5
  <2> HIDE DEF b, c
  <2> QED
    BY <2>1, <2>2 DEF Node, Shifted
<1> HIDE DEF node, mirrored
<1>8. /\ Len(u.nodes) = n /\ u.nodes[b] = mirrored
      /\ \A k \in 1..n : k # b => u.nodes[k] = t.nodes[k]
      /\ Len(g.nodes) = m /\ g.nodes[c] = node
      /\ \A k \in 1..m : k # c => g.nodes[k] = f.nodes[k]
  <2>1. u.nodes = [t.nodes EXCEPT ![b] = mirrored] /\ g.nodes = [f.nodes EXCEPT ![c] = node]
    BY <1>3
  <2>2. DOMAIN t.nodes = 1..n /\ DOMAIN f.nodes = 1..m
    BY <1>2
  <2> HIDE DEF u, g, b, c
  <2>3. Len(u.nodes) = n /\ Len(g.nodes) = m
    BY <1>2, <1>6, <2>1 DEF IsTree, Tree
  <2> HIDE DEF m, n
  <2> QED
    BY <1>5, <2>1, <2>2, <2>3
<1>9. /\ Len(u.open) = d - 1 /\ \A j \in 1..d - 1 : u.open[j] = t.open[j]
      /\ Len(g.open) = d - 1 /\ \A j \in 1..d - 1 : g.open[j] = f.open[j]
  <2>1. u.open = SubSeq(t.open, 1, d - 1) /\ g.open = SubSeq(f.open, 1, d - 1)
    BY <1>3
  <2>2. u.open = SubSeq(t.open, 1, Len(t.open) - 1) /\ g.open = SubSeq(f.open, 1, Len(f.open) - 1)
    BY <1>1, <2>1
  <2> HIDE DEF u, g
  <2>3. Len(u.open) = Len(t.open) - 1 /\ \A j \in 1..Len(t.open) - 1 : u.open[j] = t.open[j]
    BY <1>2, <2>2, FrontProperties
  <2>4. Len(g.open) = Len(f.open) - 1 /\ \A j \in 1..Len(f.open) - 1 : g.open[j] = f.open[j]
    BY <1>2, <2>2, FrontProperties
  <2> QED
    BY <1>1, <2>3, <2>4
<1> HIDE DEF u, g, d, m, n, b, c
<1>10. ASSUME NEW j \in 1..d - 1
       PROVE  u.open[j] = Shift(g.open[j], l) /\ (j # 1 => g.open[j] # 1)
  <2>1. j \in 1..d /\ (j # 1 => j \in 2..d)
    BY <1>4
  <2> QED
    BY <1>1, <1>9, <2>1
<1>11. ASSUME NEW k \in 2..m
       PROVE  g.nodes[k].parent # 0 /\ u.nodes[k + l - 1] = Shifted(g.nodes[k], l)
  <2>1. k \in 1..m /\ k + l - 1 \in 1..n /\ (k # c => k + l - 1 # b)
    BY <1>1, <1>5
  <2>2. CASE k = c
    BY <1>5, <1>7, <1>8, <2>2
  <2>3. CASE k # c
    BY <1>1, <1>8, <2>1, <2>3
  <2> QED
    BY <2>2, <2>3
<1>12. u.nodes[1] = g.nodes[1] /\ IsRoot(u.nodes[1]) /\ Len(u.nodes) = Len(g.nodes) + l - 1
  <2>1. 1 \in 1..n /\ 1 \in 1..m
    BY <1>5
  <2> QED
    BY <1>1, <1>5, <1>8, <2>1
<1>13. \A j \in 2..d - 1 : j \in 1..d - 1 /\ j # 1
  BY <1>4
<1>14. Mirrors(u, g, l)
  BY <1>6, <1>8, <1>9, <1>10, <1>11, <1>12, <1>13 DEF Mirrors
<1> QED
  BY <1>14 DEF u, g

\* t mirrors f as far as f goes.
MirrorsIfDone(t, f, l) == IsTree(t) /\ (f.status = "done" => Mirrors(t, f, l))

\* The node ConstructTree was passed.
LEMMA RootBegins ==
  ASSUME NEW n \in Nat, NEW output \in Seq(Node), output # << >>
  PROVE  Begin(output, n).nodes[1] =
           [label |-> output[1].label, start |-> 0, end |-> n, parent |-> output[1].parent]
<1> DEFINE root == [output[1] EXCEPT !.start = 0, !.end = n]
           t == Begin(output, n)
<1>1. 1 \in DOMAIN output /\ output[1] \in Node
  OBVIOUS
<1>2. t.nodes = [output EXCEPT ![1] = root]
  BY <1>1 DEF Begin
<1> HIDE DEF t
<1>3. t.nodes[1] = root
  <2> HIDE DEF root
  <2> QED
    BY <1>1, <1>2
<1>4. root = [label |-> output[1].label, start |-> 0, end |-> n, parent |-> output[1].parent]
  <2> DEFINE first == output[1]
  <2>1. first \in Node
    BY <1>1
  <2> HIDE DEF first
  <2>2. PICK a, b, c, d : first = [label |-> a, start |-> b, end |-> c, parent |-> d]
    BY <2>1 DEF Node
  <2>3. root = [first EXCEPT !.start = 0, !.end = n]
    BY DEF first
  <2> HIDE DEF root
  <2>4. root = [label |-> a, start |-> 0, end |-> n, parent |-> d]
    BY <2>2, <2>3
  <2>5. first.label = a /\ first.parent = d
    BY <2>2
  <2> QED
    BY <2>4, <2>5 DEF first
<1> QED
  BY <1>3, <1>4 DEF t

\* What ConstructTree adds below children that were there is what it makes of the same
\* parsing streams alone.
LEMMA AddedIsFresh ==
  ASSUME NEW n \in Nat, NEW pss \in Streams(n), NEW output \in Seq(Node), output # << >>,
         IsRoot(output[1]),
         ConstructTree(pss, FreshTree).status = "done"
  PROVE  LET made == ConstructTree(pss, output)
         IN /\ made.status = "done"
            /\ IsRoot(made.nodes[1])
            /\ AddedNodes(made.nodes, Len(output)) = ConstructTree(pss, FreshTree).nodes
<1> DEFINE markers == Markers(pss)
           m == Len(markers)
           w == TreeWalk(pss, output)
           f == TreeWalk(pss, FreshTree)
           l == Len(output)
<1>1. /\ markers \in Seq(PlacedMarker) /\ m \in Nat
      /\ \A j \in 1..m : markers[j] \in PlacedMarker
  <2>1. markers \in Seq(PlacedMarker)
    BY MarkersAreOrdered DEF OrderedMarkers
  <2> QED
    BY <2>1
<1>2. /\ w[0] = Begin(output, n)
      /\ \A k \in 1..m : w[k] = ConstructMarker(w[k - 1], markers[k])
  BY TreeWalkDefined
<1>3. /\ f[0] = Begin(FreshTree, n)
      /\ \A k \in 1..m : f[k] = ConstructMarker(f[k - 1], markers[k])
  BY TreeWalkDefined, FreshTreeFits
<1>4. l \in Nat \ {0}
  OBVIOUS
<1> DEFINE X == [k \in 0..m |-> {t \in Tree : MirrorsIfDone(t, f[k], l)}]
<1>5. w[0] \in X[0]
  <2> DEFINE t == Begin(output, n)
             g == Begin(FreshTree, n)
  <2>1. IsTree(t) /\ IsTree(g)
    BY BeginIsTree, FreshTreeFits
  <2>2. /\ t.open = <<1>> /\ t.status = "done" /\ Len(t.nodes) = l
        /\ g.open = <<1>> /\ g.status = "done" /\ Len(g.nodes) = 1
    BY DEF Begin, FreshTree
  <2>3. t.nodes[1] = g.nodes[1] /\ IsRoot(t.nodes[1])
    <3>1. FreshTree[1].label = 0 /\ FreshTree[1].parent = 0
      BY DEF FreshTree
    <3>2. g.nodes[1] = [label |-> 0, start |-> 0, end |-> n, parent |-> 0]
      BY <3>1, RootBegins, FreshTreeFits
    <3>3. t.nodes[1] = [label |-> 0, start |-> 0, end |-> n, parent |-> 0]
      BY RootBegins DEF IsRoot
    <3> HIDE DEF t, g
    <3> QED
      BY <3>2, <3>3 DEF IsRoot
  <2> HIDE DEF t, g
  <2>4. /\ Len(t.open) = 1 /\ Len(g.open) = 1 /\ t.open[1] = 1 /\ g.open[1] = 1
        /\ Shift(1, l) = 1 /\ 2..1 = {} /\ l = 1 + l - 1
    BY <1>4, <2>2 DEF Shift
  <2>5. Mirrors(t, g, l)
    BY <2>1, <2>2, <2>3, <2>4 DEF Mirrors
  <2>6. t \in Tree /\ 0 \in 0..m
    BY <1>1, <2>1 DEF IsTree
  <2> HIDE DEF w, f, l, m
  <2> QED
    BY <1>2, <1>3, <2>1, <2>5, <2>6 DEF t, g, MirrorsIfDone
<1> HIDE DEF w, f, markers, m, l
<1>6. ASSUME NEW k \in 1..m, w[k - 1] \in X[k - 1]
      PROVE  w[k] \in X[k]
  <2>1. k \in 0..m /\ k - 1 \in 0..m /\ markers[k] \in PlacedMarker
    BY <1>1
  <2>2. IsTree(w[k - 1]) /\ (f[k - 1].status = "done" => Mirrors(w[k - 1], f[k - 1], l))
    BY <1>6, <2>1 DEF MirrorsIfDone
  <2> HIDE DEF X
  <2>3. IsTree(w[k])
    BY <1>2, <2>1, <2>2, ConstructMarkerNests
  <2>4. ASSUME f[k].status = "done"
        PROVE  Mirrors(w[k], f[k], l)
    <3> DEFINE t == w[k - 1]
               g == f[k - 1]
               marker == markers[k]
    <3>1. w[k] = ConstructMarker(t, marker) /\ f[k] = ConstructMarker(g, marker)
      BY <1>2, <1>3
    <3>2. IsTree(t) /\ (g.status = "done" => Mirrors(t, g, l)) /\ marker \in PlacedMarker
      BY <2>1, <2>2
    <3> HIDE DEF t, g, marker
    <3>3. g.status = "done"
      BY <2>4, <3>1 DEF ConstructMarker
    <3>4. Mirrors(t, g, l) /\ t.status = "done"
      BY <3>2, <3>3 DEF Mirrors
    <3>5. CASE marker[1] = "START"
      BY <1>4, <3>1, <3>2, <3>3, <3>4, <3>5, OpenMirrors DEF ConstructMarker
    <3>6. CASE marker[1] # "START"
      <4>1. w[k] = CloseNode(t, marker) /\ f[k] = CloseNode(g, marker)
        BY <3>1, <3>3, <3>4, <3>6 DEF ConstructMarker
      <4> QED
        BY <1>4, <2>4, <3>2, <3>4, <4>1, CloseMirrors
    <3> QED
      BY <3>5, <3>6
  <2>5. w[k] \in Tree
    BY <2>3 DEF IsTree
  <2> QED
    BY <2>1, <2>3, <2>4, <2>5 DEF X, MirrorsIfDone
<1>7. \A k \in 0..m : w[k] \in X[k]
  <2> HIDE DEF X
  <2> QED
    BY <1>1, <1>5, <1>6, FamilyInduction
<1> DEFINE t == w[m]
           g == f[m]
<1>8. f[m].status = "done" => Mirrors(w[m], f[m], l)
  <2>1. m \in 0..m
    BY <1>1
  <2> QED
    BY <1>7, <2>1 DEF MirrorsIfDone
<1>9. /\ ConstructTree(pss, FreshTree) = IF Len(g.open) = 1 /\ Len(g.nodes) > 1 THEN g
                                          ELSE [g EXCEPT !.status = "aborts"]
      /\ ConstructTree(pss, output) = IF Len(t.open) = 1 /\ Len(t.nodes) > 1 THEN t
                                       ELSE [t EXCEPT !.status = "aborts"]
  BY DEF ConstructTree, w, f, m, markers
<1>10. f[m] \in Tree
  <2>1. IsTree(TreeWalk(pss, FreshTree)[Len(Markers(pss))])
    BY TreeWalkNests, FreshTreeFits
  <2> QED
    BY <2>1 DEF IsTree, f, m, markers
<1>11. g.status = "done" /\ Len(g.open) = 1 /\ Len(g.nodes) > 1 /\ ConstructTree(pss, FreshTree) = g
  <2> HIDE DEF g
  <2>1. g \in Tree => [g EXCEPT !.status = "aborts"].status = "aborts"
    BY DEF Tree
  <2> QED
    BY <1>9, <1>10, <2>1 DEF g
<1>12. Mirrors(t, g, l)
  BY <1>8, <1>11
<1> HIDE DEF t, g
<1>13. /\ t.status = "done" /\ Len(t.open) = 1 /\ Len(t.nodes) = Len(g.nodes) + l - 1
       /\ t.nodes[1] = g.nodes[1] /\ IsRoot(t.nodes[1])
       /\ \A k \in 2..Len(g.nodes) :
            g.nodes[k].parent # 0 /\ t.nodes[k + l - 1] = Shifted(g.nodes[k], l)
       /\ t.nodes \in Seq(Node) /\ g.nodes \in Seq(Node)
  BY <1>11, <1>12 DEF Mirrors, IsTree, Tree
<1>14. ConstructTree(pss, output) = t
  BY <1>4, <1>9, <1>11, <1>13
<1>15. AddedNodes(t.nodes, l) = g.nodes
  <2> DEFINE k == Len(g.nodes) - 1
             rest == [j \in 1..k |->
                       [t.nodes[l + j] EXCEPT !.parent = IF @ = 1 THEN 1 ELSE @ - l + 1]]
  <2>1. k \in Nat /\ Len(t.nodes) - l = k /\ Len(g.nodes) = k + 1 /\ Len(t.nodes) = l + k
    BY <1>4, <1>11, <1>13
  <2>2. AddedNodes(t.nodes, l) = <<t.nodes[1]>> \o rest
    BY <2>1 DEF AddedNodes
  <2> HIDE DEF k
  <2>3. ASSUME NEW j \in 1..k
        PROVE  rest[j] = g.nodes[j + 1] /\ g.nodes[j + 1] \in Node
    <3> DEFINE node == g.nodes[j + 1]
               place == l + j
    <3>1. j + 1 \in 2..Len(g.nodes) /\ j + 1 + l - 1 = place /\ j + 1 \in 1..Len(g.nodes)
      BY <1>4, <2>1
    <3>2. node \in Node /\ node.parent # 0 /\ t.nodes[place] = Shifted(node, l)
      BY <1>13, <3>1
    <3>3. rest[j] = [t.nodes[place] EXCEPT !.parent = IF @ = 1 THEN 1 ELSE @ - l + 1]
      OBVIOUS
    <3> HIDE DEF node, place, rest
    <3>4. node.parent \in Nat \ {0}
      BY <3>2 DEF Node
    <3>5. (IF Shift(node.parent, l) = 1 THEN 1 ELSE Shift(node.parent, l) - l + 1) = node.parent
      BY <1>4, <3>4 DEF Shift
    <3>6. rest[j] = node
      <4> DEFINE q == Shift(node.parent, l)
      <4>1. t.nodes[place] = [node EXCEPT !.parent = q]
        BY <3>2 DEF Shifted
      <4>2. (IF q = 1 THEN 1 ELSE q - l + 1) = node.parent
        BY <3>5
      <4> HIDE DEF q
      <4>3. rest[j] = [node EXCEPT !.parent = node.parent]
        BY <3>2, <3>3, <4>1, <4>2 DEF Node
      <4> QED
        BY <3>2, <4>3 DEF Node
    <3> QED
      BY <3>2, <3>6 DEF node
  <2>4. rest \in Seq(Node) /\ Len(rest) = k
    <3>1. rest \in [1..k -> Node]
      <4>1. \A j \in 1..k : rest[j] \in Node
        BY <2>3
      <4> QED
        BY <4>1
    <3> HIDE DEF rest
    <3>2. rest \in Seq(Node)
      BY <2>1, <3>1, SeqDef
    <3> QED
      BY <2>1, <3>1, <3>2, LenProperties
  <2> HIDE DEF rest
  <2> DEFINE both == <<t.nodes[1]>> \o rest
  <2>5. t.nodes[1] = g.nodes[1] /\ g.nodes[1] \in Node /\ g.nodes \in Seq(Node)
    BY <1>13, <2>1
  <2>6. both \in Seq(Node) /\ Len(both) = k + 1
    BY <2>1, <2>4, <2>5
  <2>7. ASSUME NEW j \in 1..k + 1
        PROVE  both[j] = g.nodes[j]
    <3>1. CASE j = 1
      BY <2>4, <2>5, <3>1
    <3>2. CASE j # 1
      <4> DEFINE i == j - 1
      <4>1. i \in 1..k /\ j = i + 1
        BY <2>1, <3>2
      <4>2. both[j] = rest[i]
        BY <2>1, <2>4, <2>5, <3>2
      <4> HIDE DEF i, both
      <4> QED
        BY <2>3, <4>1, <4>2
    <3> QED
      BY <3>1, <3>2
  <2> HIDE DEF both
  <2>8. both = g.nodes
    BY <2>1, <2>5, <2>6, <2>7, SeqEqual
  <2> QED
    BY <2>2, <2>8 DEF both
<1> QED
  BY <1>11, <1>13, <1>14, <1>15 DEF l
================================================================================
