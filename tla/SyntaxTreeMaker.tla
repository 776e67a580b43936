---------------------------- MODULE SyntaxTreeMaker ----------------------------
(***************************************************************************)
(* ParserInstance::CreateSyntaxTree: SyntaxTreeMaker::Build walks the first *)
(* tree in parse_tree and runs the action of every node's rule after those  *)
(* of its children (include/aparse/syntax_tree_maker.hpp).  All actions     *)
(* share one ParserScope, which is filled anew before each, and which they  *)
(* may change by their questions (include/aparse/parser_scope.hpp).         *)
(*                                                                          *)
(* The value an action gives to a parse-tree node is the index of that node.*)
(* Default is the value of a node nobody gave one, or that was moved from.  *)
(* Actions belong to the client.  The type check of actions is left out.    *)
(***************************************************************************)
EXTENDS ParserScope

CONSTANTS
  Silent,      \* the labels of rules without an action
  MaxCalls     \* bound: questions an action asks its scope

VARIABLES
  frames,      \* the calls of lCreateST, outermost first
  tbc,         \* the TreeBuildingConstructs of the scope
  asked        \* how many questions the running action has asked

maker == <<frames, tbc, asked>>

Default == 0
NoScope == << >>

-------------------------------------------------------------------------------
(* lCreateST *)

Frame(n) ==
  [node |-> n, left |-> Met(n, "child"), acting |-> FALSE,
   child_st_list |-> [c \in DOMAIN Children(n) |-> Default]]

Top == Last(frames)
IsActing == frames # << >> /\ Top.acting

\* The assertion of CreateSyntaxTree: End has filled parse_tree.
CreateSyntaxTree ==
  /\ frames = << >> /\ Len(parse_tree) > 1
  /\ frames' = <<Frame(Children(1)[1])>>
  /\ UNCHANGED <<tbc, asked>>

\* Mutant: the index of the child is not incremented.
BuildChildAgain ==
  /\ frames # << >> /\ Top.left # << >>
  /\ frames' = Append(frames, Frame(Head(Top.left)))
  /\ UNCHANGED <<tbc, asked>>

BuildChild ==
  /\ frames # << >> /\ Top.left # << >>
  /\ frames' = Append([frames EXCEPT ![Len(frames)].left = Tail(@)], Frame(Head(Top.left)))
  /\ UNCHANGED <<tbc, asked>>

CanFill(n) == \A s \in ToSet(Met(n, "token")) : s < Len(stream)

\* Mutant: Clear forgets child_st_list_1, which push_back then goes on filling.
BeginActionKeeping ==
  LET old == IF tbc = NoScope THEN << >> ELSE tbc.child_st_list_1
      fresh == ScopeFor(Top.node, Top.child_st_list)
  IN /\ frames # << >> /\ Top.left = << >> /\ ~Top.acting
     /\ CanFill(Top.node)
     /\ tbc' = [fresh EXCEPT !.child_st_list_1 = @ @@ old]
     /\ frames' = [frames EXCEPT ![Len(frames)].acting = TRUE]
     /\ UNCHANGED asked

BeginAction ==
  /\ frames # << >> /\ Top.left = << >> /\ ~Top.acting
  /\ CanFill(Top.node)
  /\ tbc' = ScopeFor(Top.node, Top.child_st_list)
  /\ frames' = [frames EXCEPT ![Len(frames)].acting = TRUE]
  /\ UNCHANGED asked

\* stream.at(s) throws: the tree is of another stream.  The client gets the
\* exception out of CreateSyntaxTree.
BuildThrows ==
  /\ frames # << >> /\ Top.left = << >> /\ ~Top.acting
  /\ ~CanFill(Top.node)
  /\ frames' = << >> /\ tbc' = NoScope /\ UNCHANGED asked

\* The action is over; its value goes to the caller's list, or to the client,
\* with whose output the scope of CreateSyntaxTree ends.
EndAction ==
  LET n == Top.node
      value == IF parse_tree[n].label \in Silent THEN Default ELSE n
      caller == Len(frames) - 1
      place == CHOOSE c \in DOMAIN Children(parse_tree[n].parent) :
                 Children(parse_tree[n].parent)[c] = n
  IN /\ IsActing
     /\ asked' = 0
     /\ IF caller = 0 THEN frames' = << >> /\ tbc' = NoScope
        ELSE /\ frames' = [Front(frames) EXCEPT ![caller].child_st_list[place] = value]
             /\ UNCHANGED tbc

\* ValueList(index) makes an entry for the term, and moves the values out of
\* child_st_list_2 unless they are all there is.  No other question leaves a
\* trace in the scope.
AfterValueList(i) ==
  LET values == tbc.child_st_list_2
      instances == Instances(tbc, i)
      moved == IF Len(instances) = Len(values) THEN {} ELSE ToSet(instances)
  IN [tbc EXCEPT !.child_st_list_1 = (tbc.rule_atoms[i] :> instances) @@ @,
                 !.child_st_list_2 = [c \in DOMAIN values |->
                                        IF c \in moved THEN Default ELSE values[c]]]

AskValueList ==
  /\ IsActing /\ parse_tree[Top.node].label \notin Silent
  /\ asked < MaxCalls
  /\ \E i \in DOMAIN tbc.rule_atoms : tbc' = AfterValueList(i)
  /\ asked' = asked + 1
  /\ UNCHANGED frames

MakerNext ==
  \/ CreateSyntaxTree \/ BuildChild \/ BeginAction \/ BuildThrows \/ EndAction
  \/ AskValueList

\* The other operations of a client wait until CreateSyntaxTree returns.
MakerInit == ClientStart /\ frames = << >> /\ tbc = NoScope /\ asked = 0
MakerClientNext ==
  \/ frames = << >> /\ ClientNext /\ UNCHANGED maker
  \/ MakerNext /\ UNCHANGED system_vars
MakerSpec == MakerInit /\ [][MakerClientNext]_<<system_vars, maker>>

\* Build goes on by itself, and an action of the client ends.  No one has to
\* call CreateSyntaxTree, and no action has to ask.
Walk == (BuildChild \/ BeginAction \/ BuildThrows \/ EndAction) /\ UNCHANGED system_vars
FairMakerSpec == MakerSpec /\ WF_maker(Walk)

-------------------------------------------------------------------------------

\* What the value of node n has to be when the action of its parent runs.
Expected(n) == IF parse_tree[n].label \in Silent THEN Default ELSE n

\* The scope shows node n, as the stream and the parse tree have it: the values of its
\* children, complete, in order and per term, and where each alphabet is.
ShowsInstance(n) ==
  LET kids == Children(n)
      inKids(s) == \E m \in ToSet(kids) : parse_tree[m].start <= s /\ s < parse_tree[m].end
      own == {s \in parse_tree[n].start..parse_tree[n].end - 1 : ~inKids(s)}
  IN /\ tbc.child_st_list_2 = [c \in DOMAIN kids |-> Expected(kids[c])]
     /\ tbc.token_list_2 = [k \in 1..Cardinality(own) |-> stream[SetToSortSeq(own, <)[k] + 1]]
     /\ \A i \in DOMAIN tbc.rule_atoms :
          LET term == tbc.rule_atoms[i]
              instances == SelectSeq(kids, LAMBDA m : RuleNonTerminal(m) = term)
              places == SetToSortSeq({s \in own : stream[s + 1] = term}, <)
          IN /\ ValueList(tbc, i) = [k \in DOMAIN instances |-> Expected(instances[k])]
             /\ AlphabetIndexList(tbc, i) = places
             /\ Exists(tbc, i) <=> instances # << >> \/ places # << >>

\* Every action starts with a scope that shows its own instance of its rule, with all
\* nodes below it constructed ("This action can safely assume that underlying node of
\* syntax-tree are already constructed", docs/aparse_cpp.md, and "ParserScope APIs").
ActionsSeeTheirInstance == IsActing /\ asked = 0 => ShowsInstance(Top.node)

\* An instance of the empty string at the very end of its parent: the loops of
\* lCreateST stop before they meet it.
IsMissed(n) == parse_tree[n].start = parse_tree[parse_tree[n].parent].end

\* So it is for every instance with no such child, wherever in the tree it is:
\* whatever other actions asked, whatever children others have and whatever was fed
\* after End does not show in its scope (docs/aparse_cpp.md, "ParserScope General Rules").
ActionsSeeWhatIsMet ==
  IsActing /\ asked = 0 /\ (\A m \in ToSet(Children(Top.node)) : ~IsMissed(m)) =>
    ShowsInstance(Top.node)

\* CreateSyntaxTree returns, with a value or with an exception, whatever the
\* tree is and whatever the actions ask on the way.
WalkReturns == frames # << >> ~> frames = << >>
================================================================================
