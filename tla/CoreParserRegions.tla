--------------------------- MODULE CoreParserRegions ---------------------------
(***************************************************************************)
(* The inductive invariant of CoreParser, for machines that keep the        *)
(* builder's promise (WellFormed, AParseMachine).  Region[m] is the region  *)
(* map of machine m; ParserSystem checks that machines the builder makes    *)
(* have one.                                                                *)
(***************************************************************************)
EXTENDS CoreParser

CONSTANT Region

ASSUME MachinesAreWellFormed ==
  \A m \in Machines : WellFormed(m, Region[m], Alphabets)

States == DOMAIN Region[machine]

Frame == [alphabet : Alphabets, nfa_states : SUBSET States]

\* The variables have the types CoreParser declares for them.
TypeOK ==
  /\ machine \in Machines
  /\ is_valid_path_so_far \in BOOLEAN
  /\ nfa_states \in SUBSET States
  /\ stack \in Seq(Frame)
  /\ stream \in Seq(Alphabets)
  /\ stack_op_list \in Seq(StackOperationType)

\* The states at bracket depth i, from 0: those a frame keeps, or the current.
Level(i) == IF i = Len(stack) THEN nfa_states ELSE stack[i + 1].nfa_states

\* Outside all brackets the parser is in the main NFA; at depth i it is in the
\* NFAs of ents that the opening alphabet of that bracket leads to from the
\* states below.  Feed keeps this by pushing start states of those ents only,
\* and by popping back to targets of the frame's own states.
RegionsNest ==
  /\ nfa_states # {}
  /\ \A s \in Level(0) : Region[machine][s] = MainRegion
  /\ \A i \in DOMAIN stack : \A s \in Level(i) :
       \E q \in stack[i].nfa_states :
         <<"PUSH", Region[machine][s]>> \in
           GetNextStackOps(machine, q, stack[i].alphabet)

IInv == TypeOK /\ RecordsMatchStream /\ RegionsNest
================================================================================
