------------------------------- MODULE ValueStore -------------------------------
(***************************************************************************)
(* What utils::any promises: variables that are empty or hold a value of a  *)
(* type of their own.  Copies are equal and independent, and a value is     *)
(* read and written only as what it is.                                     *)
(***************************************************************************)
CONSTANTS Objects, Types, Data, Empty

VARIABLE contents

Held == [type : Types, value : Data]

Put(a, c) == contents' = [contents EXCEPT ![a] = c]

Move(a, b) ==
  contents' = IF a = b THEN contents
              ELSE [contents EXCEPT ![a] = contents[b], ![b] = Empty]

Write(a, type, v) ==
  /\ contents[a] # Empty /\ contents[a].type = type
  /\ Put(a, [type |-> type, value |-> v])

Init == contents = [a \in Objects |-> Empty]

Next ==
  \/ \E a \in Objects, c \in Held \cup {Empty} : Put(a, c)
  \/ \E a, b \in Objects : Put(a, contents[b]) \/ Move(a, b)
  \/ \E a \in Objects, type \in Types, v \in Data : Write(a, type, v)

Spec == Init /\ [][Next]_contents
================================================================================
