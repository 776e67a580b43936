--------------------------------- MODULE Regex ---------------------------------
(***************************************************************************)
(* include/aparse/regex.hpp: the tree of a rule's right hand side, and      *)
(* include/aparse/aparse_grammar.hpp: a grammar made of such rules.         *)
(*                                                                          *)
(* alphabet is meaningful in an ATOMIC regex only: a terminal when it is    *)
(* below the grammar's alphabet_size, else a non-terminal.  A grammar is a  *)
(* record [alphabet_size, main_non_terminal, branching_alphabets, rules]:   *)
(* branching_alphabets maps an opening to its closing alphabet, rules is a  *)
(* sequence of <<non-terminal, regex>>; rule number i of the code (from 0)  *)
(* is rules[i + 1].                                                         *)
(***************************************************************************)
EXTENDS Integers, Sequences

Node(type, children) ==
  [type |-> type, alphabet |-> 0, children |-> children, label |-> 0]

Eps == Node("EPSILON", << >>)
Atom(a) == [Node("ATOMIC", << >>) EXCEPT !.alphabet = a]
Alt(rs) == Node("UNION", rs)
Cat(rs) == Node("CONCAT", rs)
Star(r) == Node("KSTAR", <<r>>)
Plus(r) == Node("KPLUS", <<r>>)

\* helpers::GetRegexAtoms: every alphabet and non-terminal a regex mentions.
RECURSIVE Atoms(_)
Atoms(r) == IF r.type = "ATOMIC" THEN {r.alphabet}
            ELSE UNION {Atoms(r.children[i]) : i \in DOMAIN r.children}

NonTerminals(g) == {g.rules[i][1] : i \in DOMAIN g.rules}
================================================================================
