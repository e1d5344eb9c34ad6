---------------------------- MODULE MCMainInputs ----------------------------
(* Instances of MainInputs for TLC.  Signal 0 is the constant one, and the   *)
(* outputs of the main component come before its inputs.                     *)
EXTENDS MainInputs

E(n, s, k) == [name |-> n, start |-> s, size |-> k]

\* `input Point a` with fields x and y, under all three of its names
Bus == <<E("a.x", 1, 1), E("a.y", 2, 1), E("a", 1, 2)>>
\* `input Wrapped a` with its one field x, and another signal: a document may
\* name a.x twice and leave b out
Wrapped == <<E("a.x", 1, 1), E("a", 1, 1), E("b", 2, 1)>>
\* an array of two elements and a signal, after one output
Array == <<E("a", 2, 2), E("b", 4, 1)>>
\* a main component whose only input is an array of length zero
Empty == <<E("a", 1, 0)>>

Names        == {"a.x", "a.y", "a", "b"}
FewNames     == {"a", "b", "c"}
AllCircuits  == {Bus, Wrapped, Array, <<>>}
EmptyCircuit == {Empty}
=============================================================================
