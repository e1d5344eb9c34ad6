--------------------- MODULE MCConstraintSimplification ---------------------
(* Instances of ConstraintSimplification for TLC: every circuit with a few *)
(* constraints out of a list, over the field of three elements.            *)
EXTENDS ConstraintSimplification

Lin(e) == LinearConstraint(e)
Sig(s) == s :> 1
Eq(s, t)   == Lin((s :> 1) @@ (t :> 2))
Const(s, k) == Lin(IF k = 0 THEN Sig(s) ELSE (s :> 1) @@ (One :> (3 - k)))
Prod(a, b, c) == [a |-> a, b |-> b, c |-> c]

\* Signal 1 is the output, 2 the private input.
Catalog == <<
    Eq(1, 3), Eq(2, 3), Eq(3, 4), Eq(1, 2),
    Const(3, 1), Const(4, 2), Const(2, 0), Const(1, 1),
    Lin((1 :> 1) @@ (3 :> 2) @@ (4 :> 2)),
    Lin((2 :> 1) @@ (3 :> 1) @@ (4 :> 1) @@ (One :> 1)),
    Lin((3 :> 2) @@ (4 :> 1) @@ (One :> 1)),
    Lin((2 :> 1) @@ (4 :> 1)),
    Prod(Sig(3), Sig(4), Sig(1)),
    Prod(Sig(2), Sig(3), Sig(4)),
    Prod((3 :> 1) @@ (One :> 1), Sig(4), (2 :> 1) @@ (One :> 1)),
    Prod(Sig(2), Sig(2), Sig(1)),
    Prod(Sig(4), (One :> 2), Sig(3)) >>

Picks(n) == {p \in [1..n -> DOMAIN Catalog] : \A i \in 1..n - 1 : p[i] <= p[i + 1]}
Picked(n, gates) ==
    {[constraints |-> [i \in 1..n |-> Catalog[p[i]]], customGates |-> gates] : p \in Picks(n)}

\* Each substitution makes the next product linear, so that O2 needs three rounds.
Chain == [constraints |->
             <<Const(4, 1), Prod(Sig(4), Sig(3), Sig(2)),
               Prod((3 :> 1) @@ (2 :> 2) @@ (One :> 1), Sig(2), Sig(1)),
               Prod((2 :> 1) @@ (1 :> 2) @@ (One :> 1), Sig(1), Sig(1))>>,
          customGates |-> {}]

Triples     == Picked(3, {})
AllCircuits == Picked(2, {}) \cup Triples \cup Picked(4, {}) \cup Picked(3, {4}) \cup {Chain}
O1        == [linear |-> FALSE, rounds |-> 0, old |-> FALSE]
O2        == [linear |-> TRUE, rounds |-> MaxRounds, old |-> FALSE]
O2Old     == [linear |-> TRUE, rounds |-> MaxRounds, old |-> TRUE]
O2Round2  == [linear |-> TRUE, rounds |-> 2, old |-> TRUE]
AllOptions == {O1, O2, O2Old, O2Round2}
=============================================================================
