------------------------------ MODULE MCR1csFile ------------------------------
(***************************************************************************)
(* Circuits with two or three components, with a custom gate that is       *)
(* applied twice, and with signals from 8 on, which take two bytes of      *)
(* three bits.                                                             *)
(***************************************************************************)
EXTENDS R1csFile

Product == << 2 :> 1, 3 :> 1, 1 :> 1 >>        \* signal 2 * signal 3 = signal 1
Sum == << <<>>, <<>>, (1 :> 60) @@ (2 :> 1) @@ (0 :> 9) >>
Nothing == << <<>>, <<>>, <<>> >>

Leaf(name, n) == [name |-> name, params |-> << n >>, custom |-> FALSE, signals |-> 3,
                  ordered |-> << 1, 2, 3 >>, constraints |-> << Product, Nothing >>]
Gate(n) == [name |-> << 5 >>, params |-> << n, 9 >>, custom |-> TRUE, signals |-> 3,
            ordered |-> << 3, 1, 2 >>, constraints |-> <<>>]
Main(n) == [name |-> << 6, 7 >>, params |-> <<>>, custom |-> FALSE, signals |-> n,
            ordered |-> [k \in 1 .. n |-> k], constraints |-> << Sum, Product, Nothing >>]

Circuit(nodes, edges, prime, gates) ==
    [nodes |-> nodes, edges |-> edges, main |-> Len(nodes), prime |-> prime, pragma |-> gates,
     outputs |-> 1, publicInputs |-> 1, privateInputs |-> 1,
     simplify |-> FALSE, left |-> <<>>, kept |-> {}]

Edge(to, offset) == [to |-> to, offset |-> offset]
Trees ==
    {Circuit(<< Main(3) >>, << <<>> >>, p, g) : p \in {61, 67}, g \in BOOLEAN}
    \cup {Circuit(<< Leaf(<< 4 >>, 1), Main(3) >>, << <<>>, << Edge(1, 3), Edge(1, 6) >> >>, 61, FALSE)}
    \cup {Circuit(<< Gate(0), Gate(62), Leaf(<< 5, 4 >>, 1), Main(4) >>,
                  << <<>>, <<>>, <<>>, << Edge(2, 4), Edge(1, 7), Edge(2, 10), Edge(3, 13) >> >>, 67, TRUE)}

\* What a simplification may leave: any signals that are not forbidden may be gone, and the
\* constraints are over those that are kept.
Simplified(c, kept) ==
    LET k == Ascending(kept \ {0})
        last == k[Len(k)]
    IN [c EXCEPT !.simplify = TRUE, !.kept = kept,
                 !.left = << << last :> 1, 1 :> 2, (2 :> 7) @@ (0 :> 1) >>,
                             << <<>>, <<>>, (k[(Len(k) + 1) \div 2] :> 3) @@ (last :> 1) >> >>]
MCCircuits ==
    Trees \cup {Simplified(c, Forbidden(c) \cup (more \cap AllLabels(c))) :
                  c \in {t \in Trees : t.prime = 67 \/ ~t.pragma},
                  more \in {{}, {4}, {3, 4}, {3, 8, 9}, {4, 9}}}
===============================================================================
