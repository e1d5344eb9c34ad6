------------------------- MODULE MCComponentCreation --------------------------
(***************************************************************************)
(* Small circuits of four templates: two leaves (with plain signals,       *)
(* arrays, buses in buses, or no inputs), a middle template and main, each *)
(* of the last two with components of one or of two templates, complete    *)
(* and partial arrays, parallel ones, created in any order.                *)
(***************************************************************************)
EXTENDS ComponentCreation

Wire(name, kind, dims, bus) == [name |-> name, kind |-> kind, dims |-> dims, bus |-> bus]
Field(dims, bus) == [dims |-> dims, bus |-> bus]

\* P has a signal and an array of two, Q an array of P between two signals.
MCBuses == << << Field(<<>>, 0), Field(<<2>>, 0) >>,
              << Field(<<>>, 0), Field(<<2>>, 1), Field(<<>>, 0) >> >>
MCComponentNames == <<"b", "c", "d">>

LeafWires(n) == {
    << Wire("i", "input", <<>>, 0), Wire("m", "intermediate", <<2>>, 0),
       Wire("o", "output", <<n>>, 0) >>,
    << Wire("i", "input", <<2, n>>, 0), Wire("o", "output", <<>>, 0) >>,
    << Wire("i", "input", <<n>>, 2), Wire("o", "output", <<>>, 1) >>,
    << Wire("i", "input", <<n, 2>>, 1), Wire("o", "output", <<2, n, 2>>, 0) >>}
NoInputWires == << Wire("m", "intermediate", <<>>, 0), Wire("o", "output", <<2>>, 0) >>

Template(name, wires, public, components, arrows, parallel) ==
    [name |-> name, wires |-> wires, public |-> public, components |-> components,
     arrows |-> arrows, parallel |-> parallel, constraints |-> <<>>]

Arrow(c, index, to, parallel) ==
    [cmp |-> c, index |-> index, to |-> to, parallel |-> parallel]
Component(name, dims) == [name |-> name, dims |-> dims]

\* The ways a template uses x and y, or x and both of the templates one and two.
Uses(x, y, one, two) == {
    [components |-> <<Component("c", <<>>), Component("b", <<>>)>>,
     arrows |-> <<Arrow("c", <<>>, x, FALSE), Arrow("b", <<>>, y, TRUE)>>],
    [components |-> <<Component("d", <<2, 2>>), Component("c", <<>>), Component("b", <<3>>)>>,
     arrows |-> <<Arrow("d", <<1, 0>>, x, FALSE), Arrow("c", <<>>, y, FALSE),
                  Arrow("d", <<0, 1>>, x, TRUE)>>],
    [components |-> <<Component("c", <<2>>), Component("b", <<2>>)>>,
     arrows |-> <<Arrow("c", <<1>>, two, FALSE), Arrow("b", <<1>>, x, FALSE),
                  Arrow("c", <<0>>, one, FALSE), Arrow("b", <<0>>, x, FALSE)>>]}

MainWires == << Wire("s", "input", <<>>, 0), Wire("p", "input", <<2>>, 0),
                Wire("m", "intermediate", <<>>, 0), Wire("o", "output", <<>>, 1) >>
MidWires == << Wire("i", "input", <<>>, 0), Wire("m", "intermediate", <<>>, 0),
               Wire("o", "output", <<>>, 0) >>

\* Constraints: one on the template's own wires, one on its first component.
WithConstraints(p) ==
    [k \in 1 .. Len(p) |->
        LET t == p[k]
            own == UNION {Range(Symbols(w)) : w \in {x \in Range(t.wires) : x.name # "m"}}
            io(a) == UNION {{InComponent(s, a) : s \in Range(Symbols(w))} :
                         w \in {x \in Range(p[a.to].wires) : x.kind # "intermediate"}}
        IN  [t EXCEPT !.constraints = <<own, IF t.arrows = <<>> THEN {} ELSE io(t.arrows[1])>>]]

MCPrograms ==
    UNION {UNION {
        LET first == Template("A", l[1], {}, <<>>, <<>>, par)
            second == Template("A", l[2], {}, <<>>, <<>>, FALSE)
            mid == Template("M", MidWires, {}, u.components, u.arrows, FALSE)
        IN  {WithConstraints(<<first, second, mid,
                 Template("Main", MainWires, {"p"}, v.components, v.arrows, FALSE)>>) :
                v \in Uses(3, 1, 1, 2)}
        : u \in Uses(1, 2, 1, 2), par \in BOOLEAN}
        : l \in {<<a, b>> : a \in LeafWires(1), b \in LeafWires(2)}
                \union {<<NoInputWires, NoInputWires>>}}

\* Mixed arrays only combine leaves with the same wires and numbers of dimensions.
MixedPrograms ==
    {p \in MCPrograms :
        LET compatible(i, j) ==
                /\ Len(p[i].wires) = Len(p[j].wires)
                /\ \A k \in 1 .. Len(p[i].wires) :
                      /\ p[i].wires[k].name = p[j].wires[k].name
                      /\ p[i].wires[k].bus = p[j].wires[k].bus
                      /\ Len(p[i].wires[k].dims) = Len(p[j].wires[k].dims)
                /\ p[i].name = p[j].name
        IN  \A k \in 1 .. 4 : \A i, j \in 1 .. Len(p[k].arrows) :
                p[k].arrows[i].cmp = p[k].arrows[j].cmp
                    => compatible(p[k].arrows[i].to, p[k].arrows[j].to)}
=============================================================================
