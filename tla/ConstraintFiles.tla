--------------------------- MODULE ConstraintFiles ----------------------------
(***************************************************************************)
(* What the .r1cs and .sym files say of a circuit.  Without simplification *)
(* the tree of components is written as it is (dag); otherwise the list of *)
(* constraints that is left, and the signals that are left in the witness  *)
(* (list).                                                                 *)
(*                                                                         *)
(* Signals are numbered through the tree: a component's signal is its      *)
(* offset plus the signal's number in the template, 0 is the constant one. *)
(* A linear combination maps signals to coefficients that are not 0, a     *)
(* constraint << a, b, c >> states a * b = c.                              *)
(***************************************************************************)
EXTENDS Integers, Sequences, FiniteSets, SequencesExt, FiniteSetsExt, TLC

\* A circuit has nodes [name, params, custom, signals, ordered, constraints], the edges
\* [to, offset] of each node, main, the prime, the counts of the main component's signals,
\* simplify and, if so, the constraints that are left and the signals that are kept.
CONSTANT Circuits

Ascending(S) ==
    [k \in 1 .. Cardinality(S) |-> CHOOSE s \in S : Cardinality({t \in S : t < s}) = k - 1]

RECURSIVE Visits(_, _, _)

\* Tree::go_to_subtree and EncodingIterator::next: the components, parents before children.
Visits(c, node, offset) ==
    << [node |-> node, offset |-> offset] >>
    \o FlattenSeq([k \in DOMAIN c.edges[node] |->
                     Visits(c, c.edges[node][k].to, offset + c.edges[node][k].offset)])
Tree(c) == Visits(c, c.main, 0)

Labels(c, v) == {v.offset + s : s \in 1 .. c.nodes[v.node].signals}
AllLabels(c) == {0} \cup UNION {Labels(c, v) : v \in ToSet(Tree(c))}
Shift(s, offset) == IF s = 0 THEN 0 ELSE s + offset

\* apply_raw_correspondence, and the offset as a correspondence.
Rename(f, to) == [w \in {to[s] : s \in DOMAIN f} |-> f[CHOOSE s \in DOMAIN f : to[s] = w]]
RenameConstraint(k, to) == [i \in 1 .. 3 |-> Rename(k[i], to)]
ApplyOffset(k, offset) ==
    [i \in 1 .. 3 |-> Rename(k[i], [s \in DOMAIN k[i] |-> Shift(s, offset)])]

\* Variant: the constraints of a component keep the numbers of its template.
UnshiftedConstraints(c, v) == c.nodes[v.node].constraints

\* The constraints of a component; empty ones are left out, but for the main component.
ConstraintsOf(c, v) ==
    LET shifted == [k \in DOMAIN c.nodes[v.node].constraints |->
                      ApplyOffset(c.nodes[v.node].constraints[k], v.offset)]
    IN IF v.offset = 0 THEN shifted
       ELSE SelectSeq(shifted, LAMBDA k : \E i \in 1 .. 3 : DOMAIN k[i] # {})

\* forbidden_if_main and map_tree: signals that stay in the witness.
Forbidden(c) ==
    (0 .. (c.outputs + c.publicInputs))
    \cup UNION {Labels(c, v) : v \in {u \in ToSet(Tree(c)) : c.nodes[u.node].custom}}

\* rebuild_witness: the signals that are left are numbered without gaps, in order.
SignalMap(c) == [s \in c.kept |-> Cardinality({t \in c.kept : t < s})]

Wire(c, s) == IF c.simplify THEN SignalMap(c)[s] ELSE s

\* write_constraint_section and port_r1cs.
Constraints(c) ==
    IF c.simplify
    THEN [k \in DOMAIN c.left |-> RenameConstraint(c.left[k], SignalMap(c))]
    ELSE FlattenSeq([k \in DOMAIN Tree(c) |-> ConstraintsOf(c, Tree(c)[k])])

\* get_witness_as_vec, or all signals.
Witness(c) == IF c.simplify THEN Ascending(c.kept) ELSE Ascending(AllLabels(c))

Header(c) == [prime |-> c.prime, wires |-> Len(Witness(c)), outputs |-> c.outputs,
              publicInputs |-> c.publicInputs, privateInputs |-> c.privateInputs,
              labels |-> Cardinality(AllLabels(c)), constraints |-> Len(Constraints(c))]

-----------------------------------------------------------------------------
(* Custom gates: the templates that are used, and where each is applied.     *)

FullName(n) == << n.name, n.params >>
Used(c) == SelectSeq(c.nodes, LAMBDA n : n.custom)
Usages(c) == [k \in DOMAIN Used(c) |-> FullName(Used(c)[k])]

Applied(c) == SelectSeq(Tree(c), LAMBDA v : c.nodes[v.node].custom)
GateLabels(c, v) == [k \in DOMAIN c.nodes[v.node].ordered |-> c.nodes[v.node].ordered[k] + v.offset]

\* map.get(..).unwrap(): the signals of all gates are in the witness.
GatesHaveWires(c) ==
    c.simplify => \A v \in ToSet(Applied(c)) : ToSet(GateLabels(c, v)) \subseteq c.kept

\* find_indexes: the first one, counted from 0.
IndexOf(c, v) ==
    Min({k \in DOMAIN Usages(c) : Usages(c)[k] = FullName(c.nodes[v.node])}) - 1

Applications(c) ==
    [k \in DOMAIN Applied(c) |->
       LET v == Applied(c)[k]
       IN << IndexOf(c, v), [i \in DOMAIN GateLabels(c, v) |-> Wire(c, GateLabels(c, v)[i])] >>]

-----------------------------------------------------------------------------
(* The lines of the .sym file: a signal, its place in the witness, and the   *)
(* node of its component.                                                    *)

\* Variant: the place of a signal is its number.
NumberAsPlace(c, s) == s

\* IteratorSignal::new and visit_tree.
Place(c, s) == IF c.simplify /\ s \notin c.kept THEN -1 ELSE Wire(c, s)

SymLines(c) ==
    FlattenSeq([k \in DOMAIN Tree(c) |->
       LET v == Tree(c)[k]
           labels == Ascending(Labels(c, v))
       IN [i \in DOMAIN labels |-> [original |-> labels[i], witness |-> Place(c, labels[i]),
                                    node |-> v.node]]])
===============================================================================
