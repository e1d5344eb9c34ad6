--------------------------- MODULE SignalNumbering ----------------------------
(***************************************************************************)
(* How every signal of a circuit gets its number.  The executed templates  *)
(* (src/constraint_generation/src/execution_data/executed_template.rs) are *)
(* inserted into the DAG one after the other (src/dag/src/lib.rs): each    *)
(* node numbers its own signals and, behind them, those of its             *)
(* subcomponents.  Then each is exported a second time, to the template    *)
(* instance the code is generated from, with offsets of its own.  The two  *)
(* numberings have to agree, and nothing in the code compares them.        *)
(*                                                                         *)
(* A signal's name is a record: the component it is in (None and <<>> for  *)
(* the template's own signals), the wire, the indexes of each access and   *)
(* the fields between them; formatted, they are the strings of the code.   *)
(***************************************************************************)
EXTENDS Integers, Sequences, FiniteSets, FiniteSetsExt, SequencesExt, Functions

CONSTANTS
    Programs,        \* executed programs: sequences of templates, main last
    Buses,           \* the executed buses, each a sequence of fields
    ComponentNames   \* the names of the components, in the order of strings

None == "none"

VARIABLES
    prog,            \* the executed program
    nodes,           \* DAG.nodes, with the edges of each
    connexions,      \* ExecutedTemplate.connexions of the inserted templates
    insts            \* the template instances exported so far

numbering == <<prog, nodes, connexions, insts>>

-----------------------------------------------------------------------------
\* Wires, buses and the names of their signals.

Product(dims) == FoldLeft(LAMBDA p, c : p * c, 1, dims)

\* The number of signals of a bus; bus 0 stands for a plain signal.
BusSize ==
    LET size[b \in 0 .. Len(Buses)] ==
            IF b = 0 THEN 1
            ELSE FoldLeft(LAMBDA n, f : n + Product(f.dims) * size[f.bus], 0, Buses[b])
    IN  size

WireSize(w) == Product(w.dims) * BusSize[w.bus]

\* A field of a bus with its place in it (BusInstance, FieldInfo).
FieldInfo(b, i) ==
    [offset |-> FoldLeft(LAMBDA n, f : n + WireSize(f), 0, SubSeq(Buses[b], 1, i - 1)),
     size   |-> WireSize(Buses[b][i]),
     dims   |-> Buses[b][i].dims,
     bus    |-> Buses[b][i].bus]

RECURSIVE Positions(_)
\* The positions of an array, in the order the code visits them.
Positions(dims) ==
    IF dims = <<>> THEN << <<>> >>
    ELSE LET rest == Positions(Tail(dims))
         IN  FlattenSeq([i \in 1 .. Head(dims) |->
                 [k \in 1 .. Len(rest) |-> <<i - 1>> \o rest[k]]])

RECURSIVE SymbolsFrom(_, _)
(***************************************************************************)
(* generate_symbols and generate_bus_symbols: the signals of a wire (or of *)
(* a field), array positions before fields; sym is the name so far.        *)
(***************************************************************************)
SymbolsFrom(sym, w) ==
    LET at(pos) == [sym EXCEPT !.idx = Append(@, pos)]
        inBus(pos, i) == SymbolsFrom([at(pos) EXCEPT !.fields = Append(@, i)], Buses[w.bus][i])
        positions == Positions(w.dims)
    IN  FlattenSeq([k \in 1 .. Len(positions) |->
            IF w.bus = 0 THEN << at(positions[k]) >>
            ELSE FlattenSeq([i \in 1 .. Len(Buses[w.bus]) |-> inBus(positions[k], i)])])

Symbols(w) ==
    SymbolsFrom([cmp |-> None, index |-> <<>>, wire |-> w.name, idx |-> <<>>, fields |-> <<>>], w)

InComponent(sym, c) == [sym EXCEPT !.cmp = c.cmp, !.index = c.index]

-----------------------------------------------------------------------------
\* The executed templates: wires by kind, the public inputs before the others.

OfKind(t, kind) == SelectSeq(t.wires, LAMBDA w : w.kind = kind)
PublicInputs(t) == SelectSeq(OfKind(t, "input"), LAMBDA w : w.name \in t.public)
PrivateInputs(t) == SelectSeq(OfKind(t, "input"), LAMBDA w : w.name \notin t.public)

\* A variant: public inputs are not moved before the others.
WiresAsDeclared(t) == OfKind(t, "output") \o OfKind(t, "input") \o OfKind(t, "intermediate")

WiresInOrder(t) ==
    OfKind(t, "output") \o PublicInputs(t) \o PrivateInputs(t) \o OfKind(t, "intermediate")

Rank(name) == CHOOSE i \in 1 .. Len(ComponentNames) : ComponentNames[i] = name

\* The order of usize sequences.
IndexBefore(a, b) ==
    \/ Len(a) < Len(b) /\ IsPrefix(a, b)
    \/ \E k \in 1 .. Len(a) : /\ k <= Len(b)
                              /\ a[k] < b[k]
                              /\ SubSeq(a, 1, k - 1) = SubSeq(b, 1, k - 1)

ConnexionBefore(a, b) ==
    \/ Rank(a.cmp) < Rank(b.cmp)
    \/ a.cmp = b.cmp /\ IndexBefore(a.index, b.index)

SortedArrows(t) == SortSeq(t.arrows, ConnexionBefore)

\* filter_used_components: declared components that were created at least once.
UsedComponents(t) ==
    SelectSeq(t.components, LAMBDA c : \E i \in 1 .. Len(t.arrows) : t.arrows[i].cmp = c.name)

NumberOfComponents(t) ==
    FoldLeft(LAMBDA n, c : n + Product(c.dims), 0, UsedComponents(t))

-----------------------------------------------------------------------------
\* The DAG.

NewNode(t) ==
    [signals |-> 0, components |-> 1, outNumber |-> 0, outComponent |-> 0,
     inputs |-> 0, outputs |-> 0, publicInputs |-> 0, intermediates |-> 0,
     correspondence |-> <<>>, locals |-> {}, reachables |-> {}, forbidden |-> {0},
     constraints |-> <<>>, subindexes |-> 0, edges |-> <<>>,
     isParallel |-> t.parallel, hasParallelSub |-> FALSE]

Count(flag) == IF flag THEN 1 ELSE 0

\* Node::add_output, add_input and add_intermediate.
AddSignal(node, sym, kind, public) ==
    LET id == node.signals + 1
    IN  [node EXCEPT !.signals = id,
                     !.outNumber = @ + 1,
                     !.correspondence = @ @@ (sym :> id),
                     !.locals = @ \union {id},
                     !.reachables = @ \union {id},
                     !.forbidden = @ \union (IF kind = "output" \/ public THEN {id} ELSE {}),
                     !.inputs = @ + Count(kind = "input"),
                     !.outputs = @ + Count(kind = "output"),
                     !.publicInputs = @ + Count(public),
                     !.intermediates = @ + Count(kind = "intermediate")]

BuildWires(t) ==
    LET addWire(node, w) ==
            FoldLeft(LAMBDA n, sym : AddSignal(n, sym, w.kind,
                                               w.kind = "input" /\ w.name \in t.public),
                     node, Symbols(w))
    IN  FoldLeft(addWire, NewNode(t), WiresInOrder(t))

\* A variant: the last input or output is taken for an intermediate signal.
AddEdgeOffByOne(node, to, arrow) ==
    LET in == node.signals
        own == {s \in DOMAIN to.correspondence : to.correspondence[s] \in to.locals}
        seen == [s \in {InComponent(sym, arrow) : sym \in own} |->
                    in + to.correspondence[InComponent(s, [cmp |-> None, index |-> <<>>])]]
    IN  [node EXCEPT
            !.signals = @ + to.signals,
            !.outNumber = @ + to.signals,
            !.components = @ + to.components,
            !.outComponent = @ + to.components,
            !.hasParallelSub = @ \/ to.isParallel \/ arrow.parallel,
            !.correspondence = @ @@ seen,
            !.reachables = @ \union {in + id : id \in {i \in to.locals :
                                                          i < to.inputs + to.outputs}},
            !.edges = Append(@, [to |-> arrow.to, inNumber |-> in,
                                 inComponent |-> node.components])]

(***************************************************************************)
(* DAG::add_edge: the signals of the subcomponent get the numbers behind   *)
(* those its parent has so far; its own signals become names of the parent *)
(* and its inputs and outputs, told by their numbers, reachable.           *)
(***************************************************************************)
AddEdge(node, to, arrow) ==
    LET in == node.signals
        own == {s \in DOMAIN to.correspondence : to.correspondence[s] \in to.locals}
        seen == [s \in {InComponent(sym, arrow) : sym \in own} |->
                    in + to.correspondence[InComponent(s, [cmp |-> None, index |-> <<>>])]]
        isIO(id) == id <= to.inputs + to.outputs
    IN  [node EXCEPT
            !.signals = @ + to.signals,
            !.outNumber = @ + to.signals,
            !.components = @ + to.components,
            !.outComponent = @ + to.components,
            !.hasParallelSub = @ \/ to.isParallel \/ arrow.parallel,
            !.correspondence = @ @@ seen,
            !.reachables = @ \union {in + id : id \in {i \in to.locals : isIO(i)}},
            !.edges = Append(@, [to |-> arrow.to, inNumber |-> in,
                                 inComponent |-> node.components])]

(***************************************************************************)
(* build_connexions: an edge per created component, in the order of names  *)
(* and indexes; the offsets are read from the node's entry edge.           *)
(***************************************************************************)
BuildConnexions(node, t) ==
    LET connect(s, arrow) ==
            LET after == AddEdge(s.node, nodes[arrow.to], arrow)
            IN  [node |-> after,
                 cnx  |-> Append(s.cnx,
                    [cmp |-> arrow.cmp, index |-> arrow.index, to |-> arrow.to,
                     parallel |-> arrow.parallel,
                     offset |-> s.node.outNumber,
                     componentOffset |-> s.node.outComponent,
                     jump |-> after.outNumber - s.node.outNumber,
                     componentJump |-> after.outComponent - s.node.outComponent])]
    IN  FoldLeft(connect, [node |-> node, cnx |-> <<>>], SortedArrows(t))

\* build_constraints: a constraint is the set of signals it mentions.
BuildConstraints(node, t) ==
    [k \in 1 .. Len(t.constraints) |->
        {node.correspondence[s] : s \in t.constraints[k]}]

-----------------------------------------------------------------------------
\* The export to template instances.

\* templates_in_mixed_arrays: an array of components with more than one template.
IsMixed(cnx, name) ==
    \E i, j \in 1 .. Len(cnx) :
        cnx[i].cmp = name /\ cnx[j].cmp = name /\ cnx[i].to # cnx[j].to

(***************************************************************************)
(* build_clusters: a run of connexions with the same name is a cluster; if *)
(* there are several runs of a name, the last one is kept.                 *)
(***************************************************************************)
Cluster(cnx, c) ==
    LET named == {i \in 1 .. Len(cnx) : cnx[i].cmp = c.name}
        start == Max({i \in named : i = 1 \/ cnx[i - 1].cmp # c.name})
        last == Max({j \in named : start .. j \subseteq named})
    IN  [cmp |-> c.name, dims |-> c.dims, start |-> start, last |-> last,
         mixed |-> IsMixed(cnx, c.name)]

Clusters(t, cnx) ==
    LET used == UsedComponents(t)
    IN  [k \in 1 .. Len(used) |-> Cluster(cnx, used[k])]

\* A variant: the export does not move the public inputs.
LocalWiresAsDeclared(t) ==
    LET ws == WiresAsDeclared(t)
    IN  [k \in 1 .. Len(ws) |->
            ws[k] @@ [id |-> FoldLeft(LAMBDA n, w : n + WireSize(w), 0, SubSeq(ws, 1, k - 1))]]

\* The wires with their first local number, counted from 0.
LocalWires(t) ==
    LET ws == WiresInOrder(t)
    IN  [k \in 1 .. Len(ws) |->
            ws[k] @@ [id |-> FoldLeft(LAMBDA n, w : n + WireSize(w), 0, SubSeq(ws, 1, k - 1))]]

SizeOfKind(t, kind) == FoldLeft(LAMBDA n, w : n + WireSize(w), 0, OfKind(t, kind))

NewInstance(t, cnx) ==
    [name |-> t.name, wires |-> LocalWires(t), clusters |-> Clusters(t, cnx),
     triggers |-> [k \in 1 .. Len(cnx) |->
        [cnx[k] EXCEPT !.parallel = @ \/ prog[cnx[k].to].parallel]],
     inputs |-> SizeOfKind(t, "input"), outputs |-> SizeOfKind(t, "output"),
     components |-> NumberOfComponents(t),
     isParallel |-> t.parallel, parallelComponent |-> FALSE, plainComponent |-> FALSE]

\* build_triggers marks the instances this template creates.
MarkCreated(instances, cnx) ==
    [i \in 1 .. Len(instances) |->
        LET uses == {k \in 1 .. Len(cnx) : cnx[k].to = i}
        IN  [instances[i] EXCEPT
                !.parallelComponent = @ \/ \E k \in uses : cnx[k].parallel,
                !.plainComponent = @ \/ \E k \in uses : ~cnx[k].parallel]]

-----------------------------------------------------------------------------
InitNumbering ==
    /\ prog \in Programs
    /\ nodes = <<>>
    /\ connexions = <<>>
    /\ insts = <<>>

\* ExecutedTemplate::insert_in_dag
InsertInDag ==
    LET t == prog[Len(nodes) + 1]
        wired == BuildWires(t)
        connected == BuildConnexions(wired, t)
        node == connected.node
    IN  /\ Len(nodes) < Len(prog)
        /\ nodes' = Append(nodes, [node EXCEPT
                        !.subindexes = NumberOfComponents(t),
                        !.constraints = BuildConstraints(node, t)])
        /\ connexions' = Append(connexions, connected.cnx)
        /\ UNCHANGED <<prog, insts>>

\* ExecutedTemplate::export_to_circuit; main also counts as a plain component.
ExportToCircuit ==
    LET k == Len(insts) + 1
        inst == NewInstance(prog[k], connexions[k])
    IN  /\ Len(nodes) = Len(prog)
        /\ Len(insts) < Len(prog)
        /\ insts' = Append(MarkCreated(insts, connexions[k]),
                           [inst EXCEPT !.plainComponent = (k = Len(prog))])
        /\ UNCHANGED <<prog, nodes, connexions>>

Number == InsertInDag \/ ExportToCircuit

Numbered == Len(insts) = Len(prog)

-----------------------------------------------------------------------------
\* What is derived from the DAG when it is complete.

MainId == Len(prog)

(***************************************************************************)
(* Tree::go_to_subtree and produce_tree_witness: the signals of a node     *)
(* with the offset of the place it is at, then those of its subtrees.      *)
(***************************************************************************)
RECURSIVE WalkFrom(_, _)
WalkFrom(id, offset) ==
    LET node == nodes[id]
        sorted == SelectSeq([k \in 1 .. node.signals |-> k], LAMBDA k : k \in node.locals)
        own == [k \in 1 .. Len(sorted) |-> sorted[k] + offset]
    IN  own \o FlattenSeq([k \in 1 .. Len(node.edges) |->
                   WalkFrom(node.edges[k].to, offset + node.edges[k].inNumber)])

\* produce_witness and the signal map of map_to_constraint_list.
WitnessList == <<0>> \o WalkFrom(MainId, 0)

\* A variant: each template is counted once.
StatsOfTemplates ==
    [created |-> Len(nodes), signals |-> nodes[MainId].outNumber,
     indexes |-> FoldLeft(LAMBDA n, node : n + node.subindexes, 0, nodes)]

(***************************************************************************)
(* produce_dags_stats: the components really created, the subcomponent     *)
(* indexes they need, and the signals.                                     *)
(***************************************************************************)
Stats ==
    LET s[i \in 1 .. Len(nodes)] ==
            LET n == nodes[i]
                sum(f(_)) == FoldLeft(LAMBDA acc, e : acc + f(s[e.to]), 0, n.edges)
            IN  [created |-> 1 + sum(LAMBDA r : r.created),
                 indexes |-> n.subindexes + sum(LAMBDA r : r.indexes),
                 signals |-> n.inputs + n.outputs + n.intermediates + sum(LAMBDA r : r.signals)]
    IN  s[MainId]

(***************************************************************************)
(* visit_node of constraint_correctness_analysis.rs: the reachable names   *)
(* of a node that no constraint mentions, each of which is a warning.      *)
(***************************************************************************)
Unconstrained(id) ==
    LET node == nodes[id]
        mentioned == UNION {node.constraints[k] : k \in 1 .. Len(node.constraints)}
    IN  {s \in DOMAIN node.correspondence :
            /\ node.correspondence[s] \in node.reachables
            /\ node.correspondence[s] \notin mentioned}
=============================================================================
