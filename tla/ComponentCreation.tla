--------------------------- MODULE ComponentCreation --------------------------
(***************************************************************************)
(* The component tree of a running circuit, as the generated C++ and       *)
(* WebAssembly build it.  A component's code creates all its subcomponents *)
(* (CreateCmpBucket, src/compiler/src/intermediate_representation/         *)
(* create_component_bucket.rs, in the order create_components of           *)
(* translate.rs emits them), then runs each when its last input is stored; *)
(* one without inputs runs when it is created.  C++ knows the slot of a    *)
(* component from its parent's slot, WebAssembly takes the next free       *)
(* words.  Which of several waiting subcomponents runs next is the         *)
(* program's choice.                                                       *)
(***************************************************************************)
EXTENDS SignalTables

VARIABLES
    backend,   \* "none" while the circuit is compiled, then "cpp" or "wasm"
    mem,       \* the components that exist, by slot or by address
    free,      \* the component free position (WebAssembly)
    frames     \* the components that run, the innermost last

vars == <<prog, nodes, connexions, insts, backend, mem, free, frames>>

NoComponent == -1
HeaderWords == 3       \* template id, signal start, input counter
MainSignalStart == 1   \* signal 0 is the constant one

-----------------------------------------------------------------------------
\* The creations in the code of a template.

\* compute_jump of translate.rs and build.rs: the place of an index in an array.
Flatten(dims, index) == Jump(Product(dims), dims, index)

\* initialize_components: where the places of a component begin.
FirstPlace(id, name) ==
    LET used == UsedComponents(prog[id])
        k == CHOOSE i \in 1 .. Len(used) : used[i].name = name
    IN  FoldLeft(LAMBDA n, c : n + Product(c.dims), 0, SubSeq(used, 1, k - 1))

\* is_parallel of a place, from the triggers of all instances of the array.
ParallelAt(inst, cmp, index) ==
    \E k \in 1 .. Len(inst.triggers) :
        /\ inst.triggers[k].cmp = cmp
        /\ inst.triggers[k].index = index
        /\ inst.triggers[k].parallel

(***************************************************************************)
(* create_mixed_components: one bucket per component, with its own         *)
(* offsets.  create_uniform_components: one bucket for the array, whose    *)
(* k-th component is at the k-th defined position, or at position k if all *)
(* are defined, and k jumps behind the offsets of the first.               *)
(***************************************************************************)
Creations(id) ==
    LET inst == insts[id]
        base(c) == FirstPlace(id, c.cmp)
        first(c) == inst.triggers[c.start]
        length(c) == c.last - c.start + 1
        complete(c) == length(c) = Product(c.dims)
        uniform(c, k) ==
            LET at == inst.triggers[c.start + k]
            IN  [place |-> base(c) + IF complete(c) THEN k ELSE Flatten(c.dims, at.index),
                 to |-> first(c).to,
                 offset |-> first(c).offset + k * first(c).jump,
                 componentOffset |-> first(c).componentOffset + k * first(c).componentJump,
                 parallel |-> ParallelAt(inst, c.cmp, at.index),
                 partial |-> ~complete(c)]
        mixed(c, k) ==
            LET at == inst.triggers[c.start + k]
            IN  [place |-> base(c) + Flatten(c.dims, at.index),
                 to |-> at.to, offset |-> at.offset, componentOffset |-> at.componentOffset,
                 parallel |-> ParallelAt(inst, c.cmp, at.index), partial |-> FALSE]
    IN  FlattenSeq([i \in 1 .. Len(inst.clusters) |->
            LET c == inst.clusters[i]
            IN  [k \in 1 .. length(c) |-> IF c.mixed THEN mixed(c, k - 1) ELSE uniform(c, k - 1)]])

\* has_inputs, which build_triggers reads from the instance.
HasInputs(id) == insts[id].inputs > 0

\* A variant: the WebAssembly caller never runs what it creates.
RunsAtCreationInCpp(c) == ~HasInputs(c.to) /\ backend = "cpp"

(***************************************************************************)
(* A component without inputs runs when it is created.  C++ does it in the *)
(* template's own create function, WebAssembly in the code that calls it,  *)
(* but not in the branch for arrays with places left out.                  *)
(***************************************************************************)
RunsAtCreation(c) ==
    ~HasInputs(c.to) /\ (backend = "cpp" \/ ~c.partial)

\* The functions the C++ code of an instance has: TemplateCodeInfo::produce_c.
HasParallelCreate(inst) == inst.isParallel \/ inst.parallelComponent
HasPlainCreate(inst) == ~inst.isParallel /\ inst.plainComponent

-----------------------------------------------------------------------------
InitCreation ==
    /\ InitNumbering
    /\ backend = "none"
    /\ mem = <<>>
    /\ free = 0
    /\ frames = <<>>

NewComponent(id, start, where, create) ==
    [template |-> id, signalStart |-> start, where |-> where, parallel |-> create,
     subs |-> [p \in 0 .. insts[id].components - 1 |-> NoComponent], ran |-> FALSE]

Frame(c, id) == [component |-> c, todo |-> Creations(id)]

Compile ==
    /\ ~Numbered
    /\ Number
    /\ UNCHANGED <<backend, mem, free, frames>>

\* The run function of the circuit: main is created, then it runs.
Start(b) ==
    /\ Numbered
    /\ backend = "none"
    /\ backend' = b
    /\ mem' = 0 :> NewComponent(MainId, MainSignalStart, <<>>, insts[MainId].isParallel)
    /\ free' = HeaderWords + insts[MainId].components
    /\ frames' = <<Frame(0, MainId)>>
    /\ UNCHANGED numbering

Top == Last(frames)
Running == mem[Top.component]

\* The next creation: the create function, the store of the result, maybe a run.
Create ==
    /\ frames # <<>>
    /\ Top.todo # <<>>
    /\ LET c == Head(Top.todo)
           slot == IF backend = "cpp" THEN Top.component + c.componentOffset + 1 ELSE free
           new == NewComponent(c.to, Running.signalStart + c.offset,
                               Append(Running.where, c.place), c.parallel)
           ran == RunsAtCreation(c)
           waiting == [frames EXCEPT ![Len(frames)].todo = Tail(@)]
       IN  /\ mem' = (slot :> [new EXCEPT !.ran = ran])
                     @@ [mem EXCEPT ![Top.component].subs[c.place] = slot]
           /\ free' = free + HeaderWords + insts[c.to].components
           /\ frames' = IF ran THEN Append(waiting, Frame(slot, c.to)) ELSE waiting
    /\ UNCHANGED <<prog, nodes, connexions, insts, backend>>

Waiting(c) ==
    {s \in Range(mem[c].subs) : s # NoComponent /\ ~mem[s].ran /\ HasInputs(mem[s].template)}

\* The last input of a subcomponent is stored: it runs.
RunSubcomponent ==
    /\ frames # <<>>
    /\ Top.todo = <<>>
    /\ \E s \in Waiting(Top.component) :
        /\ mem' = [mem EXCEPT ![s].ran = TRUE]
        /\ frames' = Append(frames, Frame(s, mem[s].template))
    /\ UNCHANGED <<prog, nodes, connexions, insts, backend, free>>

Return ==
    /\ frames # <<>>
    /\ Top.todo = <<>>
    /\ Waiting(Top.component) = {}
    /\ mem' = [mem EXCEPT ![Top.component].ran = TRUE]
    /\ frames' = Front(frames)
    /\ UNCHANGED <<prog, nodes, connexions, insts, backend, free>>

Next == Compile \/ Start("cpp") \/ Start("wasm") \/ Create \/ RunSubcomponent \/ Return

Spec == InitCreation /\ [][Next]_vars

-----------------------------------------------------------------------------
\* The place of a component in the DAG, from the places that lead to it.

PlaceOf(id, k) ==
    LET cnx == connexions[id][k]
        used == UsedComponents(prog[id])
        c == used[CHOOSE i \in 1 .. Len(used) : used[i].name = cnx.cmp]
    IN  FirstPlace(id, cnx.cmp) + Flatten(c.dims, cnx.index)

EdgeAt(id, place) == CHOOSE k \in 1 .. Len(connexions[id]) : PlaceOf(id, k) = place

RECURSIVE TreeAt(_, _, _)
TreeAt(where, id, offset) ==
    IF where = <<>> THEN [id |-> id, offset |-> offset]
    ELSE LET e == nodes[id].edges[EdgeAt(id, Head(where))]
         IN  TreeAt(Tail(where), e.to, offset + e.inNumber)

InTree(c) == TreeAt(mem[c].where, MainId, 0)

OwnSymbols(id) == {s \in DOMAIN nodes[id].correspondence : s.cmp = None}

Finished == backend # "none" /\ frames = <<>>

-----------------------------------------------------------------------------
(***************************************************************************)
(* The witness is all signals once, in the order of their numbers and with *)
(* no gap, and main's outputs and public inputs come first                 *)
(* (produce_witness, and write in dag/src/r1cs_porting.rs, which writes    *)
(* the labels 0 .. wires without looking at it).                           *)
(***************************************************************************)
WitnessHasNoGaps ==
    Numbered =>
        /\ WitnessList = [k \in 1 .. Stats.signals + 1 |-> k - 1]
        /\ nodes[MainId].outNumber = Stats.signals
        /\ nodes[MainId].forbidden
               = 0 .. nodes[MainId].outputs + nodes[MainId].publicInputs

(***************************************************************************)
(* Every component holds its signals where the constraints have them: the  *)
(* signal start it was created with plus the address the compiler computes *)
(* for a name is the number the DAG gives that name at that place of the   *)
(* tree.  (Two traversals, executed_template.rs:256 and :390, number the   *)
(* signals on their own.)                                                  *)
(***************************************************************************)
AddressesAreNumbers ==
    /\ WitnessHasNoGaps
    /\ Finished =>
        \A c \in DOMAIN mem :
            LET id == mem[c].template
                tree == InTree(c)
            IN  /\ tree.id = id
                /\ \A s \in OwnSymbols(id) :
                      mem[c].signalStart + FullAddress(insts[id], s)
                          = nodes[id].correspondence[s] + tree.offset

\* What begins at a signal: itself, and the arrays and buses it is the first of.
AccessesAt(s) ==
    {a \in UNION {{[s EXCEPT !.fields = SubSeq(@, 1, f),
                             !.idx = Append(SubSeq(@, 1, f), SubSeq(@[f + 1], 1, n))] :
                       n \in 0 .. Len(s.idx[f + 1])} : f \in 0 .. Len(s.fields)} :
        /\ \A f \in Len(a.fields) + 1 .. Len(s.fields) : s.fields[f] = 1
        /\ \A k \in Len(a.idx) .. Len(s.idx) : \A n \in 1 .. Len(s.idx[k]) :
              (k = Len(a.idx) /\ n <= Len(a.idx[k])) \/ s.idx[k][n] = 0}

\* The template an array of components is taken to be of: its first instance's.
FirstInstance(cnx, cmp) ==
    insts[cnx[CHOOSE k \in 1 .. Len(cnx) :
                  cnx[k].cmp = cmp /\ \A j \in 1 .. k - 1 : cnx[j].cmp # cmp].to]

\* build_signal_location and the mapped access of either back end.
Located(tables, wasm, cnx, child, access, a, s) ==
    LET first == FirstInstance(cnx, a.cmp)
        code == SignalCode(first.name, a.wire)
    IN  IF ~IsMixed(cnx, a.cmp) THEN FullAddress(first, a)
        ELSE IF backend = "cpp"
        THEN MappedAddressC(tables, access, mem[child].template, code, a)
        ELSE MappedAddressWasm(wasm, mem[child].template, code, a,
                               [k \in 1 .. Len(s.idx) |-> Len(s.idx[k])])

\* Shapes StoredInPlace is about: two indexes, and more than one signal behind them.
Misplaced(access, a, s) ==
    \E k \in 1 .. Len(a.idx) :
        /\ Len(a.idx[k]) > 1
        /\ \/ Len(a.idx[k]) < Len(s.idx[k])
           \/ access = "store" /\ k < Len(s.idx)

\* Every access of a component's code to an input or output of a subcomponent.
Reaches(access, excepted(_, _, _)) ==
    LET tables == LoadedTables
        wasm == WasmTables
    IN  \A c \in DOMAIN mem :
            LET id == mem[c].template
                cnx == connexions[id]
                node == nodes[id]
                offset == InTree(c).offset
                isInput(x) == WireOf(FirstInstance(cnx, x.cmp), x.wire).kind = "input"
            IN  \A s \in {x \in DOMAIN node.correspondence :
                              /\ x.cmp # None
                              /\ node.correspondence[x] \in node.reachables
                              /\ access = "store" => isInput(x)} :
                    LET k == CHOOSE j \in 1 .. Len(cnx) :
                                 cnx[j].cmp = s.cmp /\ cnx[j].index = s.index
                        child == mem[c].subs[PlaceOf(id, k)]
                    IN  \A a \in AccessesAt(s) :
                            \/ excepted(access, a, s)
                            \/ mem[child].signalStart
                                   + Located(tables, wasm, cnx, child, access, a, s)
                                 = node.correspondence[s] + offset

(***************************************************************************)
(* A component's code reaches the inputs and outputs of its subcomponents, *)
(* and the arrays and buses in them, at the numbers its constraints name   *)
(* them by: computed at compile time for arrays of one template, looked up *)
(* in the tables of either back end for the others (build_signal_location, *)
(* load_bucket.rs:292 and :150).  Not so in C++ the shapes of              *)
(* StoredInPlace.                                                          *)
(***************************************************************************)
ParentsAddressChildren ==
    Finished =>
        \A access \in {"load", "store"} :
            Reaches(access, LAMBDA x, a, s : backend = "cpp" /\ Misplaced(x, a, s))

(***************************************************************************)
(* "multiply the offset in the array (after multiplying by the missing     *)
(* dimensions) by the size of the elements" (store_bucket.rs:578): what is *)
(* stored in an input of a subcomponent is stored where the input is.      *)
(***************************************************************************)
StoredInPlace == Finished => Reaches("store", LAMBDA x, a, s : FALSE)

(***************************************************************************)
(* The memory reserved for components is what they need: at the end C++    *)
(* has used each of the all_created_components slots for one component,    *)
(* and WebAssembly exactly size_of_component_tree words                    *)
(* (produce_dags_stats, executed_program.rs:247, and build.rs:213).        *)
(***************************************************************************)
MemoryIsExact ==
    Finished =>
        /\ Cardinality(DOMAIN mem) = Stats.created
        /\ backend = "cpp" => DOMAIN mem = 0 .. Stats.created - 1
        /\ backend = "wasm" => free = HeaderWords * Stats.created + Stats.indexes

\* The array of the component has places that are left out.
InPartialArray(c) ==
    \E p \in DOMAIN mem : \E n \in Range(Creations(mem[p].template)) :
        mem[c].where = Append(mem[p].where, n.place) /\ n.partial

(***************************************************************************)
(* When main has run, so has every component ("if has no inputs should be  *)
(* runned", template.rs:264), except in WebAssembly those without inputs   *)
(* in an array that has places left out: the code that creates those never *)
(* runs them.  And the create functions C++ called exist                   *)
(* (TemplateCodeInfo::produce_c, template.rs:162).                         *)
(***************************************************************************)
EverybodyRuns ==
    Finished =>
        \A c \in DOMAIN mem :
            /\ \/ mem[c].ran
               \/ backend = "wasm" /\ ~HasInputs(mem[c].template) /\ InPartialArray(c)
            /\ IF mem[c].parallel THEN HasParallelCreate(insts[mem[c].template])
                                  ELSE HasPlainCreate(insts[mem[c].template])

(***************************************************************************)
(* The analysis of constraints warns of the signals of a template and the  *)
(* inputs and outputs of its subcomponents that its constraints do not     *)
(* mention, of no other and of each once: telling them by their numbers    *)
(* (dag/src/lib.rs:357) is telling them by their kinds.                    *)
(***************************************************************************)
ReportsUnconstrained ==
    Numbered =>
        \A id \in 1 .. Len(prog) :
            LET t == prog[id]
                childIO(a) == UNION {{InComponent(s, a) : s \in Range(Symbols(w))} :
                                  w \in {x \in Range(prog[a.to].wires) : x.kind # "intermediate"}}
                visible == UNION {Range(Symbols(w)) : w \in Range(t.wires)}
                           \union UNION {childIO(a) : a \in Range(t.arrows)}
            IN  Unconstrained(id) =
                    visible \ UNION {t.constraints[k] : k \in 1 .. Len(t.constraints)}
=============================================================================
