# A TLA+ verification of circom

This directory specifies parts of the circom compiler and of the programs it
generates, checks the specifications on small instances with TLC, and proves
theorems about them with TLAPS. The code is the reference: each definition is
a translation of the lines `PROJECT.json` gives for it under `map`.

circom reads a circuit, *executes* its templates symbolically, collects the
constraints into a rank-1 constraint system, simplifies it, and writes it in
several formats. It also generates a *witness calculator*, in C++ or
WebAssembly, that computes the values of all signals from the inputs of the
main component. A second back end translates the program to LLZK.

## 1. Inventory

### Compiler: from source to constraints

| Component | State | Operations | Makes it correct | Modelled |
|---|---|---|---|---|
| Parser, removal of sugar, `parser/` | stack of files to read, set of files read, graph of includes | `take_next`, `add_include`, rewriting of trees | every reachable file is read exactly once | no |
| Program structure, `program_structure/` | definitions, reports, slices of values | merge, lookup, slices of arrays | slices stay in bounds | partly (slices) |
| Type analysis, `type_analysis/` | known and unknown tags | checks of a tree, a fixpoint over loops | constraints never depend on unknown conditions | partly (the fixpoint) |
| Interpreter, `constraint_generation/` | environment, `conditions_state`, block type, noted values | `execute_statement` and what it calls | one circuit for all inputs; the exported code does what the body does; a signal has one value in each execution | partly |
| Component life cycle, `component_representation.rs` | `unassigned_inputs`, `to_assign_inputs`, tags | preinitialise, initialise, assign, check tags | a component is complete exactly when all its inputs are assigned | partly |
| Tags, `assignment_utils.rs`, `execute.rs` | `TagWire`s, `remaining_inserts` | propagate, set, read, fix as a parameter | a wire has a tag only if all assigned to it had it | partly |
| Executed program and DAG, `execution_data/`, `dag/` | template instances, nodes, edges, signals | add nodes, edges, signals, constraints; walk the tree | consecutive, distinct numbers; a component's are one interval | partly |
| Algebra, `circom_algebra/` | none | arithmetic, substitution, clearing a signal | canonical results in the field | partly |
| Simplification, `constraint_list/` | constraints, substitutions, index, deleted signals, witness map | equalities, constants, elimination, rounds, witness | the statement of the circuit is kept | yes |
| Output, `constraint_writers/` | an open section and where its size goes | start, write, end sections | a reader finds every section; a torn file is refused | partly |
| Reader of .r1cs, `r1cs_reader.rs` | positions of sections | find and read sections | reads back what was written | yes |

### Compiler: from source to a witness calculator

| Component | State | Operations | Makes it correct | Modelled |
|---|---|---|---|---|
| Front end, `compiler/src/hir` | instances of functions | merge, clean sugar, infer types | every call finds its instance | no |
| Intermediate representation, `intermediate_representation`, `ir_processing` | buckets, status of each input assignment | translate, compute addresses, mark last assignments | exactly one assignment starts a component; addresses are the signals' numbers | partly |
| Circuit design and code producers | tables of the generated program, reserved memory | hash table of inputs, io maps, bus tables, code | compile time and run time agree on tables and addresses | partly |
| LLZK back end, `llzk_backend/` | scopes of SSA values, returns to move, queue of writes, memory of components | lower functions, loops, early returns; templates, into a function for the witness and one for the equations | the lowered program does what the source does | partly |

### Generated witness calculator

| Component | State | Operations | Makes it correct | Modelled |
|---|---|---|---|---|
| Loader and input table (`calcwit.cpp`, `main.cpp`, generated WebAssembly) | hash table, signals set, inputs missing | look up a name, set a signal, run on the last one | every complete document is accepted; without signals named twice, an incomplete one never gives a witness | partly |
| Component tree at run time | component memory, next free place, input counters | create, run, address signals | every component runs once; the reserved memory suffices | partly |
| Parallel run-time (code for `parallel`) | `numThread`, condition variables, mutexes, flags, thread handles | create, assign, start, load, store, join, release | what is read is final, nobody sleeps for ever, memory outlives its threads | yes |
| Field arithmetic (`generic/fr.cpp`, `goldilocks/fr.hpp`) | none | every operator on each pair of representations | agrees with the compiler's arithmetic | yes, the C++ |

### How they interact

The passes of the compiler run one after the other in one process and hand
over whole data structures, so most of the compiler is sequential. Its hard
parts are long sequences of steps over shared bookkeeping, and values that two
passes compute on their own and that have to agree:

* the numbers of signals: in the DAG for the constraints, in the template
  instances for the code, in tables for addresses only known at run time;
* the value of a variable: in the execution for an unknown input, in the code
  that is exported from it, and in the execution of the witness calculator;
* the arithmetic: in the compiler, and again in the generated C++;
* which store completes a component: found by an analysis, and by a counter;
* tables that one program fills and another reads.

Three places are concurrent or depend on an order from outside. The generated
C++ for `parallel` components shares counters, flags and condition variables
between threads. The loader calls the circuit from inside a call that sets an
input, in an order the document decides. Clusters of constraints are
simplified by a pool of threads that send their results over a channel.

All hard behaviours are listed with their lines under `hazards`. Known to be
hard and not covered by a property, so not listed there: the first source file
goes on the stack of includes as the user wrote it and the others by canonical
paths, so it can be read twice (`include_logic.rs:15`); a cast of a loop
condition is placed before the loop (`gen_context.rs:2615`); bindings of types
are replayed on statements already generated (`gen_context.rs:365`,
`shared.rs:2452`); the loader keeps room for ten fields of a bus
(`main.cpp:109`).

## 2. The modules

| Module | Models | Built on |
|---|---|---|
| `WitnessFlow` | abstract: evaluation in dataflow order | |
| `ParallelRun` | the parallel run-time | implements `WitnessFlow` |
| `ParallelRun_proofs` | its theorems | `ParallelRun`, `TLAPS` |
| `MainInputs` | hash table and loader of the inputs | |
| `MainInputs_proofs` | its theorems | `MainInputs`, `TLAPS` |
| `ConditionalAssignment` | conditions and assignments in the interpreter | |
| `ConditionalAssignment_proofs` | its theorems | `ConditionalAssignment`, `TLAPS` |
| `Algebra`, `ConstraintSimplification` | expressions, and the simplification | |
| `ConstraintSimplification_proofs` | its theorems | `ConstraintSimplification`, an instance of `FieldArithmetic_proofs`, `TLAPS` |
| `FieldArithmetic` | the compiler's arithmetic | |
| `FieldElement`, `Goldilocks` | the generated C++ arithmetic | `FieldArithmetic` |
| `WitnessArithmetic` | both side by side | instances of the two above |
| `FieldArithmetic_proofs` | remainders, least numbers and induction, inverses, powers and bits in a field | `FieldArithmetic`, `TLAPS` |
| `FieldElement_proofs`, `Goldilocks_proofs` | each operator agrees with the compiler's | the two modules, `FieldArithmetic_proofs` |
| `WitnessArithmetic_proofs` | every sequence of operators does | `WitnessArithmetic`, instances of the two above |
| `FunctionGenerator`, `FunctionLowering` | functions in the LLZK back end | |
| `TemplateGenerator`, `TemplateLowering` | its templates, and a program of both | `FunctionLowering` |
| `SignalNumbering` | the DAG and the two numberings of signals | |
| `SignalTables` | addresses computed by the compiler and by generated code | `SignalNumbering` |
| `ComponentCreation` | the component tree at run time | `SignalTables` |
| `TemplateCode` | last-assignment analysis, and the code it marks | |
| `CircomCode` | what statements mean (the reference) | |
| `KnownAnalysis` | the known/unknown analysis | `CircomCode` |
| `TemplateExecution` | the execution of a body for an unknown input | `KnownAnalysis` |
| `CodeFolding` | the exported code, and the life of a template | `TemplateExecution` |
| `ConstraintFiles` | what .r1cs and .sym say of a circuit | |
| `R1csFile` | .r1cs byte by byte, writer and reader | `ConstraintFiles` |
| `WireMemory`, `TagInheritance` | values and tags of signals and buses | |
| `ComponentInputs` | a component before and after its template is known | `TagInheritance` |
| `TemplateWires` | a body assigning wires, tags and inputs | `ComponentInputs` |

`MC...` modules hold the instances for TLC. A definition whose comment begins
with *Variant* is not part of the system: it is what a mistake in the
definition below it would look like, and the entry under `mutants` says which
property then fails.

### ParallelRun

Every component instance is a frame: one activation of a generated `_run` or
`_run_parallel` function. `pc` says where it is; the other variables are those
of the generated code (`inputCounter`, `outputIsSet`, `sbct`, `numThread`) and
what properties need (`stored`, `loads`, `released`). A body is any sequence of
input assignments, loads and stores after the creation of the subcomponents,
which the translation puts first (`create_components`), so a run stands for
every circuit with its component tree. The compiler asks only that *some* path assigns an
input of a subcomponent before its outputs are read or the body ends, and asks nothing for
the outputs of the body itself. The path a frame takes may leave both out:

* a body may end with outputs it has not stored (`EndBody`). The final loop then
  raises their flags for the first time (`Flag`), and a reader that has slept until then
  wakes up and reads a signal without a value;
* a subcomponent may still wait for an input. A load from it reads a
  signal nobody has stored, or, if it is parallel, waits for a thread that was never
  started (`Stranded`). At the end of the frame the generated assertion that all
  inputs were assigned ends the program (`Release`, `Aborted`); it is there unless the
  checks are switched off (`sanity_check`).

Steps are cut where another thread can get in between:

| Action | Code |
|---|---|
| `Create` | `_create_parallel` and `CreateCmpBucket`; instances without inputs run here |
| `AssignInput` | `StoreBucket`: store, decrement `inputCounter`, start the thread or call `_run` |
| `TakeSlot` | the wait on `ntcvs` and `numThread++` after the thread was started |
| `Return` | the end of a call in the same thread |
| `Load`, `YieldNotify`, `AwaitOutput`, `RetakeSlot` | `LoadBucket`: give the slot back, notify, wait on `cvs`, take a slot again |
| `Store`, `Publish`, `PublishNotify` | a store to an output, its flag, its notification |
| `EndBody`, `Join`, `Flag`, `FlagNotify`, `Leave`, `LeaveNotify`, `Release` | the epilogue of a run function |

Values are abstracted to *stored or not*, one output is one signal, and
`main` is never parallel, as in the code. Spurious wake-ups are left out: every
wait is in a loop over its predicate, so they only add stuttering. The
`release_memory` function is generated but nothing calls it; `Release` is the
release of subcomponents at the end of a frame.

### MainInputs

The state is the table, the document, and the position of the loader in it.
`Insert` fills the table at compile time; `Start`, `VisitKey`,
`SetInputSignal`, `NextKey` and `Finish` are the two loaders, with `program`
selecting how a lookup ends, who starts a circuit without inputs, and what
happens to a signal that is set again. A bus is in the table under its own name and
under those of its fields. C++ keeps `inputSignalAssigned` and refuses the second
value. WebAssembly has a check, but the map it reads is cleared at the start and never
written: it stores the second value and counts it as another input. `Disjoint` says
that no two keys of the document name one signal, and `SetsOnce` that the program is C++
or the document `Disjoint`; what holds only then says so.
A document is a map from names to numbers of values: the flattening of JSON
is left out, and what a value is does not matter. A circuit may be given by bus
names, by field names or by a mixture. Hash functions range over all injective
functions into a small set, so every pattern of collisions in the table
occurs; that two names have the same 64-bit hash is excluded, as the code
excludes it. Hash 0, which marks an empty slot, is excluded too.

### ConditionalAssignment

The module executes every program of nested conditionals, loops and
assignments up to its bounds. `conds` is `conditions_state`, `frames` is what
is really around the next statement, and `history` records the paths on which a
cell was assigned, so that what the compiler believes can be compared with what
an execution does. Conditions are unknown or known by choice, and a loop takes
any number of passes up to `MaxPasses`. Functions save and restore
`conditions_state` and templates called from a body inherit it; neither is
modelled.

### Algebra and ConstraintSimplification

`Algebra` keeps the maps of the code as they are: an expression has an entry
for some signals, an entry may be zero, and which operation tidies up is part
of the model (`RawSubstitution` does not, `Fixed` does). The field is a prime
`P`.

`ConstraintSimplification` has one action per stage and, in the elimination,
one per decision for a constraint (`TakeUnique`, `TakeConstraint`,
`KeepConstraint`, `Eliminate`, `Merge`). Left open, so that TLC tries all
cases: the order of clusters, the order of constraints in a cluster, and the
choice between several eliminated signals, which the code leaves to hash maps.
Abstracted: the walk over the component tree that collects constraints, the
one-million upper bound on the cluster size for the occurrence heuristics, and
repeated entries in the list of constraints that became linear (the second
entry is an empty constraint). Clusters share nothing but constants, so one is
simplified at a time. The switch from 350 constraints on to the occurrence
heuristics is the constant `LessOccurrencesMin`.

### FieldArithmetic, FieldElement, Goldilocks, WitnessArithmetic

`FieldArithmetic` is `modular_arithmetic.rs`: every operator of the language on
numbers modulo the prime. `FieldElement` is `generic/fr.cpp`, where an element
is a short int, limbs, limbs in Montgomery form, or a constant that has both,
and every operation has a function for each pair; the loops over limbs and
their carries are modelled, GMP's functions are arithmetic modulo the capacity.
`Goldilocks` is `goldilocks/fr.hpp`, on one word. In `WitnessArithmetic` any
operation is applied to the two elements a program has, as often as it likes,
next to the compiler computing the same, so operands come in every
representation earlier operations leave. Result and operands are not the same
object, as in generated code. The conversion of the smallest int in goldilocks
is undefined behaviour and excluded, and so is division by zero. `np`, `R2` and
`R3` are computed from the prime by the code generator.

A number is taken apart into the set of its bits (`Bits`) and put together
again (`Number`), so that an operation on bits is one on sets. `Supported`, a
conjunct of `Init`, says what the program is made for: `FieldFits` that the
prime fits the limbs and is far larger than an int, `IsGoldilocks` that it is
2^64 - 2^32 + 1 for some number in the place of 2^32.

### FunctionGenerator and FunctionLowering

A function of scalar variables goes through the code of the LLZK back end:
scopes of SSA values, `scf.if` and `scf.while` that yield what their blocks
assign, a flag and a value for early returns, and then `finalize`, which moves
what follows such a return into else blocks, one return at a time (`rets`).
The heuristic that recognises for-loops generates the same as a block with a
`while`; the first pass of `finalize` (constants and casts) is left out. The
lowered function is then evaluated (at most `Fuel` iterations) and compared
with the source. `ReturnsWhatSourceReturns` excludes the shapes with a known
difference: `HiddenReturnsAreTaken`, `CopiesStayApart`,
`FieldConditionsAreTested`, and a bare block with a return at the root.

### TemplateGenerator and TemplateLowering

A template becomes a struct with the functions `@compute` and `@constrain`,
which are generated from the same statements; each has its own generator state,
and a template is lowered after the functions of the program, in the steps of
`gen_template_llzk`: what stands before the statements, the statements, the
ends of the subcomponents, the queue of writes to members. In `@compute` a
component is a pod with the number of inputs that are missing, the values of
its parameters and its result, and a second pod with its inputs; in
`@constrain` both are members that are read. `WriteChain` and `GetValue` follow
a path such as `c[i].p` to the place that is written or read, through arrays of
one dimension. Both functions are then executed: `ComputesTheWitness` compares
what `@compute` leaves in the struct with the values the statements assign, and
`StatesTheEquations` what `@constrain` states about arbitrary values of the
members with the equations of the statements. Programs come with templates
that still have parameters and, after `rm_component_ci`, with concrete ones
(`concrete`). What a subcomponent computes is
some function that tells its inputs apart.

What LLZK does is taken from how the backend uses it: a pod or an array is
changed in place, and an element of an array that is read is a copy, which has
to be written back. Statements for which a loop changes a variable that shares
its value (`LoopChangesCopy`) are excluded: they are `CopiesStayApart` again.

### SignalNumbering, SignalTables, ComponentCreation

A program is a sequence of executed templates, main last. `SignalNumbering`
inserts them into the DAG as the code does, node by node, and exports each a
second time with offsets of its own. `SignalTables` has
`compute_full_address`, the io map and the bus tables in the layouts of C++ and
WebAssembly, and the code that reads them. `ComponentCreation` then runs the
generated program: components create their subcomponents, run them when the
last input is stored, and the properties compare every address with the number
in the constraints. Names of signals are records of a component, a wire, indexes and
fields; formatted, they are the strings of the code. Not modelled: custom gates, tags, the
names components have at run time, how `parallel` runs (that is `ParallelRun`),
a main component without inputs, and edges that `add_edge` drops silently.

### TemplateCode

A template stores the inputs of an array of components, one statement after
the other. `build_inputs_info` marks every store as the last one, not the last
one, unknown or empty, and the C++ and WebAssembly codes for it are executed
for all outcomes of branches. Loops are not unrolled. `parallel` and uniform
arrays do not change the marks and are left out. `HasEmptyAmongOthers` excludes the
case of a finding: an input that is empty in one of several components.

### CircomCode, KnownAnalysis, TemplateExecution, CodeFolding

The life of a template body with one input signal. `CircomCode` says what it
means for a given input; it is the reference and translates nothing.
`KnownAnalysis` is `unknown_known_analysis.rs` with its fixpoint.
`TemplateExecution` is the part of `execute.rs` for variables, arrays of one
dimension, functions, conditionals, loops, assertions and constraints: an
expression is represented by its degree, one operator of `algebra.rs` at a time
(`SumDegree`, `ProductDegree`, ...), and by its value for every input, with the
operators on numbers of `FieldArithmetic`, and
what was noted for the exported code (`computed`, `missed`, `skipped`) is part
of the state. `CodeFolding` makes the exported code of it and evaluates that,
too. Declarations, tags and components are *effects*: what matters is that
they are the same for all inputs. Functions' own code is not folded, and
inline arrays, `log` and arrays of more dimensions are not modelled. The exceptions of the properties are the shapes with findings:
loops that have not reached a fixpoint after two executions
(`runtime.stable`), values noted at some executions only (`NotedElsewhere`),
what the analysis does not follow (`LeftToExecution`, `runtime.escaped`).

### ConstraintFiles and R1csFile

The writer writes header, constraints, map of wires and custom gates, each a
section whose size is put in front of it when it ends. Every write may fail
and leave any proper prefix of its bytes. The reader then searches the
sections and reads them. A byte has `BitsPerByte` bits and a field element
whole words of `BitsPerWord`, so that numbers of several bytes occur with
small values. The circuits have trees with shared templates, custom gates,
and constraints that are left of a simplification; the .sym file is modelled
line by line as numbers. Wires from 2^32 on and the JSON file are not modelled.
A file that only lacks the size of its last section can be accepted, and then
what is read is right.

### WireMemory, TagInheritance, ComponentInputs, TemplateWires

One tag is followed, because the code handles every tag on its own; `-1` is no
tag, `0` a tag without value. `WireMemory` has the cells of signals and
buses and the counters of what is missing, `TagInheritance` the `TagWire` of
each wire with `remaining_inserts`. `ComponentInputs` puts assignments aside
until all tags of the inputs have their values, then makes them, signals,
buses and fields in their lists. `TemplateWires` executes bodies: `<==`, `<--`
and `=`, tags, the creation of the component, and one conditional with unknown
condition. Counters are unsigned and wrap at `Word`, as in release builds
(a debug build panics). The body of the component's template is the constant
`Exported`. Left out: `<==` in the conditional (the type analysis refuses it),
buses of different instances, values whose dimensions do not fit, arrays of components,
anonymous components, empty arrays, and reads of tags.
Exceptions: `<--` of a whole bus in `TagsAreEarned`; steps inside the
conditional in `TagValuesAreFinal`; cells assigned in both branches
(`Repeated`) in `ReadableIffAssigned`, a part of `CountsAreRight`.

## 3. The runs

| Run | Instance | Shows |
|---|---|---|
| `par_calls` | a thread that starts two, two slots for the three, one of which calls a component without inputs and another has no outputs; every path of every body | the inductive invariant, reads are final, wake-ups of outputs and slots, the refinement of `WitnessFlow`, `run()` returns |
| `par_pair_one_slot` | a parallel component in a parallel component, one slot | **violated**: `Terminates` |
| `inputs` | a bus under all its names, a bus of one field and a signal, an array and a signal, no inputs; all documents over four names with up to three values each; all collisions in a full table | complete documents are accepted, others only where signals are named twice; circuits run once, on all inputs; the loader decides |
| `assign` | all bodies with five conditionals or loops, four deep | what is refused conflicts and what is accepted does not; records are right; no panic |
| `simplify` | all circuits of two to four constraints out of seventeen, some with a custom gate, and a chain that needs three rounds; O1, O2, O2 with old heuristics, O2 with two rounds | the statement is kept where constants do not contradict each other; substitutions hold; witness layout; completeness, no panic, rounds end |
| `field` | all sequences of operations on two elements over 53 (two limbs of three bits), 67 (two of five) and goldilocks 13 (words of four bits) | generated and compiler's arithmetic agree; an element becomes the int it stands for |
| `llzk` | all functions of an if, loop or block with one more inside, assignments, shadowing and returns in every place; all templates that give inputs to a component and to an array of them and assign signals, each in a row, in a scope, in branches or in a loop | the lowered function is valid and returns what the source returns; `@compute` finds the witness and `@constrain` states the equations |
| `numbering` | four templates with arrays and buses of all shapes, partial, complete and mixed arrays of components, both back ends, every order of runs | numbers, addresses, tables and memory agree; every component runs once; reports of unconstrained signals are right |
| `code` | all ways to store the inputs of two components in up to four statements, seven tables of sizes | each component runs once, when its last input is stored; no assertion of generated code fails |
| `r1cs` | 21 circuits, a failure at every byte | accepted files are right, finished ones are accepted; .sym agrees with .r1cs |
| `fold` | all bodies of up to three statements out of a list, inputs 0 to 3, modulo 7 | numbers are right for every input; one circuit; the exported code is the code; the analysis finds what the execution refuses |
| `tags` | bodies of up to four statements on signals and on buses, five on a component, seven with inputs put aside | tags are earned and inherited; inputs are assigned once and agree; a bus is readable when it is assigned; values of tags are final |

### Why the bounds are enough

* *Run-time.* The protocol relates a frame, its parent and its subcomponents.
  The tree has siblings that run at once, a call below a thread, and three
  levels; with two slots for three threads every wait is entered and left. The
  invariants are also proved for every tree and number of slots. Larger
  instances were checked with the same configuration and other constants: one
  slot is enough when parallel components are only below `main`, two for a pair
  or a fork, three for a chain of three.
* *Inputs.* With three entries in a table of three slots every lookup wraps
  around, passes other entries and comes back to its home. Three values cover
  too few, right and too many for every entry. With a bus of one field next to a
  signal, WebAssembly can count a signal twice and miss another.
* *Assignments.* Five conditionals and a depth of four contain every way two
  assignments can be placed relative to each other with one more level above
  and one below. A loop of two passes has a first, a next and, with the choice
  to end at once, no pass.
* *Simplification.* Five signals are the constant, an output, an input and two
  intermediate signals. Over three elements every nonzero coefficient is 1 or
  -1 and cancellations are frequent. Four constraints make clusters of four and
  substitutions of one stage that matter in each later one.
  `LessOccurrencesMin = 2` lets small clusters use the heuristics of large
  ones. `MaxRounds = 9` stands for no limit: `RoundsAreBounded` (in
  `EliminationIsComplete`) shows that four rounds are never exceeded.
* *Arithmetic.* The code distinguishes primes that fill their limbs
  (`cannotOptimize`) from others: 53 and 67 are one of each, the second with
  ints larger than the number of bits. Everything is reached, since the field
  is enumerated. The known primes of the code have the same two shapes.
* *Functions.* A return, a loop and an `if` in every position of another one
  are what the refactoring distinguishes; deeper nesting repeats a step of it.
  Four iterations reach the end of every loop in the list, or a return in it.
* *Templates.* A component with two inputs is complete in the middle of a row,
  in one branch or in one pass of a loop; one of an array has indexes, and
  parameters, which are known when it is made; one without inputs runs at once.
* *Numbering.* Sizes one and two, buses in buses, and arrays of two dimensions
  make strides, offsets and dimensions different numbers; four templates give a
  component above and below another one, and the same template in two places.
* *Inputs of components.* Two components of two inputs with sizes 0 to 2 make
  equal, different and unknown sizes; four statements suffice to store all,
  with one more before or after.
* *Files.* A failure is tried at every byte of every file. Numbers of one and
  two bytes, orders that differ as bytes and as numbers, and combinations
  without terms all occur.
* *Bodies.* Three statements are one that makes a variable unknown, one that
  is executed twice, and one that uses the result; each list contains the
  nested statements that need more. Modulo 7 with inputs to 3, the loops end
  before `MaxPasses`.
* *Tags.* Arrays have two elements and buses two levels, so partial, repeated
  and overlapping assignments occur; seven statements are needed to assign all
  of an aside input twice under a condition.

### Fairness and termination

`par_*` assume weak fairness of each frame's steps: the operating system runs
every thread that can run. That is enough for `Terminates` as long as there
are slots; with fewer TLC finds the deadlock that `par_pair_one_slot` shows.
`Terminates` allows the two other ends a path can lead to: the assertion of
template.rs:446-454, and a load from a parallel component that was not given all its inputs,
which waits for ever; they are why `par_calls` says `CHECK_DEADLOCK FALSE`. That nothing
else stops a frame is what `Terminates` checks.
`inputs` assumes that the sequential loader keeps running, which gives
`Decides`. The other systems are sequential programs without waiting; their
runs are finite and need no fairness. Where a configuration says
`CHECK_DEADLOCK FALSE`, the program modelled there ends: a body that has used
up its statements or was refused (`assign`, `tags`, `fold`, `code`), a function
that is lowered (`llzk`), a circuit that has run (`numbering`), a file that is
read or torn (`r1cs`). `simplify`, `field` and `inputs` never stop without
being done, and TLC checks that.

## 4. What disagrees with the documentation or with itself

The `findings` quote the text and the line of the code. The first has a run.
For the others, the claim is kept as a definition: checking it as the invariant
(`Terminates`, `EmptyStoresRunNothing` and `UsedWhenInputsAreSet`: as the property) of the configuration named here,
with the constants named here, makes TLC find a counterexample.

| Finding | Claim | Where |
|---|---|---|
| A frame waits for a slot while it holds the mutex its child needs, and joins without giving its slot back: nested parallel components use up the slots | `Terminates` | `par_pair_one_slot` |
| A parallel component without inputs is run on the path that is not parallel, and its flags are never set | `Terminates` | `par_calls`, with `NInputs` 0 and one output for `B1` |
| A circuit whose inputs have no signals: the C++ loader runs it only for an empty document | `WitnessIsComputed` | `inputs`, `Circuits <- EmptyCircuit` |
| A loop left at once leaves a condition behind; a signal is assigned twice | `AssignedOncePerPath` | `assign`, `MaxConds = 3` |
| The same cell assigned in both branches counts twice | `OutputsNeedInputs` | `assign`, `Cell = {1, 2}` |
| Of two constant equalities of a signal only the last is kept | `StatementKept` | `simplify`, `Circuits <- Triples` |
| `Fr_longNeg` accepts elements that are no int | `LargeNumbersAreRefused` | `field`, `Fields <- HeadroomOnly` |
| A flag yielded by an `scf.if` is not tested after it | `HiddenReturnsAreTaken` | `llzk` |
| A loop replaces the uses of a variable that shared a value with one it changes | `CopiesStayApart` | `llzk` |
| Two indexes without parentheses in generated C++ | `StoredInPlace` | `numbering` |
| A component with an empty input runs twice | `EmptyStoresRunNothing` | `code` |
| A loop with unknown condition leaves numbers that are wrong for some input | `UnknownLoopsLeaveNoNumbers` | `fold` |
| `<--` passes on the tags of a whole bus | `TagsAreEarned` without its exception | `tags` |
| The final loop flags outputs the path has not stored | `ReadsStoredOutputs` | `par_calls` |
| The outputs of a component are used on a path that has not given it its inputs | `UsedWhenInputsAreSet` | `par_calls`, `Par = {A, B1}` |
| WebAssembly sets a signal twice, counts it twice, and accepts the document without another | `AcceptsNothingElse` | `inputs` |

Further divergences, seen while modelling:

* *Folding.* A number noted for an expression inside a conditional expression is
  kept although only some executions reach it (`SwitchesHaveTheirValue`;
  `execute.rs:1238`, `filters.rs:164`): `while (i < 2) { y = (x == 0) ? i + 5 : 4;
  x = in; i = i + 1; }` exports 5 where 6 is right. A call whose result is a
  known number is replaced by it although it contains an assertion on an unknown
  one (`AssertionsAreKept`; `execute.rs:1221`), which `code-assertion.md:21` promises to
  keep. A component below a condition on an array element is accepted
  (`ComponentsAreKnown`; `unknown_known_analysis.rs:33`, `control-flow.md:50`). An
  assertion that is false for sure is an error also below an unknown condition
  (`execute.rs:775`).
* *LLZK.* A loop whose condition is a field element is not converted for the
  test (`FieldConditionsAreTested`).
* *Tags.* The tag of a bus can be set after its fields were assigned
  (`tags.md:74` forbids it). `remaining_inserts -= n` (`assignment_utils.rs:147`)
  wraps when a field is assigned in both branches. A bus in an array of inputs
  counts as complete once for each field assigned in the second branch
  (`component_representation.rs:705`).
* *Files.* `sym.md` calls the third number of a line the unique number of the
  component; both writers write that of the template instance
  (`constraint_list/src/sym_porting.rs:26`, `dag/src/sym_porting.rs:21`). It says the witness is
  as long as the number of signals in the .r1cs file plus one, which public
  signals without constraints and `--O0` do not keep to; and that a signal in no
  constraint has no place in the witness. The index `non_linear_map` never loses
  a key, so a signal that was substituted away from its last constraint keeps
  its place: `k === 2`, `k*u === 3`, `u*v === w` under O2.
* *Arithmetic.* With `cannotOptimize` the carry out of the multiple of the prime
  that `Fr_rawMMul` keeps in `product{i+2}[N-1]` is overwritten by that of the
  next pass (`fr.cpp:127` has the sum in a comment). It is always zero if
  `HasRoom` holds; for three words of two bits and the prime 59 or 61 it is not, and
  products are wrong. All primes of `constants.rs` have room.
  A shift by 2^64 or more is an error in the compiler (`shift_l`, `shift_r` in
  `modular_arithmetic.rs:111-136` convert the amount to `usize`) and zero in the generated code;
  the model, whose fields are small, has zero in both. The goldilocks `Fr_str2element`
  (`goldilocks/fr.hpp:30`) takes a number of an input document as it is, also one that
  is not below the prime; `WitnessArithmetic` starts from reduced numbers.
* *Code.* An element of an input array of length 0 makes the translation divide
  by zero (`translate.rs:1165`). For an assignment between sizes known only at
  run time the WebAssembly code is to take the smaller one but keeps the
  source's in both registers it chooses from (`store_bucket.rs:347`).

## 5. What is proved

### ParallelRun

`ParallelRun_proofs` holds for every finite component tree, numbers of inputs
and outputs, and number of slots, from the assumptions `TreeAssumption` and
`SizeAssumption` of `ParallelRun` alone:

| Theorem | States |
|---|---|
| `TypeCorrect` | `Spec => []TypeOK` |
| `Invariant` | `Spec => []IInv` |
| `ReadsAreOrdered` | a read from a component that has begun finds the output stored, or a body that will not store it any more |
| `OutputWakeups` | no lost wake-up on an output |
| `FramesNest` | a frame ends after all below it, and a thread with every output flagged |
| `ReleaseIsSafe` | memory is released after its threads have ended |
| `CapacityHolds` | never more than `maxThread` slots in use |
| `SlotsAccounted` | `numThread` is what the frames say it is |
| `SlotWakeups` | no free slot with all candidates asleep |
| `RefinesFlow` | the run-time implements `WitnessFlow` |

Of the properties only `TypeOK` is inductive by itself. The inductive
invariant `IInv` adds what the code relies on without saying so:

* `RegistersOK`: a frame in the middle of a statement works on a subcomponent
  of its own, of the kind the statement is for, which has been started unless the
  statement is a load;
* `OutputsOK`: while a body runs, flags are raised only over stored values; after
  it the final loop raises them in order, over whatever the path has stored; a
  reader past its wait has seen the flag, and a thread past the loop has them all;
* `CallsOK`: a frame that is not a thread runs only while its parent is in
  the call, and handles, counters and places agree.

Each part is preserved by a lemma with one step per action. Slot accounting
needs cardinalities: each action moves at most one frame into or out of the
sets `Counted`, `Left` and `Readers`, and a lemma about adding or removing one
element of a finite set does the rest. The slot wake-ups follow from counting
the frames in `Pending`. For the refinement each action maps to a step of
`WitnessFlow` or to a stutter: `Join` is where a body is over and the subcomponents
that ran have ended (`Complete`), `Release` where all have (`End`). That an output is
not consumed while its component may still produce it needs no assumption on the
bodies: a reader past its wait has seen a flag, which stands over a stored value
(`OutputsOK`) unless the final loop raised it, and a component without a thread runs only
while its parent is in the call (`CallsOK`).

### MainInputs

`MainInputs_proofs` holds for every set of circuits, size of the table, hash
function and document, from `CircuitsAssumption`: the entries of a circuit have
different names and fit in the table, which the code asserts, and a hash is a positive
number.

| Theorem | States |
|---|---|
| `InputsInv` | `Spec => []LoaderIInv`, the inductive invariant |
| `AcceptsCompleteInputsHolds` | the documents that set each signal once are accepted; others only by WebAssembly, and only if they name a signal twice |
| `RunsOnAllInputsHolds` | signals have the document's values; where none is set twice, the circuit starts with all of them |
| `WitnessIsComputedHolds` | a circuit whose inputs are accepted has run, once |

`LoaderIInv` ties four things together. Between the home of an entry and its
place in the table there are only other entries (`Placed`), so a lookup that
stops at an empty slot or comes back to its home has not missed it. The circuit has run
exactly when the count of missing signals is zero, and, under `SetsOnce`, that count is the number
of input signals without a value. Each value set is one the document has for that
signal under a key visited so far; under `SetsOnce` all values of these keys are still in
place. That the next signal is fresh in a `Disjoint` document follows from
this (`FreshTarget`): whoever set it would be another key that names it. And a
refusal means that the document is not complete: a signal is set twice, a name
is unknown, a number of values is wrong, or a signal is missing.

`WitnessIsComputedHolds` has a hypothesis: no entry of a circuit is empty (a
circuit without entries is allowed). With a circuit all of whose inputs are
empty it would be false, which is the third finding of section 4.

### ConditionalAssignment

`ConditionalAssignment_proofs` holds for every set of cells and all bounds,
which only have to be numbers (`BoundsAssumption`).

| Theorem | States |
|---|---|
| `AssignInv` | the inductive invariant |
| `AcceptsExclusiveHolds` | accepted assignments of a cell exclude each other |
| `RefusesConflictsHolds` | a refused assignment has an execution that makes two; no panic |
| `RecordedIsAssignedHolds` | who meets the recorded conditions has assigned the cell |

The invariant has four parts. `StackInv`: a condition is in the list once, and
no else branch has found the list empty. `OwedInv`: the list is at least as
long as the number of frames whose end pops a condition, which is why it never
runs empty although loops push and pop in different numbers. `FramesInv`, for
programs without loops inside unknown conditionals: the last conditions of the
list are those of the frames, in order, and only those are ever negated; loops
that are left early leave conditions behind only below them. `CellsInv`: the
conditions recorded for a cell were once the list or the start of it
(`Former`), each path on which the cell was assigned is excluded by every path
that contradicts the record at an open conditional (`Against`), and the record
is covered (`ExactInv`). With loops inside unknown conditionals `FramesInv` is
false, and so is `AcceptsExclusive`: the fourth finding of section 4.

### ConstraintSimplification

`ConstraintSimplification_proofs` holds for every prime, every circuit and
number of signals, every limit of rounds and both heuristics.

| Theorem | States |
|---|---|
| `Invariant` | the inductive invariant `IInv` |
| `StatementIsTheSame` | the values of the signals that are left that satisfy the simplified constraints are those of the solutions of the original, when the equalities and constants agree |
| `LoggedReplacementsHold` | a replaced signal has left the witness and has the value of its replacement in every solution |
| `LayoutIsRight` | the places in the witness and the count of private inputs |
| `NothingPanics` | no division by zero, no missing count of occurrences, no missing definition |

*Hypotheses.* `FieldAssumption`: `P` is a prime. `CircuitsAssumption`: the
inputs are among the signals, the constant is none of them, the options are
those the command line can give, and constraints have no zero coefficients:
`clean_constraints` (`constraint_correctness_analysis.rs`) removes them in every
template before the constraints are collected. TLC evaluates both.

*The invariant.* `Typed`, and for each stage a formula (`AtEqualities`,
`AtConstants`, `AtLinear`, `AtNonLinear`, `AtRound`, `AtWitness`, `AtDone`) with
three kinds of conjuncts.

1. *Meaning*: a valuation of all signals satisfies the constraints of the
   program exactly if it satisfies those in the lists of that stage, those in
   the cluster under elimination with its definitions (`JobHolds`), and the log
   (`Obeys`). Each action moves constraints from one place to another,
   or exchanges some for others that are equivalent where the log holds.
2. *Removal*: signals that have been removed are in no list that is still to be
   read. For the non-linear constraints, which are only told of the substitutions
   at the end, it says instead that each signal that was removed is, under the name
   the equalities give it, in one of the maps they will be given: this is what
   the code's set of relevant signals is for.
3. *Choice* (`Extendable`): whatever the values of the other signals, the removed
   ones can be chosen so that the log holds. The log is not a function:
   two constants for one signal are both in it. This is where the equalities and
   constants have to agree, and without that condition the statement is not kept: the
   sixth finding of section 4. Later stages remove only what no logged replacement
   of their own mentions, and so extend a choice made before.

`StatementIsTheSame` is 1 and 3 at the end: a solution of what is left extends
to a valuation that obeys the log, and so to a solution of the circuit.

*In a cluster.* `EarlierFree`: in the order of elimination no definition has a
signal that was defined before it, whether signals are taken by occurrences or
by number; so one pass over the order makes the definitions free of each other
(`NonOverlappingIs`). Signals that only one constraint has (`UniquesFit`) are
defined first and are in none of the others. Clusters have no signals in common
(`Apart`), so the substitutions of a pass do not mention each other's signals.

*Operators.* Values of expressions, folds over maps of substitutions and over
sets of constraints are recursive functions on finite sets. That they do not
depend on the order is proved from one principle on subsets (`SubsetsInduct`).
On top of it each operation has a lemma that says what it does to the
valuations: `RawIs`, `FixedIs`, `SubstitutedIs`, `FastIs`, `ClearedIs`,
`NormalIs`, `MergedIs`, `NonOverlappingIs`, `ClustersAre`, `RoundIs`, `WitnessIs`.
The invariant was checked with TLC on circuits of two constraints before it was proved.

### Field arithmetic

These theorems hold for every prime, size of a word, number of limbs and size of an
int. They are stated first for one operation and a constant prime:

| Theorem | Module | States |
|---|---|---|
| `MontgomeryProduct` | `FieldElement_proofs` | `rawMMul(a, b) * R = a * b` modulo the prime, and it is below the prime |
| `LoadedElements` | | inputs and constants stand for their numbers |
| `OperationsAgree` | | all operators, on any two representations, agree with `Result` |
| `IntsAgree` | | numbers between the ints become that int |
| `GoldilocksAgrees`, `GoldilocksInts` | `Goldilocks_proofs` | the same for one word and the prime `Phi * Phi - Phi + 1` |
| `StandsHolds` | `WitnessArithmetic_proofs` | `Spec => []IInv`: every element stands for its number |
| `AgreesWithCompilerHolds` | | `Spec => []AgreesWithCompiler` |
| `SmallNumbersAreIntsHolds` | | `Spec => []SmallNumbersAreInts` |

`OperationsAgree` and `GoldilocksAgrees` are put together from theorems on
arithmetic, comparisons, boolean operators, bits and shifts.

*Hypotheses.* `IsPrime`: the number is a prime (for division). `FitsLimbs`: it
fits the limbs and `np * Prime = -1` modulo a word, which the code generator
computes. `HasRoom`: `(Capacity - Prime + 1) * Word >= Prime`; the primes of
`constants.rs` leave 2^224 or more. `ShortsFit`: products of two ints are below the prime.
`IsGoldilocks`: the shape of that prime. All are conjuncts of `Supported`,
which TLC evaluates for the fields of the run; all three have it.

*Montgomery's product.* The loop adds one limb of `a` in each pass and shifts
by a word. Its invariant `StepDone`: after limb `i`, what is kept, without its
lowest word, is below `b + Prime`, and times `Word^(i+1)` it is the limbs of
`a` up to `i` times `b`, plus a multiple of the prime. So one subtraction is
enough at the end. That the carries lost on the way are zero follows from the
bound, from the test `cannotOptimize`, and from `HasRoom`.

*Representations.* An element is `Valid` when it has its type and, if it is a
constant, the same number in both representations: `mul` reads one, `add` the
other. `StandsFor(e, x)` adds that `toMpz(e)` is `x`. This is the invariant of
an element; that its value is right would not be preserved alone.

*Bits.* `Number(Bits(n)) = n` below the capacity of the bits, a number is larger than another one
if its set is, and the sum of two sets without common bits is that of
their union: with these the masks, the complement and the shifts are numbers
again. `qbits` is unique.

*Induction.* What `TwoTo`, `Number`, `pow` and the loop over limbs compute are
recursive functions of a number. The proofs about them take the least number
for which a statement would fail (`HasLeast`, which follows
from the library's fact that inclusion of finite sets is well-founded), and so
need no induction theorem with an operator as its parameter.

*Instances.* `field` is a variable of `WitnessArithmetic`, so its operators
are instances for a prime that is a state function. `WitnessArithmetic_proofs`
instantiates the theorems in the same way and shows that both instances have
equal operators.

### Only model-checked

Termination and every other liveness property (fairness is out of reach of the
proofs). The first finding's slots. `LargeNumbersAreRefused` and the other
claims of section 4, which are false. `EliminationIsComplete`: that an elimination
removes as many signals as there are to remove is a statement about the rank of
a set of constraints, and that rounds end one about their number; its part
`NoPanic` is proved. The properties of `TemplateWires`, for which a proof is
possible (section 7). The properties of
`FunctionLowering`, `SignalNumbering`, `ComponentCreation`, `TemplateCode`,
`CodeFolding`, `TemplateLowering` and `R1csFile`: they are about what a recursive walk over code, a
component tree or a circuit computes, and a module that declares a recursive
operator cannot hold theorems.

## 6. What is not modelled

`components` in `PROJECT.json` has the reason for each part.

* *The parser.* The grammar is generated code and the removal of anonymous
  components and tuples is structural recursion over one tree. The stack of
  included files is a small worklist.
* *The front end* (`hir`) specialises functions and templates for dimensions:
  recursion over one program.
* *Type analysis* other than the analysis of known values: each check visits
  the tree once and keeps nothing.
* *The interpreter*: arrays of more than one dimension and inline arrays,
  anonymous components, `log`. For components: arrays of them, and buses whose
  instances differ.
* *The LLZK backend*: components of an array that differ in type, buses, arrays
  of variables and array literals, calls of functions, assertions, casts, elements of
  an array of components that are never made, and the replay of bindings.
  Their state is mostly that of the MLIR library.
* *Generated code*: single instructions of the WebAssembly module, the field
  arithmetic in assembly (`fr.asm`) and that of the WebAssembly module, which
  a library generates.
* *Text output*: JSON, warnings, logs; the command line, which runs the passes
  one after the other.

In the parallel code an output stored at an index computed with the slots of
the right-hand side has its index computed again for the flag; the model
takes both to be the same.

## 7. What could follow

1. `IncludeStack`: files are read once although the first one is named as the
   user wrote it, and the graph of includes for custom gates.
2. Components: arrays of them and reads of their tags, in `TemplateWires`.
3. The instances of the front end, and how the export finds an instance again
   (`identify_node`), composed with `SignalNumbering`.
4. LLZK: arrays of variables and components that differ in type.
5. Proofs in modules without recursive operators: the counters and tags of
   `TemplateWires` against the cells that are assigned. The intervals of
   `SignalNumbering` need its walk to be a recursive function first.

## 8. How to run

In this directory, with TLC and TLAPS installed:

    tlc -workers 2 -config par_calls.cfg MCParallelRun
    tlc -workers 2 -config simplify.cfg MCConstraintSimplification
    tlapm ParallelRun_proofs.tla
    tlapm FieldElement_proofs.tla
    tlapm ConstraintSimplification_proofs.tla
    tlapm WitnessArithmetic_proofs.tla

`PROJECT.json` names the module of each configuration. The longest run, `tags`,
takes about two minutes on two cores.
