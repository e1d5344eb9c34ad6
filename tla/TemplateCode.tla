----------------------------- MODULE TemplateCode -----------------------------
(***************************************************************************)
(* When the subcomponents of a template run.  The compiler marks every     *)
(* store into an input of a subcomponent as the last one, not the last     *)
(* one, unknown or empty (src/compiler/src/ir_processing/                  *)
(* build_inputs_info.rs), and the C++ back end decrements the              *)
(* subcomponent's counter, checks it and runs the subcomponent after the   *)
(* mark; the WebAssembly back end always decrements and runs at zero       *)
(* (store_bucket.rs, call_bucket.rs).                                      *)
(*                                                                         *)
(* A template has an array of components, c, one per member of Instances,  *)
(* or an anonymous component in a loop; its programs are written a         *)
(* statement at a time: any that stores no element twice.  Loops are not   *)
(* unrolled, so the analysis sees an index only if it is a constant, and   *)
(* the size of an input only if all the instances agree on it.             *)
(***************************************************************************)
EXTENDS Integers, FiniteSets, Sequences, SequencesExt, TLC

CONSTANTS
    Instances,     \* the components of the array, 0 .. n - 1
    Fields,        \* the input signals of their templates
    SizeTables,    \* the sizes of the signals, by field and instance
    Statements,    \* the statements a template may have
    MaxStatements  \* how many it has at most

VARIABLES
    phase,    \* "written", then "running", "ended", "stopped" (an assertion) or "panic"
    program,  \* the statements of the template
    sizes,    \* a member of SizeTables
    sanity,   \* the level of --sanity_check, 2 unless the user chooses
    todo,     \* the stores still to execute, in order
    stored,   \* the elements <<instance, field, k>> that have their value
    cpp,      \* the inputCounter of the components and how often they ran: C++
    wasm      \* the same, in WebAssembly

vars == <<phase, program, sizes, sanity, todo, stored, cpp, wasm>>

Word == 2 ^ 16   \* the width of an inputCounter; 32 bits in the code

-----------------------------------------------------------------------------
\* The statements.  An index is a constant or a loop variable.

At(n) == [var |-> "none", at |-> n]
Var(v) == [var |-> v, at |-> 0]
Whole == [var |-> "whole", at |-> 0]   \* no index: all the elements

Store(cmp, field, elem) == [op |-> "store", cmp |-> cmp, field |-> field, elem |-> elem,
                            anonymous |-> FALSE, call |-> FALSE]
Anonymous(field) == [Store(Var("i"), field, Whole) EXCEPT !.anonymous = TRUE]
\* cmp.field <== function(...): the call itself stores its result
Called(cmp, field) == [Store(cmp, field, Whole) EXCEPT !.call = TRUE]

\* for (i = 0; i < n; i++) body
EachInstance(body) == [op |-> "loop", over |-> "instances", body |-> body]
\* for (j = 0; j < length; j++) cmp.field[j] <== ...
EachElement(cmp, field) ==
    [op |-> "loop", over |-> "elements", body |-> << Store(cmp, field, Var("j")) >>]
\* if (i == n) yes else no; outside of the loops i is a parameter
When(n, yes, no) == [op |-> "branch", at |-> n, yes |-> yes, no |-> no]

Value(index, env) == IF index.var = "none" THEN index.at ELSE env[index.var]

-----------------------------------------------------------------------------
(***************************************************************************)
(* ProcessedSymbol::new: the possible sizes of an input are those of all   *)
(* instances of the array, whatever the index; an access to an element     *)
(* divides each by the length of its dimension.                            *)
(***************************************************************************)
DividesByZero(store) == store.elem # Whole /\ \E k \in Instances : sizes[store.field][k] = 0

PossibleSizes(store) == IF store.elem = Whole
                        THEN {sizes[store.field][k] : k \in Instances}
                        ELSE {1}
Single(store, n) == PossibleSizes(store) = {n}
AlwaysEmpty(store) == Single(store, 0)

-----------------------------------------------------------------------------
(***************************************************************************)
(* build_inputs_info.rs: the lists are visited backwards.  known has an    *)
(* entry for every component seen at a constant index and every anonymous  *)
(* one, and says if its last store is found; unknown has the names seen    *)
(* at an index that is not a constant; level has the components stored     *)
(* later in the same list.                                                 *)
(***************************************************************************)
NothingSeen == [known |-> <<>>, unknown |-> {}]

LastInfo(decrement, last) == [decrement |-> decrement, last |-> last]
Seen(info, key) == key \in DOMAIN info.known
Saw(info, key, value) ==
    [info EXCEPT !.known = [k \in DOMAIN @ \cup {key} |-> IF k = key THEN value ELSE info.known[k]]]

\* One store, marked, with what is known before it.
Marked(store, status, decrement, info, level) ==
    [stmt |-> [status |-> status, decrement |-> decrement] @@ store, info |-> info, level |-> level]

VisitAnonymous(store, info, level) ==
    IF Seen(info, "anonymous")
    THEN Marked(store, "NoLast", FALSE, info, level)
    ELSE Marked(store, "Last", FALSE, Saw(info, "anonymous", LastInfo(FALSE, TRUE)), level)

\* The names seen at unknown indexes do not matter.
VisitFirstOfKnown(store, key, info, level, inLoop) ==
    IF inLoop
    THEN Marked(store, "Unknown", TRUE, Saw(info, key, LastInfo(TRUE, FALSE)), level \cup {key})
    ELSE Marked(store, "Last", FALSE, Saw(info, key, LastInfo(FALSE, TRUE)), level)

\* A constant index that no later store has.
VisitFirst(store, key, info, level, inLoop) ==
    IF inLoop
    THEN Marked(store, "Unknown", TRUE, Saw(info, key, LastInfo(TRUE, FALSE)), level \cup {key})
    ELSE IF "c" \in info.unknown
    THEN Marked(store, "Unknown", TRUE, Saw(info, key, LastInfo(TRUE, TRUE)), level)
    ELSE Marked(store, "Last", FALSE, Saw(info, key, LastInfo(FALSE, TRUE)), level)

\* A store seen in a body is taken for the last one.
VisitAgainAfterBody(store, key, info, level, inLoop) ==
    Marked(store, "NoLast", info.known[key].decrement, info, level)

VisitAgain(store, key, info, level, inLoop) ==
    LET later == info.known[key]
    IN  IF later.last THEN Marked(store, "NoLast", later.decrement, info, level)
        ELSE IF key \in level THEN Marked(store, "NoLast", TRUE, info, level)
        ELSE IF inLoop THEN Marked(store, "Unknown", TRUE, info, level \cup {key})
        ELSE Marked(store, "Unknown", TRUE, Saw(info, key, LastInfo(later.decrement, TRUE)), level)

VisitStore(store, info, level, inLoop) ==
    LET key == ToString(store.cmp.at)
    IN  IF AlwaysEmpty(store) THEN Marked(store, "SizeZero", TRUE, info, level)
        ELSE IF store.anonymous THEN VisitAnonymous(store, info, level)
        ELSE IF store.cmp.var # "none"
        THEN Marked(store, "Unknown", TRUE, [info EXCEPT !.unknown = @ \cup {"c"}], level)
        ELSE IF Seen(info, key) THEN VisitAgain(store, key, info, level, inLoop)
        ELSE VisitFirst(store, key, info, level, inLoop)

RECURSIVE VisitList(_, _, _, _)
\* visit_instruction: a body has a level of its own and counts as a loop's.
VisitInstruction(stmt, info, level, inLoop) ==
    CASE stmt.op = "store" -> VisitStore(stmt, info, level, inLoop)
      [] stmt.op = "loop" ->
            LET body == VisitList(stmt.body, info, {}, TRUE)
            IN  [stmt |-> [stmt EXCEPT !.body = body.list], info |-> body.info, level |-> level]
      [] stmt.op = "branch" ->
            LET yes == VisitList(stmt.yes, info, {}, TRUE)
                no == VisitList(stmt.no, yes.info, {}, TRUE)
            IN  [stmt |-> [stmt EXCEPT !.yes = yes.list, !.no = no.list],
                 info |-> no.info, level |-> level]
VisitList(list, info, level, inLoop) ==
    IF list = <<>> THEN [list |-> <<>>, info |-> info]
    ELSE LET v == VisitInstruction(Last(list), info, level, inLoop)
             front == VisitList(Front(list), v.info, v.level, inLoop)
         IN  [list |-> Append(front.list, v.stmt), info |-> front.info]

Analysed(list) == VisitList(list, NothingSeen, {}, FALSE).list

-----------------------------------------------------------------------------
\* LoopBucket and BranchBucket: the stores a list executes, in order.

InstanceOrder == [k \in 1 .. Cardinality(Instances) |-> k - 1]

ElementsOf(store, env) ==
    LET k == Value(store.cmp, env)
    IN  IF store.elem = Whole
        THEN {<<k, store.field, e>> : e \in 0 .. sizes[store.field][k] - 1}
        ELSE {<<k, store.field, Value(store.elem, env)>>}

RECURSIVE Executed(_, _)
ExecutedBy(stmt, env) ==
    CASE stmt.op = "store" ->
            << [store |-> stmt, cmp |-> Value(stmt.cmp, env), elems |-> ElementsOf(stmt, env)] >>
      [] stmt.op = "branch" -> Executed(IF env.i = stmt.at THEN stmt.yes ELSE stmt.no, env)
      [] stmt.op = "loop" ->
            LET store == stmt.body[1]
                rounds == IF stmt.over = "instances" THEN InstanceOrder
                          ELSE [e \in 1 .. sizes[store.field][Value(store.cmp, env)] |-> e - 1]
                var == IF stmt.over = "instances" THEN "i" ELSE "j"
            IN  FoldLeft(LAMBDA done, n : done \o Executed(stmt.body, [env EXCEPT ![var] = n]),
                         <<>>, rounds)
Executed(list, env) == FoldLeft(LAMBDA done, stmt : done \o ExecutedBy(stmt, env), <<>>, list)

Env == [i |-> 0, j |-> 0]

\* The elements of the inputs, and those a sequence of executed stores gives.
InputsOf(k) == UNION {{<<k, f, e>> : e \in 0 .. sizes[f][k] - 1} : f \in Fields}
Given(stores) == UNION {stores[n].elems : n \in 1 .. Len(stores)}
\* component_representation.rs accepts one value per element.
OneValueEach(stores) ==
    \A m, n \in 1 .. Len(stores) : m # n => stores[m].elems \cap stores[n].elems = {}

RECURSIVE StoresIn(_)
StoresIn(list) ==
    UNION {CASE list[n].op = "store" -> {list[n]}
             [] list[n].op = "loop" -> StoresIn(list[n].body)
             [] list[n].op = "branch" -> StoresIn(list[n].yes \o list[n].no) : n \in 1 .. Len(list)}

-----------------------------------------------------------------------------
Init ==
    /\ phase = "written"
    /\ program = <<>>
    /\ sizes \in SizeTables
    /\ sanity = 2
    /\ todo = <<>>
    /\ stored = {}
    /\ cpp = <<>>
    /\ wasm = <<>>

\* The programmer's next statement.
Write(stmt) ==
    /\ phase = "written"
    /\ Len(program) < MaxStatements
    /\ ~ Contains(program, stmt)
    /\ program' = Append(program, stmt)
    /\ OneValueEach(Executed(program', Env))
    /\ (stmt.op = "store" /\ stmt.elem # Whole) => stmt.elem.at < sizes[stmt.field][stmt.cmp.at]
    /\ UNCHANGED <<phase, sizes, sanity, todo, stored, cpp, wasm>>

\* The component created, as CreateCmpBucket does it: without inputs it runs at once.
Created(k) == LET n == Cardinality(InputsOf(k))
              IN  [counter |-> n, runs |-> IF n = 0 THEN 1 ELSE 0]

\* All the inputs have a value in the program, which is compiled and started.
Compile ==
    /\ phase = "written"
    /\ sanity' \in {1, 2}
    /\ Given(Executed(program, Env)) = UNION {InputsOf(k) : k \in Instances}
    /\ IF \E s \in StoresIn(program) : DividesByZero(s)
       THEN phase' = "panic" /\ UNCHANGED <<todo, cpp, wasm>>
       ELSE /\ phase' = "running"
            /\ todo' = Executed(Analysed(program), Env)
            /\ cpp' = [k \in Instances |-> Created(k)]
            /\ wasm' = [k \in Instances |-> Created(k)]
    /\ UNCHANGED <<program, sizes, stored>>

Decremented(cmp, size) == [cmp EXCEPT !.counter = (@ - size) % Word]
Ran(cmp) == [cmp EXCEPT !.runs = @ + 1]
RunAtZero(cmp) == IF cmp.counter = 0 THEN Ran(cmp) ELSE cmp

\* StoreBucket::produce_c, for an input of a component.
CppStored(cmp, store, size) ==
    LET less == Decremented(cmp, size)
    IN  CASE store.status = "SizeZero" -> cmp
          [] store.status = "NoLast" -> IF store.decrement \/ sanity >= 2 THEN less ELSE cmp
          [] store.status = "Last" -> Ran(IF sanity >= 2 THEN less ELSE cmp)
          [] store.status = "Unknown" -> RunAtZero(less)
\* The assertions of level 2.
CppAsserts(cmp, store, size) ==
    LET less == Decremented(cmp, size)
    IN  sanity >= 2 => CASE store.status = "NoLast" -> less.counter > 0
                         [] store.status = "Last" -> less.counter = 0
                         [] OTHER -> TRUE

\* CallBucket::produce_c repeats the code of stores.
CppCalled(cmp, store, size) == CppStored(cmp, store, size)

\* StoreBucket::produce_wasm: no code if the size is the constant 0.
WasmStored(cmp, store, size) ==
    IF AlwaysEmpty(store) THEN cmp ELSE RunAtZero(Decremented(cmp, size))
\* CallBucket::produce_wasm: the same, whatever the size.
WasmCalled(cmp, store, size) == RunAtZero(Decremented(cmp, size))

Execute ==
    /\ phase = "running"
    /\ todo # <<>>
    /\ LET head == Head(todo)
           size == Cardinality(head.elems)
           k == head.cmp
       IN  /\ stored' = stored \cup head.elems
           /\ IF CppAsserts(cpp[k], head.store, size)
              THEN /\ cpp' = [cpp EXCEPT ![k] = IF head.store.call
                                                THEN CppCalled(@, head.store, size)
                                                ELSE CppStored(@, head.store, size)]
                   /\ phase' = phase
              ELSE /\ cpp' = cpp
                   /\ phase' = "stopped"
           /\ wasm' = [wasm EXCEPT ![k] = IF head.store.call
                                          THEN WasmCalled(@, head.store, size)
                                          ELSE WasmStored(@, head.store, size)]
    /\ todo' = Tail(todo)
    /\ UNCHANGED <<program, sizes, sanity>>

\* The end of the template's run function checks the counters.
End ==
    /\ phase = "running"
    /\ todo = <<>>
    /\ phase' = IF sanity >= 2 /\ \E k \in Instances : cpp[k].counter # 0
                THEN "stopped" ELSE "ended"
    /\ UNCHANGED <<program, sizes, sanity, todo, stored, cpp, wasm>>

Next ==
    \/ \E stmt \in Statements : Write(stmt)
    \/ Compile
    \/ Execute
    \/ End

Spec == Init /\ [][Next]_vars

-----------------------------------------------------------------------------
\* A store that is empty here, and not for all the components of the array, or
\* whose value is an empty result.
EmptyAmongOthers(store, elems) == elems = {} /\ (store.call \/ ~ AlwaysEmpty(store))

HasEmptyAmongOthers ==
    \E n \in 1 .. Len(Executed(program, Env)) :
        LET e == Executed(program, Env)[n] IN EmptyAmongOthers(e.store, e.elems)

RunsOnce ==
    phase \in {"running", "ended"} /\ ~ HasEmptyAmongOthers =>
        \A k \in Instances : LET due == IF InputsOf(k) \subseteq stored THEN 1 ELSE 0
                             IN  cpp[k].runs = due /\ wasm[k].runs = due

\* The assertions the C++ back end writes after a store and at the end of a
\* template (--sanity_check 2, the default) hold.
AssertionsHold == phase = "stopped" => HasEmptyAmongOthers

(***************************************************************************)
(* In both back ends a component runs exactly once, at the moment the last *)
(* element of its inputs is stored: build_inputs_info.rs never marks the   *)
(* wrong store as the last one, whatever loops and branches the stores are *)
(* in and whether the counters are decremented or not; and the assertions  *)
(* that check it never stop an accepted program.  Stores that are empty,   *)
(* but not known to be, are left out: see EmptyStoresRunNothing.           *)
(***************************************************************************)
RunsWhenComplete == RunsOnce /\ AssertionsHold

\* "no need to run sub component because size 0 assignment" (store_bucket.rs):
\* a store of no elements does not run the component.
EmptyStoresRunNothing ==
    [][phase = "running" /\ todo # <<>> /\ Head(todo).elems = {} =>
          \A k \in Instances : cpp'[k].runs = cpp[k].runs /\ wasm'[k].runs = wasm[k].runs]_vars
===============================================================================
