--------------------------- MODULE TemplateLowering ---------------------------
(***************************************************************************)
(* The LLZK backend on a program of one function and one template (gen_llzk *)
(* in src/llzk_backend/src/module.rs): first the function, whose life is   *)
(* that of FunctionLowering, then the template (gen_template_llzk): what   *)
(* stands before the statements, the statements one by one, the calls and  *)
(* writes of the subcomponents, and the writes that were queued.           *)
(*                                                                         *)
(* The properties run the two functions that result, and compare @compute  *)
(* with the witness the circom statements find, and @constrain with the    *)
(* equations they state about any witness.                                 *)
(***************************************************************************)
EXTENDS FunctionLowering, TemplateGenerator

CONSTANTS Modules      \* the programs considered: pairs of a function and a template

VARIABLES
    template,     \* the statements of the template; none: there is no template
    stage,        \* "function", "statements", "components", "queue" or "generated"
    todo,         \* the statements still to be generated
    compute,      \* the generator's state for @compute
    constrain     \* the same for @constrain

templateVars == <<template, stage, todo, compute, constrain>>

RECURSIVE Statements(_)
\* The statements in a list, at every depth.
Statements(stmts) ==
    UNION {{stmts[k]} \cup
              CASE stmts[k][1] = "if" -> Statements(stmts[k][3]) \cup Statements(stmts[k][4])
                [] stmts[k][1] = "while" -> Statements(stmts[k][3])
                [] stmts[k][1] = "block" -> Statements(stmts[k][2])
                [] OTHER -> {} : k \in DOMAIN stmts}

Declared == {s[2] : s \in {t \in Statements(template) : t[1] \in {"decl", "signal"}}}

BackendInit ==
    /\ \E m \in Modules : program = m[1] /\ template = m[2]
    /\ Init
    /\ stage = "function"
    /\ todo = template
    /\ compute = EntryOf("compute", concrete)
    /\ constrain = EntryOf("constrain", concrete)

\* The functions come first.
GenerateFunction == Next /\ UNCHANGED templateVars

GeneratePrologue ==
    /\ phase = "done" /\ template # <<>>
    /\ stage = "function"
    /\ stage' = "statements"
    /\ compute' = Prologue(compute, Declared)
    /\ constrain' = Prologue(constrain, Declared)
    /\ UNCHANGED <<vars, template, todo>>

GenerateTemplateStatement ==
    /\ stage = "statements" /\ todo # <<>>
    /\ compute' = GenTemplateStatement(compute, Head(todo))
    /\ constrain' = GenTemplateStatement(constrain, Head(todo))
    /\ todo' = Tail(todo)
    /\ UNCHANGED <<vars, template, stage>>

FinalizeComponents ==
    /\ stage = "statements" /\ todo = <<>>
    /\ compute' = FinalizeSubcmps(compute)
    /\ constrain' = FinalizeSubcmps(constrain)
    /\ stage' = "queue"
    /\ UNCHANGED <<vars, template, todo>>

FinalizeQueue ==
    /\ stage = "queue"
    /\ compute' = AppendQueue(compute)
    /\ constrain' = AppendQueue(constrain)
    /\ stage' = "generated"
    /\ UNCHANGED <<vars, template, todo>>

BackendNext ==
    \/ GenerateFunction
    \/ GeneratePrologue
    \/ GenerateTemplateStatement
    \/ FinalizeComponents
    \/ FinalizeQueue

BackendSpec == BackendInit /\ [][BackendNext]_<<vars, templateVars>>

-----------------------------------------------------------------------------
(***************************************************************************)
(* What the statements mean.  A place is a signal, an element of one, or a *)
(* signal of a component: the name and what leads from it to the place.  A *)
(* run has the scopes of the variables, the value of every place assigned  *)
(* so far, and the equations stated so far.  In a run for equations all    *)
(* places have a value from the beginning.                                 *)
(***************************************************************************)
\* What a subcomponent computes: any function that tells its inputs apart.
SubOutput(args) ==
    LET f[k \in 0 .. Len(args)] == IF k = 0 THEN 1 ELSE f[k - 1] + k * args[k]
    IN  f[Len(args)]

RECURSIVE Value(_, _)
PlaceOf(run, x, path) ==
    <<x>> \o [k \in DOMAIN path |-> IF path[k][1] = "at" THEN Value(run, path[k][2])
                                    ELSE path[k][2]]
Value(run, e) ==
    CASE e[1] = "get" -> run.places[PlaceOf(run, e[2], e[3])]
      [] e[1] = "sum" -> Value(run, e[2]) + Value(run, e[3])
      [] OTHER -> Val(<<[x \in {y \in DOMAIN Signals : <<y>> \in DOMAIN run.places} |->
                             run.places[<<x>>]]>> \o run.store, e)

\* A component runs when the last of its inputs is assigned.
RunSubcmp(run, c) ==
    LET at == [k \in DOMAIN Inputs(c[1]) |-> Append(c, Inputs(c[1])[k])]
    IN  IF \A k \in DOMAIN at : at[k] \in DOMAIN run.places
        THEN [run EXCEPT !.places =
                 (Append(c, "o") :> SubOutput([k \in DOMAIN at |-> run.places[at[k]]])) @@ @]
        ELSE run

AssignPlace(run, p, v) ==
    LET r == [run EXCEPT !.places = (p :> v) @@ @]
    IN  IF IsSubcmp(p[1]) THEN RunSubcmp(r, Front(p)) ELSE r

Stated(run, l, r) == [run EXCEPT !.equations = @ \cup {<<"eq", l, r>>}]

RECURSIVE RunTemplate(_, _), RunTemplateStatement(_, _)

RunScope(run, stmts) ==
    [RunTemplate([run EXCEPT !.store = Append(@, <<>>)], stmts)
        EXCEPT !.store = SubSeq(@, 1, Len(run.store))]

RunTemplateStatement(run, s) ==
    LET place == PlaceOf(run, s[2], s[3])
    IN  CASE s[1] \in {"signal", "component"} -> run
          [] s[1] = "decl" ->
                [run EXCEPT !.store[Len(run.store)] = (s[2] :> 0) @@ @]
          [] s[1] = "set" -> [run EXCEPT !.store = Assign(@, s[2], Value(run, s[3]))]
          [] s[1] = "make" -> IF run.given THEN run ELSE RunSubcmp(run, place)
          [] s[1] = "hint" ->
                IF run.given THEN run ELSE AssignPlace(run, place, Value(run, s[4]))
          [] s[1] = "wire" ->
                IF run.given THEN Stated(run, run.places[place], Value(run, s[4]))
                ELSE AssignPlace(run, place, Value(run, s[4]))
          [] s[1] = "same" -> Stated(run, Value(run, s[2]), Value(run, s[3]))
          [] s[1] = "block" -> RunScope(run, s[2])
          [] s[1] = "if" -> RunScope(run, IF Value(run, s[2]) # 0 THEN s[3] ELSE s[4])
          [] s[1] = "while" ->
                IF Value(run, s[2]) = 0 THEN run
                ELSE RunTemplateStatement(RunScope(run, s[3]), s)

RunTemplate(run, stmts) ==
    IF stmts = <<>> THEN run
    ELSE RunTemplate(RunTemplateStatement(run, Head(stmts)), Tail(stmts))

\* The components, as places.
Instances(c) == IF Components[c].size = 0 THEN {<<c>>}
                ELSE {<<c, i>> : i \in 0 .. Components[c].size - 1}
AllInstances == UNION {Instances(c) : c \in DOMAIN Components}

SourceWitness(inputs) ==
    RunTemplate([store |-> <<<<>>>>, places |-> inputs, equations |-> {}, given |-> FALSE],
                template).places

\* The equations of the statements, and those of every component.
SourceEquations(places) ==
    RunTemplate([store |-> <<<<>>>>, places |-> places, equations |-> {}, given |-> TRUE],
                template).equations
    \cup {<<c[1], places[Append(c, "o")]>>
              \o [k \in DOMAIN Inputs(c[1]) |-> places[Append(c, Inputs(c[1])[k])]] :
          c \in AllInstances}

-----------------------------------------------------------------------------
(***************************************************************************)
(* What the generated functions do.  Pods, arrays and structs are in a     *)
(* heap, where a reference, a number below every other, says where; an     *)
(* element of an array that is read is a copy.  In @constrain, which       *)
(* changes nothing, what a member holds is the value itself.               *)
(***************************************************************************)
FirstRef == -10
IsRef(v) == v <= FirstRef
Entry(v) == FirstRef + 1 - v
Stored(s, v) == IF s.given THEN v ELSE IF IsRef(v) THEN s.heap[Entry(v)] ELSE <<>>

FieldOf(f, key) == IF key \in DOMAIN f THEN f[key] ELSE NoVal

\* A new entry of the heap; its reference.
Store(s, f) == [s EXCEPT !.heap = Append(@, f)]
LastRef(s) == FirstRef + 1 - Len(s.heap)

\* The element, copied if it is a reference.
Copied(s, v) == IF ~s.given /\ IsRef(v) THEN Store(s, Stored(s, v)) ELSE s
CopyOf(s, v) == IF ~s.given /\ IsRef(v) THEN LastRef(s) - 1 ELSE v

Defined(s, op, v) == [s EXCEPT !.env = (op.res :> v) @@ @]

\* An array of n pods has n entries, followed by its own.
Allocated(s, op) ==
    LET ref(k) == LastRef(s) - k
        heap == IF op.pods THEN s.heap \o [k \in 1 .. op.size |-> <<>>] ELSE s.heap
        elements == [k \in 0 .. op.size - 1 |-> IF op.pods THEN ref(k + 1) ELSE NoVal]
        t == Store([s EXCEPT !.heap = heap], elements)
    IN  Defined(t, op, LastRef(t))

\* An operation without blocks, whose operands are a.
Simple(s, op, a) ==
    CASE op.op = "new" -> Defined(Store(s, a), op, LastRef(s) - 1)
      [] op.op = "read" -> Defined(s, op, FieldOf(Stored(s, a[1]), op.name))
      [] op.op = "write" -> [s EXCEPT !.heap[Entry(a[1])] = (op.name :> a[2]) @@ @]
      [] op.op = "aread" ->
            LET v == FieldOf(Stored(s, a[1]), a[2])
            IN  IF s.given THEN Defined(s, op, v) ELSE Defined(Copied(s, v), op, CopyOf(s, v))
      [] op.op = "awrite" -> [s EXCEPT !.heap[Entry(a[1])] = (a[2] :> a[3]) @@ @]
      [] op.op = "writem" -> [s EXCEPT !.members = (op.name :> a[1]) @@ @]
      [] op.op = "eq" -> [s EXCEPT !.equations = @ \cup {<<"eq", a[1], a[2]>>}]
      [] op.op = "sum" -> Defined(s, op, IF NoVal \in {a[1], a[2]} THEN NoVal ELSE a[1] + a[2])
      [] op.op = "call" ->
            Defined(Store(s, [o |-> IF \E k \in DOMAIN a : a[k] = NoVal THEN NoVal
                                    ELSE SubOutput(a)]), op, LastRef(s) - 1)
      [] op.op = "constrain" ->
            [s EXCEPT !.equations = @ \cup
                {<<op.name, FieldOf(a[1], "o")>> \o Tail(a)}]

RECURSIVE Exec(_, _, _), ExecWhile(_, _, _, _), ExecFor(_, _, _)

\* From operation k of block b on.
Exec(s, b, k) ==
    LET op == s.blocks[b][k]
        then(t) == Exec(t, b, k + 1)
        \* behind an operation with blocks only its results are visible
        after(t) == then([t EXCEPT !.env = Bind(s.env, op.res, t.out)])
    IN  CASE op.op = "return" -> s
          [] op.op = "condition" -> [s EXCEPT !.out = "" :> Arg(s.env, op.arg)]
          [] op.op = "yield" ->
                [s EXCEPT !.out = [x \in DOMAIN op.vals |-> Arg(s.env, op.vals[x])]]
          [] op.op = "const" -> then(Defined(s, op, op.val))
          [] op.op = "member" -> then(Defined(s, op, s.members[op.name]))
          [] op.op = "array" -> then(Allocated(s, op))
          [] op.op = "is0" ->
                then(Defined(s, op, LET v == Arg(s.env, op.arg)
                                    IN  IF v = NoVal THEN NoVal ELSE IF v = 0 THEN 1 ELSE 0))
          [] op.op = "if" ->
                LET c == Arg(s.env, op.cond)
                    branch == IF c # 0 THEN op.then ELSE op.else
                IN  after(IF c = NoVal \/ branch = 0 THEN [s EXCEPT !.out = <<>>]
                          ELSE Exec(s, branch, 1))
          [] op.op = "while" ->
                after(ExecWhile(s, op, [x \in DOMAIN op.init |-> Arg(s.env, op.init[x])], Fuel))
          [] op.op = "for" -> then([ExecFor(s, op, 0) EXCEPT !.env = s.env])
          [] "args" \in DOMAIN op ->
                then(Simple(s, op, [x \in DOMAIN op.args |-> Arg(s.env, op.args[x])]))
          [] OTHER -> then(Defined(s, op, Computed(s.env, op)))

ExecWhile(s, op, carried, fuel) ==
    LET c == Exec([s EXCEPT !.env = Bind(@, op.bargs, carried)], op.before, 1)
        d == Exec([c EXCEPT !.env = Bind(@, op.dargs, carried)], op.body, 1)
    IN  CASE fuel = 0 \/ c.out[""] = NoVal -> [c EXCEPT !.out = <<>>]
          [] fuel # 0 /\ c.out[""] = 0 -> [c EXCEPT !.out = carried]
          [] OTHER -> ExecWhile(d, op, d.out, fuel - 1)

ExecFor(s, op, i) ==
    IF i = op.size THEN s
    ELSE ExecFor(Exec([s EXCEPT !.env = (op.idx :> i) @@ @], op.body, 1), op, i + 1)

Executed(h, args, members, given) ==
    Exec([blocks |-> h.blocks, env |-> args, heap |-> <<>>, members |-> members,
          equations |-> {}, out |-> <<>>, given |-> given], 1, 1)

ArgumentsOf(places) ==
    LET order == SelectSeq(NameOrder, LAMBDA x : x \in InputSignals)
    IN  [k \in DOMAIN order |-> places[<<order[k]>>]]

\* The value of a place in the struct that s has written.
Found(s, p) ==
    LET c == IsSubcmp(p[1])
        name == IF c /\ IsInput(p[1], Last(p)) THEN InputsOf(p[1]) ELSE p[1]
        step(v, key) == IF v = NoVal THEN NoVal ELSE FieldOf(Stored(s, v), key)
    IN  Sq!FoldLeft(step, FieldOf(s.members, name), Tail(p))

\* The members of a struct with the given value at every place.
ElementsOf(x, n, F(_)) == IF n = 0 THEN F(<<x>>) ELSE [i \in 0 .. n - 1 |-> F(<<x, i>>)]
MembersOf(places) ==
    [m \in Members |->
        IF m \in DOMAIN Signals
        THEN ElementsOf(m, Signals[m].size, LAMBDA p : places[p])
        ELSE LET c == CHOOSE x \in DOMAIN Components : m \in {x, InputsOf(x)}
             IN  ElementsOf(c, Components[c].size, LAMBDA p :
                     IF m = c THEN [o |-> places[Append(p, "o")]]
                     ELSE [f \in {Inputs(c)[k] : k \in DOMAIN Inputs(c)} |->
                               places[Append(p, f)]])]

-----------------------------------------------------------------------------
(* Properties. *)

SomeInputs == {[p \in {<<x>> : x \in InputSignals} |-> f[p[1]]] :
                  f \in [InputSignals -> Arguments]}

\* Any values: those of the inputs, and another one for each of the other places.
Position(x) == CHOOSE i \in DOMAIN NameOrder : NameOrder[i] = x
SomePlaces(inputs) ==
    LET signals == UNION {IF Signals[x].size = 0 THEN {<<x>>}
                          ELSE {<<x, i>> : i \in 0 .. Signals[x].size - 1} :
                             x \in DOMAIN Signals}
        others == UNION {{Append(c, f) : f \in {"o"} \cup {Inputs(c[1])[k] :
                              k \in DOMAIN Inputs(c[1])}} : c \in AllInstances}
        number(p) == 1000 * Position(p[1])
                     + CASE Len(p) = 1 -> 0
                         [] Len(p) = 2 /\ ~IsSubcmp(p[1]) -> p[2]
                         [] Len(p) = 2 /\ IsSubcmp(p[1]) -> Position(p[2])
                         [] Len(p) = 3 -> 100 * p[2] + Position(p[3])
    IN  [p \in signals \cup others |-> IF p \in DOMAIN inputs THEN inputs[p] ELSE number(p)]

(***************************************************************************)
(* A loop changes a variable that shares its value with another name: then *)
(* the uses of the other name are replaced as well (CopiesStayApart).      *)
(***************************************************************************)
LoopChangesCopy ==
    \E l \in Statements(template), s \in Statements(template) :
        /\ l[1] = "while"
        /\ s[1] \in {"set", "hint", "wire"}
        /\ s[Len(s)][1] = "var"
        /\ \E t \in Statements(l[3]) : t[1] = "set" /\ t[2] \in {s[2], s[Len(s)][2]}

WitnessOf(inputs) ==
    LET s == Executed(compute, ArgumentsOf(inputs), <<>>, FALSE)
        source == SourceWitness(inputs)
    IN  \A p \in DOMAIN source \ DOMAIN inputs : Found(s, p) = source[p]

(***************************************************************************)
(* @compute leaves in the struct the value the circom statements assign to *)
(* every signal and to every input and output of a component, for all      *)
(* inputs: whatever branch or loop assigns it, and however the inputs of a *)
(* component are spread over the statements, the component runs once they  *)
(* are all there and before a statement reads what it computed.            *)
(***************************************************************************)
ComputesTheWitness ==
    stage = "generated" /\ ~LoopChangesCopy => \A inputs \in SomeInputs : WitnessOf(inputs)

(***************************************************************************)
(* @constrain states, about any values of the members, the equations the   *)
(* circom statements state and no other, and has every component state its *)
(* own about its inputs and outputs.                                       *)
(***************************************************************************)
StatesTheEquations ==
    stage = "generated" /\ ~LoopChangesCopy =>
        \A inputs \in SomeInputs :
            LET places == SomePlaces(inputs)
            IN  Executed(constrain, ArgumentsOf(inputs), MembersOf(places), TRUE).equations
                    = SourceEquations(places)
=============================================================================
