-------------------------- MODULE TemplateGenerator --------------------------
(***************************************************************************)
(* How the LLZK backend turns the body of a circom template into the two   *)
(* functions of an LLZK struct (template.rs, write_chain.rs, lvalue.rs and *)
(* subcmp.rs of src/llzk_backend/src).                                     *)
(*                                                                         *)
(* @compute finds the witness: it assigns the members of the struct, and   *)
(* runs a subcomponent when its last input has been written, which it      *)
(* knows from a counter in the memory of the subcomponent.  @constrain     *)
(* states the equations between members that are there already.  Both are  *)
(* generated from the same statements, each with a generator state of      *)
(* FunctionGenerator; what one does never depends on the other, so an      *)
(* operator below is about one of them, named by g.mode.                   *)
(*                                                                         *)
(* Data: an expression is one of those of FunctionGenerator, a sum, or     *)
(* <<"get", x, path>>, the place path leads to from x, where a path is a   *)
(* sequence of <<"at", index expression>> and <<"dot", signal>>.  Arrays   *)
(* have one dimension, signals of a subcomponent none.  Components of an   *)
(* array that differ in type (the "mixed" layout), buses, calls, asserts,  *)
(* arrays of variables, array literals and casts are left out.             *)
(***************************************************************************)
EXTENDS FunctionGenerator

CONSTANTS
    Signals,      \* name -> [size |-> its length, 0 for a scalar, input |-> is it one]
    Components    \* name -> [size, inputs |-> names in order, params |-> has parameters]

IsSubcmp(x) == x \in DOMAIN Components
InputsOf(x) == x \o "$inputs"
Inputs(x) == Components[x].inputs
IsInput(x, signal) == \E k \in DOMAIN Inputs(x) : Inputs(x)[k] = signal

-----------------------------------------------------------------------------
(* Operations on pods, structs and arrays; a result, if any, is g.next. *)

New(g, fields) == Fresh(Emit(g, [op |-> "new", res |-> g.next, args |-> fields]))
NewArray(g, n, pods) ==
    Fresh(Emit(g, [op |-> "array", res |-> g.next, size |-> n, pods |-> pods]))
Read(g, pod, f) ==
    Fresh(Emit(g, [op |-> "read", res |-> g.next, args |-> <<pod>>, name |-> f]))
Write(g, pod, f, v) == Emit(g, [op |-> "write", args |-> <<pod, v>>, name |-> f])
ArrayRead(g, a, i) == Fresh(Emit(g, [op |-> "aread", res |-> g.next, args |-> <<a, i>>]))
ArrayWrite(g, a, i, v) == Emit(g, [op |-> "awrite", args |-> <<a, i, v>>])
ReadMember(g, x) == Fresh(Emit(g, [op |-> "member", res |-> g.next, name |-> x]))
WriteMember(x, v) == [op |-> "writem", args |-> <<v>>, name |-> x]
ConstrainEq(g, l, r) == Emit(g, [op |-> "eq", args |-> <<l, r>>])

RECURSIVE ReadAll(_, _, _)
ReadAll(g, pod, names) ==
    IF names = <<>> THEN g ELSE ReadAll(Read(g, pod, Head(names)), pod, Tail(names))

\* The inputs of component x, read from a pod: the state and the values.
DecomposePod(g, x, pod) ==
    <<ReadAll(g, pod, Inputs(x)), [k \in DOMAIN Inputs(x) |-> g.next + k - 1]>>

ComputeCall(p, x) ==
    Fresh(Emit(p[1], [op |-> "call", res |-> p[1].next, args |-> p[2], name |-> x]))
GenComputeCall(g, x, pod) == ComputeCall(DecomposePod(g, x, pod), x)

GenConstrainCall(g, x, subcmp, pod) ==
    LET p == DecomposePod(g, x, pod)
    IN  Emit(p[1], [op |-> "constrain", args |-> <<subcmp>> \o p[2], name |-> x])

(***************************************************************************)
(* A loop over 0 .. n - 1: its block is opened, filled by Body, which is   *)
(* given the induction variable, and closed.                               *)
(***************************************************************************)
OpenLoop(g, n) ==
    LET h == Const(Const(Const(NewBlock(g), n), 0), 1)
        b == LastBlock(h)
    IN  Push(Emit(Fresh(h), [op |-> "for", size |-> n, idx |-> h.next, body |-> b]), b)

CloseLoop(g) == AppendTo(Popped(g), TopBlock(g), Yield(<<>>, FALSE))

GenLoop(g, n, Body(_, _)) ==
    LET h == OpenLoop(g, n) IN CloseLoop(Body(h, h.next - 1))

-----------------------------------------------------------------------------
(* Expressions and places: the state and the value. *)

RECURSIVE GenTemplateExpr(_, _), GetValue(_, _, _, _)

GenSum(l, r) ==
    <<Fresh(Emit(r[1], [op |-> "sum", res |-> r[1].next, args |-> <<l[2], r[2]>>])), r[1].next>>
GenRight(l, e) == GenSum(l, GenTemplateExpr(l[1], e))

GenTemplateExpr(g, e) ==
    CASE e[1] = "get" -> GetValue(g, e[2], e[3], "")
      [] e[1] = "sum" -> GenRight(GenTemplateExpr(g, e[2]), e[3])
      [] OTHER -> GenExpr(g, e)

\* An index is cast, in the block where it is used.
GenIndex(g, e) ==
    LET i == GenTemplateExpr(g, e) IN <<Unary(i[1], "add", i[2], 0), i[1].next>>

ReadAt(a, i) == <<ArrayRead(i[1], a[2], i[2]), i[1].next>>

\* An output is a member of the component, which @compute keeps in its memory.
ReadDot(p, x, signal) ==
    LET mem == p[1].mode = "compute" /\ ~IsInput(x, signal)
        g == IF mem THEN Read(p[1], p[2], "comp") ELSE p[1]
    IN  <<Read(g, IF mem THEN p[1].next ELSE p[2], signal), g.next>>

(***************************************************************************)
(* The value at the end of a path.  The inputs of a component are in a pod *)
(* with a name of its own, and that is where the path begins for an input; *)
(* over is "inputs" or "plain" when the caller has decided which one.      *)
(***************************************************************************)
GetValue(g, x, path, over) ==
    IF path = <<>>
    THEN <<g, GetNamedValue(g, IF over = "inputs" THEN InputsOf(x) ELSE x)>>
    ELSE LET last == Last(path)
             begin == IF over # "" \/ last[1] = "at" THEN over
                      ELSE IF IsInput(x, last[2]) THEN "inputs" ELSE "plain"
             prev == GetValue(g, x, Front(path), begin)
         IN  IF last[1] = "at" THEN ReadAt(prev, GenIndex(prev[1], last[2]))
                               ELSE ReadDot(prev, x, last[2])

-----------------------------------------------------------------------------
(* The memory of a component: the inputs that are missing, and the result. *)

\* Without inputs, @compute is called at once.  The memory is the last result.
InitializeRecords(g, x, params) ==
    IF Inputs(x) = <<>>
    THEN LET g1 == GenComputeCall(New(g, <<>>), x, g.next)
         IN  New(g1, [comp |-> g1.next - 1])
    ELSE New(Const(g, Len(Inputs(x))), [count |-> g.next, params |-> params])

\* The constructor; only @compute fills the memory.
GenCtorCall(g, x) ==
    LET g1 == New(g, <<>>)
        g2 == IF g.mode = "compute" THEN InitializeRecords(g1, x, g.next) ELSE New(g1, <<>>)
    IN  <<g2, g2.next - 1>>

\* One input less is missing: the state and the number that is.
DecreaseCounter(g, mem) ==
    <<Write(Unary(Read(g, mem, "count"), "add", g.next, -1), mem, "count", g.next + 1),
      g.next + 1>>

\* Mutant: the test of the counter is the wrong way round.
RunUnlessZero(g, counter, x, mem, pod) ==
    LET g1 == NewBlock(Unary(g, "ne", counter, 0))
        b  == LastBlock(g1)
        g2 == GenComputeCall(Read(Push(g1, b), mem, "params"), x, pod)
        g3 == Popped(Emit(Write(g2, mem, "comp", g2.next - 1), Yield(<<>>, FALSE)))
    IN  Emit(g3, [op |-> "if", cond |-> g.next, then |-> b, else |-> 0, res |-> <<>>])

\* @compute is called when the counter is zero.
RunIfZero(g, counter, x, mem, pod) ==
    LET g1 == NewBlock(Unary(g, "is0", counter, 0))
        b  == LastBlock(g1)
        g2 == GenComputeCall(Read(Push(g1, b), mem, "params"), x, pod)
        g3 == Popped(Emit(Write(g2, mem, "comp", g2.next - 1), Yield(<<>>, FALSE)))
    IN  Emit(g3, [op |-> "if", cond |-> g.next, then |-> b, else |-> 0, res |-> <<>>])

-----------------------------------------------------------------------------
(* Writes to places. *)

\* The scope that declares x; an inner one only knows a new value of it.
DeclFrame(g, x) ==
    CHOOSE i \in DOMAIN g.frames :
        /\ x \in DOMAIN g.frames[i].local
        /\ \A j \in i + 1 .. Len(g.frames) : x \notin DOMAIN g.frames[j].local

SetNamedValueAtDeclaration(g, x, v) == [g EXCEPT !.frames[DeclFrame(g, x)].local[x] = v]

\* In the outermost of the scopes that have the block b.
EnqueueStructWrite(g, b, x, v) ==
    LET i == CHOOSE k \in DOMAIN g.frames :
                /\ g.frames[k].block = b
                /\ \A j \in 1 .. k - 1 : g.frames[j].block # b
    IN  [g EXCEPT !.frames[i].queue = Append(@, WriteMember(x, v))]

\* An array is written to the struct once, when its scope ends.
WriteRootSignal(g, x, v) ==
    IF x \in g.written THEN g
    ELSE [SetNamedValueAtDeclaration(
              EnqueueStructWrite(g, g.frames[DeclFrame(g, x)].block, x, v), x, v)
          EXCEPT !.written = @ \cup {x}]

RECURSIVE WriteChain(_, _, _, _, _)
\* An element of an array, and then the array.
WriteAt(a, i, x, path, v, target) ==
    WriteChain(ArrayWrite(i[1], a[2], i[2], v), x, path, a[2], target)

\* The memory of the component at the path, from which its input pod was read as well.
StoreMemory(m, pod, x, path) ==
    LET c == DecreaseCounter(pod[1], m[2])
    IN  WriteChain(RunIfZero(c[1], c[2], x, m[2], pod[2]), x, path, m[2], "plain")
WithMemory(m, x, path) == StoreMemory(m, GetValue(m[1], x, path, "inputs"), x, path)

\* An input of the component at the path; what is missing is counted afterwards.
WriteSubcmp(pod, x, path, signal, v) ==
    WithMemory(GetValue(WriteChain(Write(pod[1], pod[2], signal, v), x, path, pod[2], "inputs"),
                        x, path, "plain"), x, path)

(***************************************************************************)
(* WriteChain::write.  The target is "var", or for a signal what is        *)
(* written of a component: "inputs" or, "plain", its memory.               *)
(***************************************************************************)
WriteChain(g, x, path, v, target) ==
    IF path = <<>>
    THEN CASE IsSubcmp(x) /\ target = "var" -> g
           [] IsSubcmp(x) /\ target # "var" ->
                  SetNamedValue(g, IF target = "inputs" THEN InputsOf(x) ELSE x, v)
           [] ~IsSubcmp(x) -> WriteRootSignal(g, x, v)
    ELSE LET last == Last(path)
             prev == GetValue(g, x, Front(path),
                              IF IsSubcmp(x) /\ target = "inputs" THEN target ELSE "plain")
         IN  IF last[1] = "dot" THEN WriteSubcmp(prev, x, Front(path), last[2], v)
             ELSE WriteAt(prev, GenIndex(prev[1], last[2]), x, Front(path), v, target)

-----------------------------------------------------------------------------
(***************************************************************************)
(* Statements.  The forms are those of FunctionGenerator without the       *)
(* return, <<"signal", s>> and <<"component", c>> for declarations,        *)
(* <<"make", c, path>> for a constructor call assigned to a component,     *)
(* <<"hint", x, path, e>> for <--, <<"wire", x, path, e>> for <== and      *)
(* <<"same", e, f>> for ===.                                               *)
(***************************************************************************)
RECURSIVE GenTemplateStatements(_, _)

AssignSignal(p, x, path) ==
    IF path = <<>> THEN SetNamedValue(Emit(p[1], WriteMember(x, p[2])), x, p[2])
                   ELSE WriteChain(p[1], x, path, p[2], "inputs")

EqTo(l, r) == ConstrainEq(l[1], l[2], r[2])

\* Mutant: the equation of <== is left out for a place behind a path.
GenWirePlain(g, x, path, e) ==
    LET r == GenTemplateExpr(g, e)
    IN  CASE g.mode = "compute" -> AssignSignal(r, x, path)
          [] g.mode = "constrain" /\ path # <<>> -> r[1]
          [] OTHER -> EqTo(GetValue(r[1], x, path, ""), r)

\* The right side is generated before the place on the left.
GenWire(g, x, path, e) ==
    LET r == GenTemplateExpr(g, e)
    IN  IF g.mode = "compute" THEN AssignSignal(r, x, path)
                              ELSE EqTo(GetValue(r[1], x, path, ""), r)

\* <-- is for the witness only.
GenHint(g, x, path, e) ==
    IF g.mode = "compute" THEN AssignSignal(GenTemplateExpr(g, e), x, path) ELSE g

EqBoth(l, e) == EqTo(<<GenTemplateExpr(l[1], e)[1], l[2]>>, GenTemplateExpr(l[1], e))
GenSame(g, e, f) == IF g.mode = "constrain" THEN EqBoth(GenTemplateExpr(g, e), f) ELSE g

\* In the concrete program, rm_component_ci has removed the constructor calls.
GenMake(g, x, path) ==
    LET c == GenCtorCall(g, x)
    IN  CASE g.concrete -> g
          [] ~g.concrete /\ g.mode = "constrain" -> c[1]
          [] ~g.concrete /\ g.mode = "compute" ->
                 IF path = <<>> THEN SetNamedValue(c[1], x, c[2])
                                ELSE WriteChain(c[1], x, path, c[2], "var")

Nondet(g, x) ==
    IF x \in DOMAIN Signals /\ Signals[x].size > 0 THEN NewArray(g, Signals[x].size, FALSE)
                                                  ELSE Const(g, NoVal)
DeclareNondet(g, x) == IF IsNamePresent(g, x) THEN g ELSE Declare(Nondet(g, x), x, g.next)

\* The concrete program has no declarations of signals in its statements.
DeclareSignal(g, x) == IF g.mode = "constrain" \/ g.concrete THEN g ELSE DeclareNondet(g, x)

Set(x, e) == SimpleAssignment(e[1], x, e[2])

\* The blocks of a template are entered and left like those of a function.
InTemplateScope(g, b, stmts) == Closed(GenTemplateStatements(Push(g, b), stmts))
InTemplateBlock(g, stmts) == InTemplateScope(g, LastBlock(g), stmts)

Branches(gc, c, t, tOver, e, eOver) == GenScfIf(gc[1], <<c, gc[2]>>, t, tOver, e, eOver)
ElseBranch(c, elseS, then, t) ==
    LET g == NewBlock(then[1])
        Joined(else) ==
            Branches(GenTemplateExpr(else[1], c), c, t, then[2], LastBlock(g), else[2])
    IN  Joined(InTemplateBlock(g, elseS))
GenTemplateIf(g, c, thenS, elseS) ==
    ElseBranch(c, elseS, InTemplateBlock(NewBlock(g), thenS), LastBlock(NewBlock(g)))

LoopBody(gc, c, before, stmts) ==
    LET g == NewBlock(Popped(gc[1]))
        Looped(s) == GenScfWhile(s[1], <<c, gc[2]>>, before, LastBlock(g), s[2])[1]
    IN  Looped(InTemplateBlock(g, stmts))
GenTemplateWhile(g, c, stmts) ==
    LET g1 == NewBlock(g)
    IN  LoopBody(GenTemplateExpr(Push(g1, LastBlock(g1)), c), c, LastBlock(g1), stmts)

GenTemplateStatement(g, s) ==
    CASE s[1] = "decl" -> GenDeclaration(g, s[2])
      [] s[1] = "signal" -> DeclareSignal(g, s[2])
      [] s[1] = "component" -> g
      [] s[1] = "set" -> Set(s[2], GenTemplateExpr(g, s[3]))
      [] s[1] = "make" -> GenMake(g, s[2], s[3])
      [] s[1] = "hint" -> GenHint(g, s[2], s[3], s[4])
      [] s[1] = "wire" -> GenWire(g, s[2], s[3], s[4])
      [] s[1] = "same" -> GenSame(g, s[2], s[3])
      [] s[1] = "block" -> LeaveBlock(InTemplateScope(g, TopBlock(g), s[2]))[1]
      [] s[1] = "if" -> GenTemplateIf(g, s[2], s[3], s[4])
      [] s[1] = "while" -> GenTemplateWhile(g, s[2], s[3])

GenTemplateStatements(g, stmts) ==
    IF stmts = <<>> THEN g
    ELSE GenTemplateStatements(GenTemplateStatement(g, Head(stmts)), Tail(stmts))

-----------------------------------------------------------------------------
(* What stands before the statements. *)

Sq == INSTANCE SequencesExt

\* What Step makes of g, for one name after the other, in the order of a stable generation.
ForNames(g, names, Step(_, _)) ==
    Sq!FoldLeft(Step, g, SelectSeq(NameOrder, LAMBDA x : x \in names))

InputSignals == {x \in DOMAIN Signals : Signals[x].input}
Members == (DOMAIN Signals \ InputSignals) \cup DOMAIN Components
           \cup {InputsOf(c) : c \in DOMAIN Components}

\* The arguments are the values 1, 2, ...; the body ends with its return already.
EntryOf(mode, isConcrete) ==
    LET args == SelectSeq(NameOrder, LAMBDA x : x \in InputSignals)
    IN  [next |-> Len(args) + 1, blocks |-> <<<<Return(0, FALSE)>>>>,
         frames |-> <<[NewFrame(1) EXCEPT !.local =
             [x \in InputSignals |-> CHOOSE k \in DOMAIN args : args[k] = x]]>>,
         tvars |-> {}, mode |-> mode, concrete |-> isConcrete, written |-> {}]

DeclareMember(g, x) == Declare(ReadMember(g, x), x, g.next)

\* An array of a program that is not concrete is declared when its declaration is visited.
DeclInit(g, x) ==
    IF ~g.concrete /\ x \in DOMAIN Signals /\ Signals[x].size > 0 THEN g ELSE DeclareNondet(g, x)

IsVeryConcrete(g, x) == g.concrete \/ ~Components[x].params

\* The memory of component x, made at once if no parameter has to be known.
InitialMemory(g, x) ==
    LET n == Components[x].size
        init(h) == InitializeRecords(New(h, <<>>), x, h.next)
        element(h, i) == LET m == InitializeRecords(h, x, g.next + 1)
                         IN  ArrayWrite(m, g.next, i, m.next - 1)
    IN  CASE n = 0 /\ IsVeryConcrete(g, x) -> <<init(g), init(g).next - 1>>
          [] n = 0 /\ ~IsVeryConcrete(g, x) -> <<Const(g, NoVal), g.next>>
          [] n > 0 /\ IsVeryConcrete(g, x) ->
                 <<GenLoop(New(NewArray(g, n, TRUE), <<>>), n, element), g.next>>
          [] n > 0 /\ ~IsVeryConcrete(g, x) -> <<NewArray(g, n, TRUE), g.next>>

InitialInputs(g, x) ==
    IF Components[x].size = 0 THEN New(g, <<>>) ELSE NewArray(g, Components[x].size, TRUE)

\* In @constrain, the component and its inputs are members that have been read.
SubcmpPrologue(g, x) ==
    LET m == InitialMemory(g, x)
        g1 == Declare(m[1], x, m[2])
    IN  IF g.mode = "constrain" THEN g ELSE Declare(InitialInputs(g1, x), InputsOf(x), g1.next)

Prologue(g, declared) ==
    LET g1 == IF g.mode = "compute" THEN g ELSE ForNames(g, Members, DeclareMember)
    IN  ForNames(ForNames(g1, declared, DeclInit), DOMAIN Components, SubcmpPrologue)

-----------------------------------------------------------------------------
(* What stands behind the statements. *)

\* @compute writes the inputs of component x and its result to the struct ...
WriteSubcmpMembers(g, x) ==
    LET n == Components[x].size
        mem == GetNamedValue(g, x)
        g1 == Emit(g, WriteMember(InputsOf(x), GetNamedValue(g, InputsOf(x))))
        copy(h, i) == ArrayWrite(Read(ArrayRead(h, mem, i), h.next, "comp"),
                                 g.next, i, h.next + 1)
    IN  IF n = 0 THEN Emit(Read(g1, mem, "comp"), WriteMember(x, g.next))
        ELSE Emit(GenLoop(NewArray(g1, n, FALSE), n, copy), WriteMember(x, g.next))

\* ... and @constrain has the component state its own equations.
ConstrainSubcmp(g, x) ==
    LET n == Components[x].size
        c == GetNamedValue(g, x)
        pods == GetNamedValue(g, InputsOf(x))
        element(h, i) == GenConstrainCall(ArrayRead(ArrayRead(h, c, i), pods, i), x,
                                          h.next, h.next + 1)
    IN  IF n = 0 THEN GenConstrainCall(g, x, c, pods) ELSE GenLoop(g, n, element)

FinalizeSubcmp(g, x) ==
    IF g.mode = "compute" THEN WriteSubcmpMembers(g, x) ELSE ConstrainSubcmp(g, x)

FinalizeSubcmps(g) == ForNames(g, DOMAIN Components, FinalizeSubcmp)
=============================================================================
