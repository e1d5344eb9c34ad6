-------------------------- MODULE TemplateExecution ---------------------------
(***************************************************************************)
(* The execution of a template body that generates its constraints: the    *)
(* input signal is a symbol, and a variable holds a field element, a       *)
(* linear or quadratic expression in the signal, or NonQuadratic.  Below a *)
(* condition that is not a number both branches are executed, one after    *)
(* the other, and every variable they assign becomes NonQuadratic; a loop  *)
(* whose condition is not a number is executed twice.                      *)
(*                                                                         *)
(* An expression is represented by its degree and by its value for every   *)
(* value of the signal.  The execution also notes the value of each        *)
(* expression that was the same number each time, and the statements that  *)
(* were reached, for the code of the witness generator.                    *)
(***************************************************************************)
EXTENDS KnownAnalysis

Value(n, f) == [degree |-> n, at |-> f]
Num(n) == Value(0, [x \in Inputs |-> n])
Symbol == Value(1, [x \in Inputs |-> x])
NonQuad == Value(3, [x \in Inputs |-> 0])
IsNumber(v) == v.degree = 0
NumberOf(v) == v.at[CHOOSE x \in Inputs : TRUE]

\* The degrees of AExpr::add and sub, mul, div, pow and the others, of operands of degree l
\* and r; 3 stands for NonQuadratic.
SumDegree(l, r)     == IF l = 2 /\ r = 2 THEN 3 ELSE IF l > r THEN l ELSE r
ProductDegree(l, r) == IF l + r > 2 THEN 3 ELSE l + r
QuotientDegree(l, r) == IF r = 0 THEN l ELSE 3
PowerDegree(l, r, n) == IF l = 0 /\ r = 0 THEN 0 ELSE IF l = 1 /\ r = 0 /\ n = 2 THEN 2 ELSE 3
NumbersOnly(l, r)    == IF l = 0 /\ r = 0 THEN 0 ELSE 3
Degree(op, l, r) ==
    CASE op \in {"Add", "Sub"} -> SumDegree(l.degree, r.degree)
      [] op = "Mul" -> ProductDegree(l.degree, r.degree)
      [] op = "Div" -> QuotientDegree(l.degree, r.degree)
      [] op = "Pow" -> PowerDegree(l.degree, r.degree, NumberOf(r))
      [] OTHER -> NumbersOnly(l.degree, r.degree)

Arith(op, l, r) ==
    LET degree == Degree(op, l, r)
    IN IF degree = 3 THEN NonQuad
       ELSE Value(degree, [x \in Inputs |-> Apply(op, l.at[x], r.at[x])])

\* The product with -1 is linear in a signal; the other two need a number.
PrefixArith(op, a) ==
    IF op = "PrefixSub" THEN Arith("Mul", a, Num(Prime - 1)) ELSE Arith(op, a, a)

\* An error of AExpr::div or idiv; mod_op panics.
DividesByZero(op, l, r) ==
    Degree(op, l, r) < 3 /\ IsNumber(r) /\ ~Field!Defined(op, NumberOf(r))

-----------------------------------------------------------------------------
(* RuntimeInformation.  value is that of the last expression evaluated and   *)
(* branch the condition of the last conditional, <<>> when it is not known.  *)
(* A place is a path of positions in the body of the template; the code of   *)
(* functions has none.  twice and missed are history: whether a third pass   *)
(* of some loop with an unknown condition would have changed anything, and   *)
(* the expressions that were evaluated or skipped without being noted;       *)
(* escaped, whether a component was created in an unknown block.             *)

NoPlace == << 0 >>
At(place, k) == IF place = NoPlace THEN NoPlace ELSE place \o << k >>

Runtime(env) ==
    [env |-> env, block |-> "known", error |-> "", value |-> NonQuad, branch |-> <<>>,
     returned |-> <<>>, simplify |-> TRUE, effects |-> <<>>, computed |-> <<>>,
     reached |-> {}, stable |-> TRUE, missed |-> {}, skipped |-> {}, escaped |-> FALSE]

Fails(r, e) == [r EXCEPT !.error = e]
Runs(r) == r.error = "" /\ r.returned = <<>>

\* Variant: an expression keeps the first number computed for it.
KeepFirst(r, place) ==
    IF place = NoPlace \/ place \in DOMAIN r.computed THEN r
    ELSE [r EXCEPT !.computed = (place :> (IF IsNumber(r.value) THEN << NumberOf(r.value) >> ELSE <<>>)) @@ @]

\* Analysis::computed: the least upper bound of the numbers; <<>> is the top.
Computed(r, place) ==
    LET new == IF IsNumber(r.value) THEN << NumberOf(r.value) >> ELSE <<>>
        old == IF place \in DOMAIN r.computed THEN r.computed[place] ELSE new
    IN IF place = NoPlace THEN r
       ELSE [r EXCEPT !.computed = (place :> (IF old = new THEN new ELSE <<>>)) @@ @]

RECURSIVE Evaluate(_, _, _), Execute(_, _, _), Loop(_, _, _, _)

\* execute_sequence_of_statements.
ExecuteAll(code, place, r) ==
    FoldLeft(LAMBDA u, k : IF Runs(u) THEN Execute(code[k], At(place, k), u) ELSE u,
             r, [k \in DOMAIN code |-> k])

\* The operands of an expression in order; value is the sequence of their values.
WithValue(before, u) == IF u.error # "" THEN u ELSE [u EXCEPT !.value = Append(before, u.value)]
EvaluateAll(operands, place, r) ==
    FoldLeft(LAMBDA u, k : IF u.error # "" THEN u
                           ELSE WithValue(u.value, Evaluate(operands[k], At(place, k), u)),
             [r EXCEPT !.value = <<>>], [k \in DOMAIN operands |-> k])

\* execute_function_call: a new environment, and a block that is known.  Below, simplify says
\* whether the result may replace the call.
Entered(name, given) ==
    [given EXCEPT !.env = Arguments(name, given.value), !.block = "known", !.simplify = TRUE]
Left(end, r) ==
    [end EXCEPT !.env = r.env, !.block = r.block, !.returned = <<>>,
                !.value = IF end.returned = <<>> THEN NonQuad ELSE end.returned[1]]
CallFunction(name, given, r) ==
    IF given.error # "" THEN given
    ELSE Left(ExecuteAll(Functions[name].body, NoPlace, Entered(name, given)), r)

\* treat_accessing and cast_indexing: the place an index stands for, if it is a number.
Accessed(i, cells) ==
    IF ~IsNumber(i) THEN "undefined"
    ELSE IF NumberOf(i) \in DOMAIN cells THEN "defined" ELSE "OutOfBounds"

\* execute_variable, at the index i.
ElementAt(cells, place, i) ==
    IF i.error # "" THEN i
    ELSE CASE Accessed(i.value, cells) = "undefined" -> Computed([i EXCEPT !.value = NonQuad], place)
           [] Accessed(i.value, cells) = "defined" ->
                Computed([i EXCEPT !.value = cells[NumberOf(i.value)]], place)
           [] OTHER -> Fails(i, "OutOfBounds")

\* execute_infix_op, on two operands, and execute_prefix_op.
Combined(op, place, k) ==
    IF k.error # "" THEN k
    ELSE IF DividesByZero(op, k.value[1], k.value[2]) THEN Fails(k, "DivisionByZero")
    ELSE Computed([k EXCEPT !.value = Arith(op, k.value[1], k.value[2])], place)
Negated(op, place, a) ==
    IF a.error # "" THEN a ELSE Computed([a EXCEPT !.value = PrefixArith(op, a.value)], place)

Chosen(b, place) == IF b.error # "" THEN b ELSE Computed(b, place)

\* Neither branch is evaluated when the condition is not a number.
Selected(e, place, c) ==
    IF c.error # "" THEN c
    ELSE IF ~IsNumber(c.value)
         THEN Computed([c EXCEPT !.value = NonQuad,
                                 !.skipped = @ \cup {At(place, 2), At(place, 3)}], place)
    ELSE LET k == IF NumberOf(c.value) # 0 THEN 2 ELSE 3
         IN Chosen(Evaluate(IF k = 2 THEN e.yes ELSE e.no, At(place, k), c), place)

\* execute_call, of a function that left c.
Replaced(place, r, c) ==
    IF c.error # "" THEN c
    ELSE IF c.simplify THEN Computed([c EXCEPT !.simplify = r.simplify], place)
    ELSE [c EXCEPT !.simplify = r.simplify, !.missed = @ \cup {place}]

\* execute_expression.
Evaluate(e, place, r) ==
    CASE e.is = "number"   -> Computed([r EXCEPT !.value = Num(e.value)], place)
      [] e.is = "signal"   -> Computed([r EXCEPT !.value = Symbol], place)
      [] e.is = "variable" -> Computed([r EXCEPT !.value = r.env[e.name]], place)
      [] e.is = "element"  -> ElementAt(r.env[e.name], place, Evaluate(e.index, At(place, 1), r))
      [] e.is = "infix"    -> Combined(e.op, place, EvaluateAll(<< e.left, e.right >>, place, r))
      [] e.is = "prefix"   -> Negated(e.op, place, Evaluate(e.arg, At(place, 1), r))
      [] e.is = "switch"   -> Selected(e, place, Evaluate(e.cond, At(place, 1), r))
      [] e.is = "call"     -> Replaced(place, r,
                                         CallFunction(e.function, EvaluateAll(e.args, place, r), r))

-----------------------------------------------------------------------------
(* Statements *)

\* Variant: a variable keeps its value in an unknown block.
KeepValue(r, v) == v

\* perform_assign: in an unknown block the variable becomes NonQuadratic.
Stored(r, v) == IF r.block = "unknown" THEN NonQuad ELSE v

AssignTo(s, r, v) ==
    IF v.error # "" THEN v ELSE [v EXCEPT !.env[s.name] = Stored(r, v.value)]

\* Variant: only the element at the index is lost.
LoseNothing(cells) == cells

\* An assignment at an index that is not a number makes the whole array NonQuadratic.
LoseAll(cells) == [k \in DOMAIN cells |-> NonQuad]

\* v.value is the index and the value.
AssignToElement(s, r, v) ==
    LET cells == r.env[s.name]
        at == Accessed(v.value[1], cells)
    IN IF v.error # "" THEN v
       ELSE CASE at = "undefined" -> [v EXCEPT !.env[s.name] = LoseAll(cells)]
              [] at = "defined" ->
                   [v EXCEPT !.env[s.name][NumberOf(v.value[1])] = Stored(r, v.value[2])]
              [] OTHER -> Fails(v, "OutOfBounds")

AddConstraint(s, r, k) ==
    LET c == Arith("Sub", k.value[1], k.value[2])
    IN IF r.block = "unknown" THEN Fails(r, "ConstraintInUnknown")
       ELSE IF k.error # "" THEN k
       ELSE IF c.degree = 3 THEN Fails(k, "NonQuadraticConstraint")
       ELSE [k EXCEPT !.effects = Append(@, [x \in Inputs |-> << s.is, c.at[x] >>])]

InUnknown == [declare |-> "DeclarationInUnknown", tag |-> "TagAssignmentInUnknown"]
NoNumber == [declare |-> "UnknownSizeDimension", tag |-> "NonValidTagAssignment",
             instantiate |-> "UnknownTemplate"]

\* Declarations of signals, values of tags and components: all need a number, and the first
\* two a known block.
TakeEffect(s, r, v) ==
    LET Effect == [v EXCEPT !.effects = Append(@, [x \in Inputs |-> << s.is, NumberOf(v.value) >>])]
        unknown == r.block = "unknown"
    IN IF v.error # "" THEN v
       ELSE IF s.is = "declare" /\ ~IsNumber(v.value) THEN Fails(v, NoNumber[s.is])
       ELSE IF s.is # "instantiate" /\ unknown THEN Fails(v, InUnknown[s.is])
       ELSE IF ~IsNumber(v.value) THEN Fails(v, NoNumber[s.is])
       ELSE [Effect EXCEPT !.escaped = @ \/ unknown]

Check(v) ==
    IF v.error # "" THEN v
    ELSE IF ~IsNumber(v.value) THEN [v EXCEPT !.simplify = FALSE]
    ELSE IF NumberOf(v.value) = 0 THEN Fails(v, "FalseAssert") ELSE v

ReturnValue(r, v) ==
    IF v.error # "" THEN v ELSE [v EXCEPT !.returned = << Stored(r, v.value) >>]

\* Both branches below a condition that is not a number, the second also after a return of
\* the first; the value returned is the first one, as all are of one element.
Joined(first, second, c) ==
    IF first.error # "" THEN first
    ELSE [second EXCEPT !.block = c.block, !.branch = <<>>,
                        !.returned = IF first.returned # <<>> THEN first.returned ELSE @]
SecondBranch(no, place, c, first) ==
    Joined(first, ExecuteAll(no, At(place, 3), [first EXCEPT !.returned = <<>>]), c)
BothBranches(yes, no, place, c) ==
    SecondBranch(no, place, c, ExecuteAll(yes, At(place, 2), [c EXCEPT !.block = "unknown"]))

\* execute_conditional_statement, with the condition c.
Branches(yes, no, place, c) ==
    LET holds == NumberOf(c.value) # 0
    IN IF c.error # "" THEN c
       ELSE IF ~IsNumber(c.value) THEN BothBranches(yes, no, place, c)
       ELSE [ExecuteAll(IF holds THEN yes ELSE no, At(place, IF holds THEN 2 ELSE 3), c)
                EXCEPT !.branch = << holds >>]
Conditional(cond, yes, no, place, r) == Branches(yes, no, place, Evaluate(cond, At(place, 1), r))
Pass(s, place, r) == Conditional(s.cond, s.body, <<>>, place, r)

\* The second execution of the body of a loop with an unknown condition; would a third one,
\* which there is not, change anything?
Compared(r, second, third) ==
    [second EXCEPT !.simplify = r.simplify,
                   !.stable = @ /\ <<third.env, third.computed, third.reached>>
                                   = <<second.env, second.computed, second.reached>>]
Tried(s, place, r, second) == Compared(r, second, Pass(s, place, second))
Again(s, place, r) == Tried(s, place, r, Pass(s, place, r))

\* The loop goes on from t.
Continue(s, place, t, passes) ==
    IF t.error # "" \/ t.returned # <<>> THEN t
    ELSE IF t.branch = <<>> THEN Again(s, place, t)
    ELSE IF ~t.branch[1] THEN t
    ELSE IF passes = 0 THEN Fails(t, "TooLong")
    ELSE Loop(s, place, t, passes - 1)
Loop(s, place, r, passes) == Continue(s, place, Pass(s, place, r), passes)

\* execute_statement: the expressions of a statement come first, and all but an element or a
\* constraint have one.
Operand(s) ==
    CASE s.is = "assign" -> s.rhe
      [] s.is = "return" -> s.value
      [] s.is \in DOMAIN NoNumber \cup {"assert"} -> s.arg
Finish(s, r, v) ==
    CASE s.is = "assign" -> AssignTo(s, r, v)
      [] s.is = "return" -> ReturnValue(r, v)
      [] s.is = "assert" -> Check(v)
      [] s.is \in DOMAIN NoNumber -> TakeEffect(s, r, v)
      [] s.is = "element" -> AssignToElement(s, r, v)
      [] s.is = "constrain" -> AddConstraint(s, r, v)
Reached(s, place, u) ==
    CASE s.is = "if"    -> Conditional(s.cond, s.yes, s.no, place, u)
      [] s.is = "while" -> Loop(s, place, u, MaxPasses)
      [] s.is = "element"   -> Finish(s, u, EvaluateAll(<< s.index, s.rhe >>, place, u))
      [] s.is = "constrain" -> Finish(s, u, EvaluateAll(<< s.lhe, s.rhe >>, place, u))
      [] OTHER -> Finish(s, u, Evaluate(Operand(s), At(place, 1), u))
Execute(s, place, r) == Reached(s, place, [r EXCEPT !.reached = @ \cup {place}])
===============================================================================
