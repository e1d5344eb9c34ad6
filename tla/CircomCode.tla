------------------------------ MODULE CircomCode ------------------------------
(***************************************************************************)
(* The statements and expressions of template and function bodies, and     *)
(* what they mean: the values a program computes for one value of its      *)
(* input.  Nothing here is read off the compiler; the other modules say    *)
(* what the compiler makes of the same code, and are compared with this.   *)
(*                                                                         *)
(* An expression that has no value, since an assertion of a function it    *)
(* calls fails, an index is out of bounds or it divides by zero, is Failed.*)
(***************************************************************************)
EXTENDS Integers, Sequences, SequencesExt, TLC

CONSTANTS
    Prime,      \* the field
    Inputs,     \* values of the input signal
    Functions,  \* name -> [params, body]
    MaxPasses   \* bound: iterations of a loop

ASSUME CodeAssumption ==
    /\ Prime \in Nat /\ Prime > 2
    /\ Inputs \subseteq 0 .. Prime - 1 /\ Inputs # {}
    /\ MaxPasses \in Nat

Number(n)      == [is |-> "number", value |-> n]
Signal         == [is |-> "signal"]
Variable(x)    == [is |-> "variable", name |-> x]
Element(x, i)  == [is |-> "element", name |-> x, index |-> i]
Infix(op, l, r) == [is |-> "infix", op |-> op, left |-> l, right |-> r]
Prefix(op, e)   == [is |-> "prefix", op |-> op, arg |-> e]
Switch(c, y, n) == [is |-> "switch", cond |-> c, yes |-> y, no |-> n]
Call(f, args)   == [is |-> "call", function |-> f, args |-> args]

Assign(x, e)           == [is |-> "assign", name |-> x, rhe |-> e]
AssignElement(x, i, e) == [is |-> "element", name |-> x, index |-> i, rhe |-> e]
Declare(n)             == [is |-> "declare", arg |-> n]        \* signal s[n];
Tag(e)                 == [is |-> "tag", arg |-> e]            \* s.tag = e;
Instantiate(e)         == [is |-> "instantiate", arg |-> e]    \* component c = T(e);
Constrain(l, r)        == [is |-> "constrain", lhe |-> l, rhe |-> r]
AssertThat(e)          == [is |-> "assert", arg |-> e]
Return(e)              == [is |-> "return", value |-> e]
If(c, yes, no)         == [is |-> "if", cond |-> c, yes |-> yes, no |-> no]
While(c, body)         == [is |-> "while", cond |-> c, body |-> body]

Failed == Prime      \* not an element of the field

\* The operators; those with one operand take it twice.
Field == INSTANCE FieldArithmetic
Apply(op, a, b) ==
    IF Failed \in {a, b} \/ ~Field!Defined(op, b) THEN Failed ELSE Field!Result(op, a, b)

-----------------------------------------------------------------------------
(* A world is a run of the code on one input.  Its effects are the signals   *)
(* and components it has, the tags it sets and the equations it states.      *)

World(env, in) == [env |-> env, in |-> in, status |-> "running", returned |-> <<>>,
                   effects |-> <<>>]
Goes(w) == w.status = "running" /\ w.returned = <<>>

Arguments(f, values) == [x \in ToSet(Functions[f].params) |->
                            values[CHOOSE k \in DOMAIN values : Functions[f].params[k] = x]]

RECURSIVE Meaning(_, _), Run(_, _), Repeat(_, _, _)

RunAll(code, w) ==
    FoldLeft(LAMBDA u, s : IF Goes(u) THEN Run(s, u) ELSE u, w, code)

Meaning(e, w) ==
    CASE e.is = "number"   -> e.value
      [] e.is = "signal"   -> w.in
      [] e.is = "variable" -> w.env[e.name]
      [] e.is = "element"  -> LET i == Meaning(e.index, w)
                              IN IF i \in DOMAIN w.env[e.name] THEN w.env[e.name][i] ELSE Failed
      [] e.is = "infix"    -> Apply(e.op, Meaning(e.left, w), Meaning(e.right, w))
      [] e.is = "prefix"   -> LET a == Meaning(e.arg, w) IN Apply(e.op, a, a)
      [] e.is = "switch"   -> LET c == Meaning(e.cond, w)
                              IN IF c = Failed THEN Failed
                                 ELSE Meaning(IF c # 0 THEN e.yes ELSE e.no, w)
      [] e.is = "call"     ->
            LET values == [k \in DOMAIN e.args |-> Meaning(e.args[k], w)]
                end == RunAll(Functions[e.function].body,
                              World(Arguments(e.function, values), w.in))
            IN IF Failed \in ToSet(values) \/ end.status # "running" THEN Failed
               ELSE end.returned[1]

Repeat(s, w, passes) ==
    LET c == Meaning(s.cond, w)
    IN IF ~Goes(w) \/ c = 0 THEN w
       ELSE IF c = Failed THEN [w EXCEPT !.status = "failed"]
       ELSE IF passes = 0 THEN [w EXCEPT !.status = "long"]
       ELSE Repeat(s, RunAll(s.body, w), passes - 1)

Run(s, w) ==
    LET v(e) == Meaning(e, w)
        Try(values, then) == IF Failed \in values THEN [w EXCEPT !.status = "failed"] ELSE then
    IN CASE s.is = "assign"    -> Try({v(s.rhe)}, [w EXCEPT !.env[s.name] = v(s.rhe)])
         [] s.is = "element"   ->
              IF v(s.index) \notin DOMAIN w.env[s.name] THEN [w EXCEPT !.status = "failed"]
              ELSE Try({v(s.rhe)}, [w EXCEPT !.env[s.name][v(s.index)] = v(s.rhe)])
         [] s.is = "constrain" -> Try({v(s.lhe), v(s.rhe)},
                                      [w EXCEPT !.effects = Append(@, << s.is, Apply("Sub", v(s.lhe), v(s.rhe)) >>)])
         [] s.is \in {"declare", "tag", "instantiate"} ->
              Try({v(s.arg)}, [w EXCEPT !.effects = Append(@, << s.is, v(s.arg) >>)])
         [] s.is = "assert"    -> IF v(s.arg) \in {0, Failed} THEN [w EXCEPT !.status = "failed"] ELSE w
         [] s.is = "return"    -> Try({v(s.value)}, [w EXCEPT !.returned = << v(s.value) >>])
         [] s.is = "if"        -> Try({v(s.cond)}, RunAll(IF v(s.cond) # 0 THEN s.yes ELSE s.no, w))
         [] s.is = "while"     -> Repeat(s, w, MaxPasses)
===============================================================================
