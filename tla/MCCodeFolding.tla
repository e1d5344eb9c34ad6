---------------------------- MODULE MCCodeFolding -----------------------------
(***************************************************************************)
(* Template bodies of at most three of MCStatements over the variables x,  *)
(* y, z, i and the array t, with the input in 0 .. 3 and the prime 7.      *)
(***************************************************************************)
EXTENDS CodeFolding

MCInputs == 0 .. 3
MCStart == [v \in {"x", "y", "z", "i"} |-> 0] @@ ("t" :> [k \in 0 .. 3 |-> 0])
MCArrays == {"t"}

x == Variable("x")
y == Variable("y")
i == Variable("i")
p == Variable("p")
q == Variable("q")
Plus(l, r) == Infix("Add", l, r)
Times(l, r) == Infix("Mul", l, r)
Is(l, n) == Infix("Eq", l, Number(n))
Below(l, n) == Infix("Lesser", l, n)
Set(v, n) == Assign(v, Number(n))
Increment == Assign("i", Plus(i, Number(1)))

\* choose(p, q): p if q is 0, else 2.  checked(p, q): p, but only if q is 0 or p is.  least(p, 0):
\* the least number that is not below p.
MCFunctions ==
    [choose |-> [params |-> << "p", "q" >>,
                 body |-> << If(Is(q, 0), << Return(p) >>, <<>>), Return(Number(2)) >>],
     checked |-> [params |-> << "p", "q" >>,
                  body |-> << AssertThat(Is(Times(p, q), 0)), Return(Plus(p, Number(1))) >>],
     least |-> [params |-> << "p", "q" >>,
                body |-> << While(Below(q, p), << Assign("q", Plus(q, Number(1))) >>), Return(q) >>]]

Simple == {Assign("x", Signal), Set("x", 1), Set("i", 0), Assign("y", Plus(x, y)),
           Assign("x", Times(x, Signal)), Assign("y", Call("choose", << x, y >>)),
           Assign("y", Plus(Call("least", << x, Number(0) >>), Number(1))),
           Assign("y", Plus(Call("checked", << Number(1), x >>), Number(1))),
           AssignElement("t", Number(1), x), AssignElement("t", Signal, Number(2)),
           Assign("y", Element("t", Number(1))), Constrain(Element("t", x), y), Constrain(y, x),
           Tag(y), Declare(Plus(x, Number(1))), Instantiate(Times(y, Number(2)))}
Conditionals == {If(Is(x, 1), << Set("y", 2) >>, << Assign("y", Signal) >>),
                 If(Is(Signal, 0), << Set("x", 1) >>, <<>>),
                 If(Is(y, 0), << Constrain(x, Number(1)) >>, << Set("x", 2) >>),
                 If(Is(Element("t", Number(1)), 1), << Instantiate(Number(1)) >>, << Tag(Number(1)) >>),
                 If(Is(Element("t", Number(1)), 2), << Instantiate(y) >>, <<>>),
                 If(Is(x, 0), << If(Is(Signal, 1), << Set("y", 1) >>, << Set("i", 1) >>) >>, <<>>)}
Loops ==
    {While(Below(i, Number(2)), body \o << Increment >>) :
        body \in {<< Assign("y", Plus(y, x)) >>, << Assign("x", Times(x, Number(2))), Set("y", 1) >>,
                  << AssignElement("t", i, x), Constrain(y, i) >>,
                  << Assign("y", Switch(Is(x, 0), Plus(i, Number(5)), Number(4))), Assign("x", Signal) >>,
                  << Assign("y", Call("checked", << i, x >>)), Assign("x", Signal) >>,
                  << If(Is(i, 1), << Set("y", 3) >>, << Assign("x", Signal) >>) >>,
                  << If(Is(x, 0), << Declare(i) >>, << Tag(y) >>), Set("x", 1) >>}}
    \cup {While(Below(i, Signal), << Increment, Assign("y", Plus(y, Number(1))) >>),
          While(Below(i, Signal), << If(Is(y, 1), << Set("x", 3) >>, <<>>), Set("y", 1), Increment >>),
          While(Below(i, Signal), << If(Is(y, 1), << Set("z", 5) >>, <<>>),
                                     If(Is(x, 1), << Set("y", 1) >>, <<>>), Set("x", 1), Increment >>),
          While(Below(i, Number(2)),
                << While(Below(y, Signal), << Assign("y", Plus(y, Number(1))) >>), Increment >>)}

\* The other operators.
Operations ==
    {Assign("y", Infix("Sub", Infix("Div", x, Number(3)), Prefix("PrefixSub", y))),
     Assign("y", Infix("Pow", Plus(x, Number(1)), Number(2))),
     Assign("x", Infix("BitXor", Infix("ShiftL", x, Number(1)), Infix("ShiftR", Number(6), y))),
     Assign("z", Infix("IntDiv", Infix("BitOr", x, Number(4)), y)),
     If(Infix("BoolOr", Infix("Greater", x, y), Prefix("BoolNot", Infix("LesserEq", y, Signal))),
        << Assign("x", Infix("Mod", Prefix("Complement", x), Number(4))) >>,
        << Assign("y", Infix("BoolAnd", Infix("NotEq", x, y), Infix("GreaterEq", y, Number(1)))) >>)}

MCStatements == Operations \cup Simple \cup Conditionals \cup Loops
===============================================================================
