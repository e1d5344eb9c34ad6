------------------------- MODULE MCLlzkLowering -------------------------
(* Small functions of two parameters, three variables and nested control, *)
(* and small templates with two inputs, a component, an array of another. *)
EXTENDS TemplateLowering

MCParams == <<"a", "b">>
MCOrder == <<"**had_return**", "**return_val**", "", "a", "b", "i", "x", "y">>

Num(n) == <<"num", n>>
Var(x) == <<"var", x>>
Put(x, e) == <<"set", x, e>>
Ret(e) == <<"ret", e>>
Inc(x) == Put(x, <<"add", x, 1>>)

\* Straight-line bodies: nothing, an assignment, a shadowing one, a return.
Leaves == {<<>>, <<Put("x", Num(1))>>, <<<<"decl", "x">>, Put("x", Num(2))>>,
           <<Ret(<<"add", "x", 7>>)>>}

Loop(c, body) == <<"while", c, body \o <<Inc("i")>>>>
Inner == {<<"if", Var("b"), t, e>> : t \in Leaves, e \in Leaves}
         \cup {Loop(<<"lt", "i", 2>>, t) : t \in Leaves}
Nested == {<<s>> \o l : s \in Inner, l \in {<<>>, <<Inc("x")>>, <<Ret(Var("y"))>>}}

Outer == {<<"if", Var("a"), t, e>> : t \in Nested, e \in Leaves}
         \cup {<<"if", Var("a"), t, e>> : t \in Leaves, e \in Nested}
         \cup {Loop(<<"lt", "i", 2>>, t) : t \in Nested \cup Leaves}
         \cup {Loop(<<"lt", "i", 2>>, <<Put(x, <<"add", z, 1>>)>>) :
                   x \in {"x", "y"}, z \in {"x", "y"}}
         \cup {<<"block", t>> : t \in Nested}
         \cup {<<"while", Var("y"), <<Put("y", Num(0))>>>>}

Start(e) == <<<<"decl", "x">>, Put("x", Num(0)), <<"decl", "y">>, Put("y", e),
              <<"decl", "i">>, Put("i", Num(0))>>

MCPrograms == {Start(e) \o <<s, Inc("x"), Ret(Var(r))>> :
                  e \in {Num(5), Var("x"), Var("a")}, s \in Outer, r \in {"x", "y"}}

-----------------------------------------------------------------------------

MCNames == MCOrder \o <<"c", "c$inputs", "d", "d$inputs", "o", "p", "q", "s", "t", "v", "z", "z$inputs">>

MCSignals == [n \in {"a", "b", "s", "t", "x", "y"} |->
                 [size |-> IF n \in {"s", "t"} THEN 2 ELSE 0, input |-> n \in {"a", "b"}]]

\* One with two inputs, an array of components with parameters, one without inputs.
MCComponents ==
    [c |-> [size |-> 0, inputs |-> <<"p", "q">>, params |-> FALSE],
     d |-> [size |-> 2, inputs |-> <<"p">>, params |-> TRUE],
     z |-> [size |-> 0, inputs |-> <<>>, params |-> TRUE]]

Get(n, path) == <<"get", n, path>>
Dot(n) == <<"dot", n>>
At(e) == <<"at", e>>
I == Var("i")
Out(n) == Get(n, <<Dot("o")>>)
OutAt(n, e) == Get(n, <<At(e), Dot("o")>>)
Plus(e, f) == <<"sum", e, f>>
Wire(n, path, e) == <<"wire", n, path, e>>
Hint(n, path, e) == <<"hint", n, path, e>>
Make(n, path) == <<"make", n, path>>
Twice(body) == <<Put("i", Num(0)), Loop(<<"lt", "i", 2>>, body)>>

\* The component with two inputs: in a row, in a scope, in a branch, in a loop.
WithC ==
    {<<Make("c", <<>>), Wire("c", <<Dot("p")>>, Var("a")), Wire("c", <<Dot("q")>>, Var("b"))>>,
     <<Make("c", <<>>), Wire("c", <<Dot("q")>>, Var("b")),
       <<"block", <<<<"decl", "v">>, Put("v", Num(3)),
                    Wire("c", <<Dot("p")>>, Plus(Var("a"), Var("v")))>>>>>>,
     <<Make("c", <<>>), <<"if", Var("a"), <<Hint("c", <<Dot("p")>>, Var("b"))>>,
                                          <<Hint("c", <<Dot("p")>>, Num(4))>>>>,
       Wire("c", <<Dot("q")>>, Out("z"))>>,
     <<Make("c", <<>>)>> \o
         Twice(<<<<"if", <<"lt", "i", 1>>, <<Wire("c", <<Dot("p")>>, Var("a"))>>,
                                           <<Wire("c", <<Dot("q")>>, Var("b"))>>>>>>)}

\* The array: its elements in a row, from each other, in a loop, in a branch.
WithD ==
    {<<Make("d", <<At(Num(0))>>), Make("d", <<At(Num(1))>>),
       Wire("d", <<At(Num(0)), Dot("p")>>, Out("c")),
       Wire("d", <<At(Num(1)), Dot("p")>>, OutAt("d", Num(0)))>>,
     Twice(<<Make("d", <<At(I)>>), Wire("d", <<At(I), Dot("p")>>, Plus(Var("a"), I))>>),
     Twice(<<Make("d", <<At(I)>>)>>)
         \o <<<<"if", Var("b"), <<Hint("d", <<At(Num(1)), Dot("p")>>, Var("a"))>>,
                                <<Hint("d", <<At(Num(1)), Dot("p")>>, Out("c"))>>>>,
              Hint("d", <<At(Num(0)), Dot("p")>>, OutAt("d", Num(1)))>>}

WithS ==
    {Twice(<<Wire("s", <<At(I)>>, OutAt("d", I))>>),
     <<Hint("s", <<At(Num(0))>>, Out("c")),
       <<"same", Get("s", <<At(Num(0))>>), Get("c", <<Dot("p")>>)>>,
       Wire("s", <<At(Num(1))>>, Get("s", <<At(Num(0))>>))>>,
     <<<<"if", <<"lt", "v", 1>>,
         <<<<"signal", "t">>, Hint("t", <<At(Num(0))>>, Out("c")),
           Wire("t", <<At(Num(1))>>, Get("t", <<At(Num(0))>>)),
           Wire("s", <<At(Num(0))>>, Get("t", <<At(Num(1))>>))>>, <<>>>>,
       Hint("s", <<At(Num(1))>>, Get("s", <<At(Num(0))>>))>>,
     <<<<"if", Var("a"), <<Hint("s", <<At(Num(0))>>, Num(5)), Hint("s", <<At(Num(1))>>, Num(6))>>,
                         <<Hint("s", <<At(Num(0))>>, Out("c")), Hint("s", <<At(Num(1))>>, Var("b"))>>>>>>}

WithXY ==
    {<<Wire("x", <<>>, Plus(Out("c"), OutAt("d", Num(1)))), Hint("y", <<>>, Get("s", <<At(Num(1))>>)),
       <<"same", Var("y"), Plus(Var("x"), Var("a"))>>>>,
     <<Put("v", Out("c")), <<"if", Var("b"), <<Put("v", Num(2)), Hint("x", <<>>, Var("v"))>>,
                                             <<Hint("x", <<>>, Plus(Var("v"), Num(1)))>>>>,
       Wire("y", <<>>, Var("v"))>>,
     <<Wire("y", <<>>, Out("z"))>> \o Twice(<<Put("v", Plus(Var("v"), Get("s", <<At(I)>>)))>>)
         \o <<Hint("x", <<>>, Plus(Var("v"), Var("a"))), <<"same", Var("x"), Var("y")>>>>}

Begin == <<<<"signal", "x">>, <<"signal", "y">>, <<"signal", "s">>, <<"component", "c">>,
           <<"component", "d">>, <<"component", "z">>, <<"decl", "v">>, Put("v", Num(0)),
           <<"decl", "i">>, Put("i", Num(0)), Make("z", <<>>)>>

MCTemplates == {Begin \o c \o d \o s \o x : c \in WithC, d \in WithD, s \in WithS, x \in WithXY}

\* A function alone, or a template with a function that does nothing.
NoFunction == <<Ret(Num(0))>>
MCFunctions == MCPrograms \cup {NoFunction}
MCModules == (MCPrograms \X {<<>>}) \cup ({NoFunction} \X MCTemplates)
=============================================================================
