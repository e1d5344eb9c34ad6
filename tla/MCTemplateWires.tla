--------------------------- MODULE MCTemplateWires ---------------------------
(***************************************************************************)
(* Worlds of signals, arrays and a variable; of buses with a bus in them;  *)
(* and of a component with an array of two signals, an array of two buses  *)
(* and a signal as its inputs, assigned before and after its template is   *)
(* known and, in the last, in the branches of a conditional.               *)
(***************************************************************************)
EXTENDS TemplateWires

MCWire == {<<"a">>, <<"b">>, <<"s">>, <<"q">>,
           <<"v">>, <<"v", "x">>, <<"v", "z">>, <<"v", "z", "y">>,
           <<"u">>, <<"u", "x">>, <<"u", "z">>, <<"u", "z", "y">>,
           <<"i">>, <<"d">>, <<"w">>, <<"w", "x">>, <<"w", "z">>, <<"w", "z", "y">>, <<"o">>}
Arrays == {<<"s">>, <<"q">>, <<"i">>, <<"w">>, <<"v", "z", "y">>, <<"u", "z", "y">>, <<"w", "z", "y">>}
MCDim == [w \in MCWire |-> IF w \in Arrays THEN 2 ELSE 1]

\* The body of the component's template: its output takes the tag of i.
MCExported(tags) == [w \in {<<"o">>} |-> tags[<<"i">>]]

-----------------------------------------------------------------------------
One(n)     == <<<<n>>, <<1>>>>
At(n, k)   == <<<<n>>, <<k>>>>
All(n)     == <<<<n>>, <<>>>>
X(n, k)    == <<<<n, "x">>, <<k, 1>>>>
Z(n, k)    == <<<<n, "z">>, <<k, 1>>>>
Y(n, k)    == <<<<n, "z", "y">>, <<k, 1>>>>
YAt(n, k, j) == <<<<n, "z", "y">>, <<k, 1, j>>>>

Number == <<>>
Statement(op, to, from) == [op |-> op, to |-> to, from |-> from, value |-> 0]
Tag(w, n) == [op |-> "tag", to |-> <<w, <<>>>>, from |-> Number, value |-> n]
If == Statement("if", One("a"), Number)
New == Statement("new", One("a"), Number)

\* The tags of the inputs of the template: the signals a and b, and the bus v.
GivenTags(a, b, v, x, y) ==
    [w \in MCWire |->
       CASE w = <<"a">> -> a
         [] w = <<"b">> -> b
         [] w = <<"v">> -> v
         [] w = <<"v", "x">> -> x
         [] w = <<"v", "z", "y">> -> y
         [] OTHER -> NoTag]

SignalStatements ==
    {Statement("<==", At("s", k), f) : k \in 1 .. 2,
        f \in {Number, <<One("a")>>, <<One("b")>>}}
    \cup {Statement("<--", At("s", k), <<One("a")>>) : k \in 1 .. 2}
    \cup {Statement("<==", At("s", 2), f) : f \in {<<At("s", 1)>>, <<At("q", 1)>>}}
    \cup {Statement("<==", All("s"), f) : f \in {<<All("q")>>, <<One("a"), One("b")>>}}
    \cup {Statement("=", At("q", k), <<One("a")>>) : k \in 1 .. 2}
    \cup {Statement("=", All("q"), f) : f \in {<<One("a"), One("a")>>, <<All("s")>>}}
    \cup {Tag(<<"s">>, n) : n \in 1 .. 2}
    \cup {If}

SignalWorlds ==
    [listed : {{}, {<<"s">>}},
     given : {GivenTags(a, b, NoTag, NoTag, NoTag) : a \in {NoValue, 1}, b \in {NoTag, NoValue, 1, 2}},
     statements : {SignalStatements}, steps : {4}]

BusStatements ==
    {Statement(op, One("u"), <<One("v")>>) : op \in {"<==", "<--"}}
    \cup {Statement(op, X("u", 1), f) : op \in {"<==", "<--"}, f \in {<<One("a")>>, <<X("v", 1)>>}}
    \cup {Statement("<==", Z("u", 1), <<Z("v", 1)>>)}
    \cup {Statement("<==", YAt("u", 1, k), <<One("a")>>) : k \in 1 .. 2}
    \cup {Statement("<--", Y("u", 1), <<Y("v", 1)>>)}
    \cup {Statement("<==", At("s", 1), <<X("u", 1)>>), Statement("<==", All("s"), <<Y("u", 1)>>)}
    \cup {Tag(<<"u">>, 1), Tag(<<"u", "x">>, 2)}
    \cup {If}

BusWorlds ==
    [listed : {{}, {<<"u">>, <<"u", "x">>, <<"u", "z", "y">>}},
     given : {GivenTags(a, NoTag, v, x, y) :
                a \in {1}, v \in {NoTag, 1}, x \in {NoTag, 1, 2}, y \in {NoTag, 1}},
     statements : {BusStatements}, steps : {4}]

ComponentStatements ==
    {New, If}
    \cup {Statement("<==", At("i", k), f) : k \in 1 .. 2, f \in {<<One("a")>>, <<One("b")>>}}
    \cup {Statement("<--", At("i", 1), <<One("a")>>)}
    \cup {Statement("<==", All("i"), <<One("a"), One("b")>>)}
    \cup {Statement(op, One("d"), <<One("b")>>) : op \in {"<==", "<--"}}
    \cup {Statement("<==", At("w", k), <<One("v")>>) : k \in 1 .. 2}
    \cup {Statement("<==", All("w"), <<One("v"), One("v")>>)}
    \cup {Statement("<==", X("w", 1), <<One("a")>>), Statement("<--", X("w", 2), <<One("b")>>)}
    \cup {Statement("<==", Z("w", 1), <<Z("v", 1)>>)}
    \cup {Statement("<==", Y("w", 1), <<Y("v", 1)>>)}
    \cup {Statement("<==", At("s", 1), f) : f \in {<<One("o")>>, <<At("i", 1)>>}}

ComponentWorlds ==
    [listed : {{}, {<<"i">>, <<"o">>}, {<<"i">>, <<"w", "x">>, <<"o">>}},
     given : {GivenTags(a, b, NoTag, x, NoTag) : a \in {1}, b \in {NoTag, 1, 2}, x \in {NoTag, 1}},
     statements : {ComponentStatements}, steps : {5}]

\* Assignments put aside under conditions, in every order.
AsideStatements ==
    {New, If, Statement("<==", All("i"), <<One("a"), One("a")>>)}
    \cup {Statement("<--", t, <<One("b")>>) : t \in {One("d"), X("w", 1)}}
    \cup {Statement("<--", At("w", 1), <<One("v")>>)}

AsideWorlds ==
    [listed : {{<<"i">>, <<"o">>}}, given : {GivenTags(1, 1, NoTag, NoTag, NoTag)},
     statements : {AsideStatements}, steps : {7}]

MCWorlds == SignalWorlds \cup BusWorlds \cup ComponentWorlds \cup AsideWorlds
=============================================================================
