----------------------------- MODULE MCTemplateCode ---------------------------
(***************************************************************************)
(* Templates with two components of two inputs: every way to store them    *)
(* with at most four of MCStatements, at constant indexes, in loops  *)
(* over the components or the elements, in branches and in nested ones.    *)
(***************************************************************************)
EXTENDS TemplateCode

MCInstances == 0 .. 1
MCFields == {"f", "g"}

\* The sizes of f and g in the two components: all equal, one or both different, empty.
Sizes(f0, f1, g0, g1) == [f |-> (0 :> f0) @@ (1 :> f1), g |-> (0 :> g0) @@ (1 :> g1)]
MCSizeTables == {Sizes(1, 1, 1, 1), Sizes(2, 2, 1, 1), Sizes(1, 2, 1, 1), Sizes(1, 1, 0, 0),
                 Sizes(1, 1, 0, 1), Sizes(0, 1, 1, 0), Sizes(2, 1, 1, 2)}

StoreAll(k, f) == Store(At(k), f, Whole)
StoreIn(f) == Store(Var("i"), f, Whole)

Constant == {StoreAll(k, f) : k \in MCInstances, f \in MCFields}
            \cup {EachElement(At(k), "f") : k \in MCInstances}
            \cup {Store(At(0), "f", At(e)) : e \in 0 .. 1} \cup {Called(At(1), "g")}
Bodies == {<< StoreIn("f") >>, << StoreIn("g") >>, << EachElement(Var("i"), "f") >>,
           << StoreIn("f"), StoreIn("g") >>, << StoreIn("g"), EachElement(Var("i"), "f") >>,
           << Anonymous("f"), Anonymous("g") >>, << Called(Var("i"), "f"), StoreIn("g") >>,
           << When(0, << StoreIn("f") >>, <<>>) >>,
           << When(0, << StoreIn("f") >>, <<>>), StoreIn("g") >>,
           << StoreIn("g"), When(1, << StoreIn("f") >>, << EachElement(Var("i"), "f") >>) >>,
           << When(1, << StoreAll(1, "f") >>, << StoreAll(0, "g") >>) >>}
MCStatements ==
    Constant \cup {EachInstance(b) : b \in Bodies}
    \cup {When(1, << StoreAll(1, "g") >>, << StoreAll(0, "g") >>),
          When(0, << StoreAll(0, "f"), StoreAll(0, "g") >>, << StoreAll(0, "g"), StoreAll(0, "f") >>)}
===============================================================================
