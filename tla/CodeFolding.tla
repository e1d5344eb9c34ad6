----------------------------- MODULE CodeFolding ------------------------------
(***************************************************************************)
(* From a template body to the code of the witness generator: statements   *)
(* that were never reached go, conditionals whose condition always had one *)
(* value become one of their branches, and expressions that always had one *)
(* value become that number.  Then the whole life of a template: written,  *)
(* analysed, executed and folded.                                          *)
(***************************************************************************)
EXTENDS TemplateExecution

CONSTANTS
    Start,        \* the variables declared at the beginning of the body, all 0
    Statements,   \* the statements a body is made of
    MaxStatements \* bound: statements of a body

VARIABLES
    phase,    \* "writing", "executing", "rejected" or "exported"
    code,     \* the body
    next,     \* position of the next statement to execute
    runtime,  \* the state of the execution
    worlds,   \* for every input, what the code computes up to there
    folded    \* for every input, what the exported code computes

vars == <<phase, code, next, runtime, worlds, folded>>

IsComputed(place, r) == place \in DOMAIN r.computed /\ r.computed[place] # <<>>

RECURSIVE Folded(_, _, _), FoldStatement(_, _, _)

\* computed_or_original and apply_computed_expr.
Folded(e, place, r) ==
    LET part(k, n) == Folded(k, At(place, n), r)
    IN IF IsComputed(place, r) THEN Number(r.computed[place][1])
       ELSE CASE e.is \in {"number", "signal", "variable"} -> e
              [] e.is = "element" -> [e EXCEPT !.index = part(@, 1)]
              [] e.is = "infix"   -> [e EXCEPT !.left = part(@, 1), !.right = part(@, 2)]
              [] e.is = "prefix"  -> [e EXCEPT !.arg = part(@, 1)]
              [] e.is = "switch"  -> [e EXCEPT !.cond = part(@, 1), !.yes = part(@, 2),
                                               !.no = part(@, 3)]
              [] e.is = "call"    -> [e EXCEPT !.args = [k \in DOMAIN e.args |-> part(e.args[k], k)]]

\* The statements of a block that were reached; an empty block or loop disappears.
FoldBlock(body, place, r) ==
    FlattenSeq([k \in DOMAIN body |-> IF At(place, k) \notin r.reached THEN <<>>
                                      ELSE FoldStatement(body[k], At(place, k), r)])

\* clean_dead_code and apply_computed.
FoldStatement(s, place, r) ==
    LET at(e, k) == Folded(e, At(place, k), r)
        yes == FoldBlock(s.yes, At(place, 2), r)
        no == FoldBlock(s.no, At(place, 3), r)
        body == FoldBlock(s.body, At(place, 2), r)
    IN CASE s.is = "assign"    -> << [s EXCEPT !.rhe = at(@, 1)] >>
         [] s.is = "element"   -> << [s EXCEPT !.index = at(@, 1), !.rhe = at(@, 2)] >>
         [] s.is = "constrain" -> << [s EXCEPT !.lhe = at(@, 1), !.rhe = at(@, 2)] >>
         [] s.is \in {"assert", "declare", "tag", "instantiate"} -> << [s EXCEPT !.arg = at(@, 1)] >>
         [] s.is = "if"        ->
              IF IsComputed(At(place, 1), r)
              THEN IF r.computed[At(place, 1)][1] # 0 THEN yes ELSE no
              ELSE IF yes = <<>> /\ no = <<>> THEN <<>>
              ELSE << If(at(s.cond, 1), yes, no) >>
         [] s.is = "while"     -> IF body = <<>> THEN <<>> ELSE << While(at(s.cond, 1), body) >>

-----------------------------------------------------------------------------
Init ==
    /\ phase = "writing"
    /\ code = <<>>
    /\ next = 1
    /\ runtime = Runtime([x \in DOMAIN Start |->
                            IF x \in Arrays THEN [k \in DOMAIN Start[x] |-> Num(0)] ELSE Num(0)])
    /\ worlds = [x \in Inputs |-> World(Start, x)]
    /\ folded = worlds

Write ==
    /\ phase = "writing"
    /\ Len(code) < MaxStatements
    /\ \E s \in Statements \ ToSet(code) : code' = Append(code, s)
    /\ UNCHANGED <<phase, next, runtime, worlds, folded>>

\* unknown_known_analysis comes first, and its reports end the compilation.
Analysis ==
    /\ phase = "writing"
    /\ code # <<>>
    /\ phase' = IF Reports(code) = {} THEN "executing" ELSE "rejected"
    /\ UNCHANGED <<code, next, runtime, worlds, folded>>

\* The next statement of the body, executed for no input and for every input.
Step ==
    /\ phase = "executing"
    /\ next <= Len(code)
    /\ runtime' = Execute(code[next], << next >>, runtime)
    /\ worlds' = [x \in Inputs |-> RunAll(<< code[next] >>, worlds[x])]
    /\ next' = next + 1
    /\ phase' = IF runtime'.error = "" THEN phase ELSE "rejected"
    /\ UNCHANGED <<code, folded>>

\* add_node_to_scheme.
Export ==
    /\ phase = "executing"
    /\ next > Len(code)
    /\ phase' = "exported"
    /\ LET body == FoldBlock(code, <<>>, runtime)
       IN folded' = [x \in Inputs |-> RunAll(body, World(Start, x))]
    /\ UNCHANGED <<code, next, runtime, worlds>>

Next == Write \/ Analysis \/ Step \/ Export

Spec == Init /\ [][Next]_vars

-----------------------------------------------------------------------------
(* Properties.  Loops that need a third pass, and expressions noted at some  *)
(* executions only, are left to the runs of their own.                       *)

EqualNumbers(v, n, x) == v.degree < 3 => v.at[x] = n

\* perform_assign and execute_conditional_statement: what the execution knows of a variable,
\* a number or an expression in the signals, is what the variable holds for every input.
KnownValuesAreRight ==
    phase = "executing" /\ runtime.stable =>
        \A x \in Inputs : worlds[x].status = "running" =>
            \A y \in DOMAIN Start :
                IF y \in Arrays
                THEN \A k \in DOMAIN Start[y] : EqualNumbers(runtime.env[y][k], worlds[x].env[y][k], x)
                ELSE EqualNumbers(runtime.env[y], worlds[x].env[y], x)

\* add_constraint and the declarations: the circuit has the constraints, components, signals
\* and tags that the code has for every input, no more, no less, and in this order
\* (control-flow.md: the generation must be unique and cannot depend on the inputs).
CircuitIsThatOfEveryInput ==
    phase = "exported" /\ runtime.stable /\ ~runtime.escaped =>
        \A x \in Inputs : worlds[x].status = "running" =>
            worlds[x].effects = [k \in DOMAIN runtime.effects |-> runtime.effects[k][x]]

\* apply_unused and apply_computed: the exported code does what the body does.
NotedElsewhere ==
    \E place \in DOMAIN runtime.computed :
        /\ IsComputed(place, runtime)
        /\ place \in runtime.missed \/ \E k \in runtime.skipped : IsPrefix(k, place)

ExportedCodeIsTheCode ==
    phase = "exported" /\ runtime.stable /\ ~NotedElsewhere =>
        \A x \in Inputs : worlds[x].status = "running" => folded[x] = worlds[x]

\* analyze: what the static analysis accepts has no constraint, component, signal or tag
\* below a condition that turns out not to be a number, or of a value that does.  It does not
\* follow the elements of arrays, nor what a loop inside another statement assigns: those are
\* found when the template is executed.
RECURSIVE ReadsArray(_), Parts(_)
ReadsArray(e) ==
    CASE e.is \in {"number", "signal", "variable"} -> FALSE
      [] e.is = "element" -> TRUE
      [] e.is = "infix"   -> ReadsArray(e.left) \/ ReadsArray(e.right)
      [] e.is = "prefix"  -> ReadsArray(e.arg)
      [] e.is = "switch"  -> \E k \in {e.cond, e.yes, e.no} : ReadsArray(k)
      [] e.is = "call"    -> \E k \in DOMAIN e.args : ReadsArray(e.args[k])
Inside(s) == CASE s.is = "if" -> Parts(s.yes) \cup Parts(s.no)
               [] s.is = "while" -> Parts(s.body)
               [] OTHER -> {}
Parts(body) == UNION {{s} \cup Inside(s) : s \in ToSet(body)}
LeftToExecution ==
    \E s \in Parts(code) :
        \/ s.is = "assign" /\ ReadsArray(s.rhe)
        \/ s.is \in DOMAIN Needed /\ ReadsArray(s.arg)
        \/ s.is \in {"if", "while"} /\ ReadsArray(s.cond)
        \/ \E u \in Inside(s) : u.is = "while"
AnalysisFindsUnknowns ==
    \/ runtime.error \in {"ConstraintInUnknown", "DeclarationInUnknown", "TagAssignmentInUnknown",
                           "UnknownSizeDimension", "NonValidTagAssignment", "UnknownTemplate"}
    \/ runtime.escaped
    => LeftToExecution

-----------------------------------------------------------------------------
(* What the documents say and the code does not do.                        *)

\* control-flow.md: a variable assigned in a loop with an unknown condition is
\* non-quadratic; so it may not be a number that is wrong for some input.
UnknownLoopsLeaveNoNumbers ==
    phase = "executing" =>
        \A x \in Inputs : worlds[x].status = "running" =>
            \A y \in DOMAIN Start \ Arrays : EqualNumbers(runtime.env[y], worlds[x].env[y], x)

\* control-flow.md: a component below an unknown condition is an error.
ComponentsAreKnown ==
    phase = "exported" => ~runtime.escaped

\* basic-operators.md: a conditional expression has the value of the branch its condition
\* selects; the exported code has the value the branch had in an earlier iteration.
SwitchesHaveTheirValue ==
    phase = "exported" /\ runtime.stable /\ runtime.missed = {} =>
        \A x \in Inputs : worlds[x].status = "running" => folded[x] = worlds[x]

\* code-assertion.md: the witness generator checks the assertions that are not known when
\* the constraints are generated.
AssertionsAreKept ==
    phase = "exported" /\ runtime.stable /\ ~NotedElsewhere =>
        \A x \in Inputs : worlds[x].status = "failed" => folded[x].status = "failed"
===============================================================================
