----------------------------- MODULE KnownAnalysis ----------------------------
(***************************************************************************)
(* The static analysis that tells which variables of a template can be     *)
(* unknown when the constraints are generated, and rejects a template with *)
(* constraints, tags, signals or components below a condition that can be, *)
(* or with sizes, tags or parameters that can be.                          *)
(*                                                                         *)
(* The environment is the set of the scalar variables tagged Unknown;      *)
(* reads of arrays always count as Known, so arrays need no tag.           *)
(***************************************************************************)
EXTENDS CircomCode, FiniteSets

CONSTANT Arrays   \* the names of the array variables

RECURSIVE Tagged(_, _), UnknownIndex(_, _), Analyze(_, _), UntilStable(_, _)

\* tag(e) = Unknown.
Tagged(e, unknown) ==
    CASE e.is = "number"   -> FALSE
      [] e.is = "signal"   -> TRUE
      [] e.is = "element"  -> FALSE
      [] e.is = "variable" -> e.name \in unknown
      [] e.is = "infix"    -> Tagged(e.left, unknown) \/ Tagged(e.right, unknown)
      [] e.is = "prefix"   -> Tagged(e.arg, unknown)
      [] e.is = "switch"   -> \E k \in {e.cond, e.yes, e.no} : Tagged(k, unknown)
      [] e.is = "call"     -> \E k \in DOMAIN e.args : Tagged(e.args[k], unknown)

UnknownIndex(e, unknown) ==
    CASE e.is \in {"number", "signal", "variable"} -> FALSE
      [] e.is = "element" -> Tagged(e.index, unknown)
      [] e.is = "infix"   -> UnknownIndex(e.left, unknown) \/ UnknownIndex(e.right, unknown)
      [] e.is = "prefix"  -> UnknownIndex(e.arg, unknown)
      [] e.is = "switch"  -> \E k \in {e.cond, e.yes, e.no} : UnknownIndex(k, unknown)
      [] e.is = "call"    -> \E k \in DOMAIN e.args : UnknownIndex(e.args[k], unknown)

\* ExitInformation.
Exit(unknown) == [unknown |-> unknown, effects |-> {}, modified |-> {}, reports |-> {}]

\* iterate_statements.
AnalyzeAll(code, entry) ==
    FoldLeft(LAMBDA x, s : LET y == Analyze(s, x.unknown)
                           IN [unknown |-> y.unknown,
                               effects |-> x.effects \cup y.effects,
                               modified |-> x.modified \cup y.modified,
                               reports |-> x.reports \cup y.reports],
             Exit(entry), code)

\* Variant: the tags after a pass forget those before it.
ForgetEntry(x, entry) == x

\* check_modified: what a pass of a loop modifies may have been unknown before it.
CheckModified(x, entry) == [x EXCEPT !.unknown = @ \cup (x.modified \cap entry)]

\* The passes over a loop body end when no variable becomes unknown.
UntilStable(s, entry) ==
    LET x == CheckModified(AnalyzeAll(s.body, entry), entry)
    IN IF x.modified \cap x.unknown \subseteq entry THEN x ELSE UntilStable(s, x.unknown)

\* A conditional or loop whose condition is unknown makes what it assigns unknown, and may
\* have no such effects.  The condition of an if is tagged before, that of a loop after it.
BelowCondition(x, unknown) ==
    [x EXCEPT !.unknown = @ \cup (IF unknown THEN x.modified \ Arrays ELSE {}),
              !.reports = @ \cup (IF unknown THEN x.effects ELSE {})]

NonQuadratic(exps, unknown) ==
    IF \E e \in exps : UnknownIndex(e, unknown) THEN {"NonQuadratic"} ELSE {}

\* What must be known: its report when it is not, and the one when it is below a condition.
Needed == [declare     |-> [unknown |-> "UnknownDimension", below |-> "UnreachableSignals"],
           tag         |-> [unknown |-> "NonValidTagAssignment", below |-> "UnreachableTags"],
           instantiate |-> [unknown |-> "UnknownTemplate", below |-> "UnreachableConstraints"]]

Analyze(s, entry) ==
    CASE s.is = "assign" ->
           [Exit(IF Tagged(s.rhe, entry) THEN entry \cup {s.name} ELSE entry \ {s.name})
              EXCEPT !.modified = {s.name}]
      [] s.is = "element" -> [Exit(entry) EXCEPT !.modified = {s.name}]
      [] s.is = "constrain" ->
           [Exit(entry) EXCEPT !.effects = {"UnreachableConstraints"},
                               !.reports = NonQuadratic({s.lhe, s.rhe}, entry)]
      [] s.is \in DOMAIN Needed ->
           [Exit(entry) EXCEPT !.effects = {Needed[s.is].below},
                               !.reports = IF Tagged(s.arg, entry) THEN {Needed[s.is].unknown} ELSE {}]
      [] s.is = "if" ->
           LET yes == AnalyzeAll(s.yes, entry)
               no  == AnalyzeAll(s.no, entry)
           IN BelowCondition([unknown |-> yes.unknown \cup no.unknown,
                              effects |-> yes.effects \cup no.effects,
                              modified |-> yes.modified \cup no.modified,
                              reports |-> yes.reports \cup no.reports],
                             Tagged(s.cond, entry))
      \* What a loop modifies is not passed on to the code around it.
      [] s.is = "while" ->
           LET x == UntilStable(s, entry)
           IN [BelowCondition(x, Tagged(s.cond, x.unknown)) EXCEPT !.modified = {}]
      [] OTHER -> Exit(entry)

\* unknown_known_analysis: the reports on a template body.
Reports(code) == AnalyzeAll(code, {}).reports
===============================================================================
