----------------------- MODULE ConditionalAssignment -----------------------
(***************************************************************************)
(* How the constraint generation executes a template body whose control    *)
(* flow it cannot always decide, and how it tells from the conditions      *)
(* around each assignment whether a signal gets at most one value.         *)
(*                                                                         *)
(* Both branches of an `if` with an unknown condition are executed, one    *)
(* after the other; conditions_state is the list of the conditions around  *)
(* the statement being executed.  A cell is NoAssigned, Assigned, or       *)
(* MightAssigned under a list of conditions.  The cells here are those of  *)
(* one input of a subcomponent, which also counts the cells still missing: *)
(* the outputs may be used once none is.                                   *)
(*                                                                         *)
(* The module executes every program of nested ifs, loops and assignments. *)
(***************************************************************************)
EXTENDS Integers, Sequences, FiniteSets

CONSTANTS
    Cell,              \* the cells of the input
    Nesting,           \* the choices for nested
    MaxConds,          \* bound: conditionals and loops executed (unknown_counter)
    MaxDepth,          \* bound: nesting of control structures
    MaxPasses          \* bound: iterations of a loop with known conditions

ASSUME BoundsAssumption ==
    /\ IsFiniteSet(Cell) /\ Cell # {}
    /\ Nesting \subseteq BOOLEAN
    /\ MaxConds \in Nat /\ MaxDepth \in Nat /\ MaxPasses \in Nat

VARIABLES
    nested,   \* whether the program has loops inside unknown conditionals
    conds,    \* conditions_state: a sequence of [id, branch]
    counter,  \* unknown_counter
    frames,   \* the control structures around the next statement
    cell,     \* the AssignmentState of each cell
    left,     \* unassigned_inputs of the component; 0 when the entry is removed
    history,  \* the paths on which each cell was assigned
    status    \* "running", "accepted", "twice", "missing" or "panic"

vars == <<nested, conds, counter, frames, cell, left, history, status>>

NoAssigned == [is |-> "no"]
Assigned == [is |-> "yes"]
MightAssigned(p) == [is |-> "might", under |-> p]

Top(s) == s[Len(s)]
Pop(s) == IF s = <<>> THEN s ELSE SubSeq(s, 1, Len(s) - 1)   \* Vec::pop

\* Bodies of unknown conditionals, and bodies of any kind.
Branches == {"then", "else", "first", "again"}
Bodies   == Branches \cup {"pass", "template"}

Body(kind, id) == [kind |-> kind, id |-> id, passes |-> 0]
Loop(kind, n)  == [kind |-> kind, id |-> 0, passes |-> n]

\* The frames of the conditionals around the next statement, and the conditions
\* that really guard it.
Guards == {i \in DOMAIN frames : frames[i].kind \in Branches}
Path == {[id |-> frames[i].id, branch |-> frames[i].kind # "else"] : i \in Guards}

InUnknown == Guards # {}            \* block_type = BlockType::Unknown

Innermost == IF frames = <<>> THEN "template" ELSE Top(frames).kind

AtStatement == status = "running" /\ Innermost \in Bodies

Init ==
    /\ nested \in Nesting
    /\ conds = <<>>
    /\ counter = 0
    /\ frames = <<>>
    /\ cell = [c \in Cell |-> NoAssigned]
    /\ left = Cardinality(Cell)
    /\ history = [c \in Cell |-> <<>>]
    /\ status = "running"

-----------------------------------------------------------------------------
(* Conditionals *)

Condition(id) == [id |-> id, branch |-> TRUE]

Open == counter < MaxConds /\ Len(frames) < MaxDepth

EnterThen ==
    /\ AtStatement
    /\ Open
    /\ conds' = Append(conds, Condition(counter))
    /\ frames' = Append(frames, Body("then", counter))
    /\ counter' = counter + 1
    /\ UNCHANGED <<nested, cell, left, history, status>>

\* The last condition is negated for the else branch; indexing an empty list
\* panics.
EnterElse ==
    /\ AtStatement
    /\ Innermost = "then"
    /\ \/ /\ conds # <<>>
          /\ conds' = [conds EXCEPT ![Len(conds)].branch = FALSE]
          /\ frames' = [frames EXCEPT ![Len(frames)].kind = "else"]
          /\ status' = status
       \/ /\ conds = <<>>
          /\ status' = "panic"
          /\ UNCHANGED <<conds, frames>>
    /\ UNCHANGED <<nested, counter, cell, left, history>>

\* The end of an if, with or without an else.
LeaveIf ==
    /\ AtStatement
    /\ Innermost \in {"then", "else"}
    /\ frames' = Pop(frames)
    /\ conds' = Pop(conds)
    /\ UNCHANGED <<nested, counter, cell, left, history, status>>

-----------------------------------------------------------------------------
(* Loops.  A loop pushes a condition of its own once, before the first test, *)
(* and pops one after every pass whose test was known to be true.            *)

EnterLoop ==
    /\ AtStatement
    /\ Open
    /\ InUnknown => nested
    /\ conds' = Append(conds, Condition(counter))
    /\ counter' = counter + 1
    /\ frames' = Append(frames, Loop("test", 0))
    /\ UNCHANGED <<nested, cell, left, history, status>>

Testing(kinds) ==
    /\ status = "running"
    /\ Innermost \in kinds

\* The test is true: one pass.  Inside an unknown block the pass makes the
\* variables it assigns NonQuadratic, so the next test is unknown.
Pass ==
    /\ Testing({"test"})
    /\ Len(frames) < MaxDepth
    /\ Top(frames).passes < MaxPasses
    /\ frames' = Append(Append(Pop(frames),
                               Loop(IF InUnknown THEN "unknown" ELSE "test",
                                    Top(frames).passes + 1)),
                        Body("pass", 0))
    /\ UNCHANGED <<nested, conds, counter, cell, left, history, status>>

EndPass ==
    /\ AtStatement
    /\ Innermost = "pass"
    /\ frames' = Pop(frames)
    /\ conds' = Pop(conds)
    /\ UNCHANGED <<nested, counter, cell, left, history, status>>

\* The test is false: the loop is left, and its condition with it.
ExitLoop ==
    /\ Testing({"test"})
    /\ frames' = Pop(frames)
    /\ UNCHANGED <<nested, conds, counter, cell, left, history, status>>

\* The test is unknown: the body is executed twice, as two conditionals.
UnknownPass(from, kind, to) ==
    /\ Testing(from)
    /\ Open
    /\ conds' = Append(conds, Condition(counter))
    /\ counter' = counter + 1
    /\ frames' = Append(Append(Pop(frames), Loop(to, 0)), Body(kind, counter))
    /\ UNCHANGED <<nested, cell, left, history, status>>

FirstPass  == UnknownPass({"test", "unknown"}, "first", "twice")
SecondPass == UnknownPass({"twice"}, "again", "over")

EndUnknownPass ==
    /\ AtStatement
    /\ Innermost \in {"first", "again"}
    /\ frames' = IF Top(frames).kind = "again" THEN Pop(Pop(frames)) ELSE Pop(frames)
    /\ conds' = Pop(conds)
    /\ UNCHANGED <<nested, counter, cell, left, history, status>>

-----------------------------------------------------------------------------
(* Assignments *)

Least(S) == CHOOSE i \in S : \A j \in S : i <= j

\* Variant: branches are not told apart.
JoinNever(old, new) == NoAssigned

\* Variant: a complementary branch one level up is taken for the same level.
JoinAnyLevel(old, new) ==
    LET differ == {i \in DOMAIN old \cap DOMAIN new : old[i] # new[i]}
        i == Least(differ)
    IN IF differ = {} THEN NoAssigned
       ELSE IF old[i].id # new[i].id THEN NoAssigned
       ELSE IF i = 1 THEN Assigned
       ELSE MightAssigned(SubSeq(new, 1, i - 1))

\* Variant: different conditionals are taken for different branches.
JoinAnyConditions(old, new) ==
    LET differ == {i \in DOMAIN old \cap DOMAIN new : old[i] # new[i]}
        i == Least(differ)
    IN IF differ = {} THEN NoAssigned
       ELSE IF i = Len(old) /\ i = Len(new) /\ old[i].id = new[i].id
            THEN IF i = 1 THEN Assigned ELSE MightAssigned(SubSeq(new, 1, i - 1))
       ELSE MightAssigned(new)

\* Two assignments under conditions.  They exclude each other when the first
\* difference is the branch of one conditional; if that is the last condition
\* of both, the two together cover the level above.  NoAssigned stands for the
\* multiple-assignment error.
Join(old, new) ==
    LET differ == {i \in DOMAIN old \cap DOMAIN new : old[i] # new[i]}
        i == Least(differ)
    IN IF differ = {} THEN NoAssigned
       ELSE IF old[i].id # new[i].id THEN NoAssigned
       ELSE IF i = Len(old) /\ i = Len(new)
            THEN IF i = 1 THEN Assigned ELSE MightAssigned(SubSeq(new, 1, i - 1))
       ELSE MightAssigned(new)

\* The state of a cell after an assignment under the current conditions.
Updated(old) ==
    IF old.is = "no"
    THEN IF conds = <<>> THEN Assigned ELSE MightAssigned(conds)
    ELSE IF old.is = "yes" \/ conds = <<>> THEN NoAssigned
    ELSE Join(old.under, conds)

\* update_unassigned_inputs: the entry of an input is removed at 0.
CountAssigned(n) == left' = IF left = 0 THEN 0 ELSE left - n

\* Assignment of one cell: an error, or a new state and one cell less to go.
Assign(c) ==
    /\ AtStatement
    /\ \/ /\ Updated(cell[c]) = NoAssigned
          /\ status' = "twice"
          /\ UNCHANGED <<cell, left, history>>
       \/ /\ Updated(cell[c]) # NoAssigned
          /\ cell' = [cell EXCEPT ![c] = Updated(@)]
          /\ history' = [history EXCEPT ![c] = Append(@, Path)]
          /\ CountAssigned(1)
          /\ status' = status
    /\ UNCHANGED <<nested, conds, counter, frames>>

\* The body ends: environment_check_all_components_assigned.
Finish ==
    /\ AtStatement
    /\ Innermost = "template"
    /\ status' = IF left = 0 THEN "accepted" ELSE "missing"
    /\ UNCHANGED <<nested, conds, counter, frames, cell, left, history>>

Next ==
    \/ EnterThen \/ EnterElse \/ LeaveIf
    \/ EnterLoop \/ Pass \/ EndPass \/ ExitLoop
    \/ FirstPass \/ SecondPass \/ EndUnknownPass
    \/ \E c \in Cell : Assign(c)
    \/ Finish

Spec == Init /\ [][Next]_vars

-----------------------------------------------------------------------------
(* Properties *)

Conditions == Seq([id : 0..MaxConds, branch : BOOLEAN])

TypeOK ==
    /\ nested \in BOOLEAN
    /\ conds \in Conditions
    /\ counter \in 0..MaxConds
    /\ frames \in Seq([kind : Bodies \cup {"test", "unknown", "twice", "over"},
                       id : 0..MaxConds, passes : 0..MaxPasses])
    /\ DOMAIN cell = Cell
    /\ \A c \in Cell : \/ cell[c] \in {NoAssigned, Assigned}
                       \/ cell[c].is = "might" /\ cell[c].under \in Conditions \ {<<>>}
    /\ left \in 0..Cardinality(Cell)
    /\ history \in [Cell -> Seq(SUBSET [id : 0..MaxConds, branch : BOOLEAN])]
    /\ status \in {"running", "accepted", "twice", "missing", "panic"}

\* Two paths some execution of the circuit takes both.
Compatible(p, q) == \A f \in p, g \in q : f.id = g.id => f.branch = g.branch

Conflict(c) ==
    \E i, j \in DOMAIN history[c] : i < j /\ Compatible(history[c][i], history[c][j])

\* signals.md: "if a signal is assigned twice, a compilation error is
\* generated": it gets at most one value in every execution of the circuit.
AssignedOncePerPath == \A c \in Cell : ~Conflict(c)

\* The analysis of execute_conditional_statement and Join is exact in programs
\* without loops inside unknown conditionals: what it accepts gives each cell
\* at most one value in every execution, ...
AcceptsExclusive == ~nested => AssignedOncePerPath

\* ... and what it refuses gives a cell two values in some execution.  The else
\* branch of a conditional finds a condition to negate, loops or not.
RefusesConflicts ==
    /\ status # "panic"
    /\ status = "twice" /\ ~nested =>
           \E c \in Cell : /\ Updated(cell[c]) = NoAssigned
                           /\ \E i \in DOMAIN history[c] : Compatible(history[c][i], Path)

\* The executions, by the branch each conditional takes.
Valuations == [0..MaxConds - 1 -> BOOLEAN]
Takes(v, p) == \A f \in p : v[f.id] = f.branch
Recorded(c) == {cell[c].under[i] : i \in DOMAIN cell[c].under}

\* The conditions recorded for a cell are well formed and covered: an execution
\* that meets them assigns the cell.
RecordedIsAssigned ==
    /\ TypeOK
    /\ ~nested => \A c \in Cell : \A v \in Valuations :
        \/ cell[c] = NoAssigned
        \/ cell[c].is = "might" /\ ~Takes(v, Recorded(c))
        \/ \E i \in DOMAIN history[c] : Takes(v, history[c][i])

\* The outputs of the component may be used exactly when every cell of the
\* input has been assigned somewhere.
OutputsNeedInputs == left = 0 <=> \A c \in Cell : cell[c] # NoAssigned
=============================================================================
