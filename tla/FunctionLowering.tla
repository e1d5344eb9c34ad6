--------------------------- MODULE FunctionLowering ---------------------------
(***************************************************************************)
(* The life of one circom function in the LLZK backend: its body is        *)
(* generated (FunctionGenerator), the returns that are inside an scf.if    *)
(* are collected, and each is removed by moving what follows the scf.if    *)
(* into an else block (FunctionContext::finalize in                        *)
(* src/llzk_backend/src/function.rs).  The program is chosen in the        *)
(* initial state; the properties compare what the result returns with what *)
(* the statements return, for all arguments.                               *)
(***************************************************************************)
EXTENDS FunctionGenerator

CONSTANTS
    Programs,     \* the bodies considered, each a sequence of statements
    Params,       \* the names of the parameters, in order
    Arguments,    \* the values of an argument
    Fuel          \* bound on the iterations of a loop that is evaluated

VARIABLES
    program,      \* the body of the function
    concrete,     \* types are known: nothing has a type variable as its type
    phase,        \* "source", "generated", "refactoring" or "done"
    g,            \* the generator's state
    rets          \* the blocks whose return is still to be moved, in order

vars == <<program, concrete, phase, g, rets>>

-----------------------------------------------------------------------------
\* FunctionContext::new: parameters, no value to return, no return so far.
EntryState(isConcrete) ==
    LET n == Len(Params)
        base == [next |-> n + 1, blocks |-> <<<<>>>>, frames |-> <<NewFrame(1)>>,
                 tvars |-> IF isConcrete THEN {} ELSE 1 .. n, failed |-> FALSE]
        withParams == [base EXCEPT !.frames[1].local =
            [x \in {Params[i] : i \in 1 .. n} |-> CHOOSE i \in 1 .. n : Params[i] = x]]
        withValue == Declare(Const(withParams, NoVal), ReturnVal, n + 1)
    IN  Declare(Const(withValue, 0), HadReturn, n + 2)

RECURSIVE ReturnsInIf(_, _, _)
(***************************************************************************)
(* The blocks of an scf.if that end with a return, in the order of the     *)
(* walk: the operations of a block backwards, what is nested in one before *)
(* the operation itself.                                                   *)
(***************************************************************************)
ReturnsInIf(blocks, b, k) ==
    IF k = 0 THEN <<>>
    ELSE LET op == blocks[b][k]
             nested(c) == IF c = 0 THEN <<>> ELSE ReturnsInIf(blocks, c, Len(blocks[c]))
             inner == CASE op.op = "if" -> nested(op.else) \o nested(op.then)
                        [] op.op = "while" -> nested(op.body) \o nested(op.before)
                        [] op.op = "return" /\ op.marked /\ b # 1 -> <<b>>
                        [] OTHER -> <<>>
         IN  inner \o ReturnsInIf(blocks, b, k - 1)

\* The place of the scf.if that has block b.
ParentIf(blocks, b) ==
    CHOOSE p \in UNION {{c} \X DOMAIN blocks[c] : c \in DOMAIN blocks} :
        /\ blocks[p[1]][p[2]].op = "if"
        /\ blocks[p[1]][p[2]].then = b

(***************************************************************************)
(* refactor_return_in_if: what follows the scf.if of block b becomes the   *)
(* else block of a new scf.if.  Its then block yields the returned value,  *)
(* in the place of RETURN_VAL and with HAD_RETURN set when the else block  *)
(* ends with the yield of an enclosing scf.if or scf.while; the other      *)
(* places are undetermined.  The block then ends with the results.         *)
(***************************************************************************)
RefactorReturnInIf(s, b) ==
    LET at == ParentIf(s.blocks, b)
        pb == at[1]
        ops == s.blocks[pb]
        if == ops[at[2]]
        following == SubSeq(ops, at[2] + 1, Len(ops))
        tail == Last(following)
        value == Last(s.blocks[b]).arg
        single == tail.op = "return"
        names == IF single THEN {""} ELSE DOMAIN tail.vals
        others == names \ {"", ReturnVal, HadReturn}
        elseVals == IF single THEN "" :> tail.arg ELSE tail.vals
        constants == ResultFor(s, others \cup {HadReturn})
        s1 == TakeResults(s, others \cup {HadReturn})
        thenVals == [x \in names |-> IF x \in {"", ReturnVal} THEN value
                                     ELSE constants[x]]
        thenOps == [i \in 1 .. Cardinality(others) + 1 |->
                        LET v == s.next - 1 + i
                        IN  [op |-> "const", res |-> v,
                             val |-> IF v = constants[HadReturn] THEN 1 ELSE NoVal]]
        s2 == [s1 EXCEPT !.blocks = @ \o <<thenOps \o <<Yield(thenVals, FALSE)>>,
                                           Front(following) \o <<Yield(elseVals, FALSE)>>>>]
        res == IF single THEN "" :> s2.next ELSE ResultFor(s2, names)
        new == [op |-> "if", cond |-> if.cond, then |-> LastBlock(s2) - 1,
                else |-> LastBlock(s2), res |-> res]
        end == IF pb = 1 THEN Return(res[""], FALSE) ELSE Yield(res, FALSE)
    IN  IF following = <<>> \/ tail.op \notin {"yield", "return"}
        THEN [s EXCEPT !.failed = TRUE]
        ELSE [s2 EXCEPT !.next = @ + Cardinality(names),
                        !.blocks[pb] = SubSeq(ops, 1, at[2] - 1) \o <<new, end>>]

-----------------------------------------------------------------------------
(* The state machine. *)

Init ==
    /\ program \in Programs
    /\ concrete \in BOOLEAN
    /\ phase = "source"
    /\ g = EntryState(concrete)
    /\ rets = <<>>

\* The body's statements, in the order they are written.
Generate ==
    /\ phase = "source"
    /\ g' = GenStatements(g, program)
    /\ phase' = "generated"
    /\ UNCHANGED <<program, concrete, rets>>

\* finalize: first only collect, as moving operations upsets the walk.
CollectReturns ==
    /\ phase = "generated"
    /\ rets' = ReturnsInIf(g.blocks, 1, Len(g.blocks[1]))
    /\ phase' = "refactoring"
    /\ UNCHANGED <<program, concrete, g>>

MoveReturn ==
    /\ phase = "refactoring"
    /\ rets # <<>>
    /\ g' = RefactorReturnInIf(g, Head(rets))
    /\ rets' = Tail(rets)
    /\ UNCHANGED <<program, concrete, phase>>

Finish ==
    /\ phase = "refactoring"
    /\ rets = <<>>
    /\ phase' = "done"
    /\ UNCHANGED <<program, concrete, g, rets>>

Next == Generate \/ CollectReturns \/ MoveReturn \/ Finish

Spec == Init /\ [][Next]_vars

-----------------------------------------------------------------------------
(***************************************************************************)
(* What the statements return.  A store is a sequence of scopes; a run is  *)
(* the store and the returned value, NoReturn while there is none.         *)
(***************************************************************************)
NoReturn == -2

Lookup(store, x) ==
    store[CHOOSE i \in DOMAIN store :
             /\ x \in DOMAIN store[i]
             /\ \A j \in i + 1 .. Len(store) : x \notin DOMAIN store[j]][x]

Assign(store, x, n) ==
    LET i == CHOOSE i \in DOMAIN store :
                /\ x \in DOMAIN store[i]
                /\ \A j \in i + 1 .. Len(store) : x \notin DOMAIN store[j]
    IN  [store EXCEPT ![i][x] = n]

Val(store, e) ==
    CASE e[1] = "num" -> e[2]
      [] e[1] = "var" -> Lookup(store, e[2])
      [] e[1] = "add" -> Lookup(store, e[2]) + e[3]
      [] e[1] = "lt"  -> IF Lookup(store, e[2]) < e[3] THEN 1 ELSE 0

RECURSIVE RunStatement(_, _), RunStatements(_, _), RunInScope(_, _)

RunInScope(store, stmts) ==
    LET r == RunStatements(Append(store, <<>>), stmts)
    IN  <<SubSeq(r[1], 1, Len(store)), r[2]>>

RunStatement(store, s) ==
    CASE s[1] = "decl" -> <<[store EXCEPT ![Len(store)] = (s[2] :> 0) @@ @], NoReturn>>
      [] s[1] = "set" -> <<Assign(store, s[2], Val(store, s[3])), NoReturn>>
      [] s[1] = "ret" -> <<store, Val(store, s[2])>>
      [] s[1] = "block" -> RunInScope(store, s[2])
      [] s[1] = "if" -> RunInScope(store, IF Val(store, s[2]) # 0 THEN s[3] ELSE s[4])
      [] s[1] = "while" ->
            IF Val(store, s[2]) = 0 THEN <<store, NoReturn>>
            ELSE LET r == RunInScope(store, s[3])
                 IN  IF r[2] # NoReturn THEN r ELSE RunStatement(r[1], s)

RunStatements(store, stmts) ==
    IF stmts = <<>> THEN <<store, NoReturn>>
    ELSE LET r == RunStatement(store, Head(stmts))
         IN  IF r[2] # NoReturn THEN r ELSE RunStatements(r[1], Tail(stmts))

SourceReturns(args) ==
    RunStatements(<<[x \in {Params[i] : i \in DOMAIN Params} |->
                        args[CHOOSE i \in DOMAIN Params : Params[i] = x]]>>, program)[2]

-----------------------------------------------------------------------------
(***************************************************************************)
(* What the SSA form returns.  env maps the values computed so far to      *)
(* numbers; an operand that has none is undetermined, and so is the result *)
(* of a branch on an undetermined condition and of a loop without an end.  *)
(***************************************************************************)
Arg(env, v) == IF v \in DOMAIN env THEN env[v] ELSE NoVal

Computed(env, op) ==
    LET a == Arg(env, op.arg)
        both == {a, Arg(env, op.arg2)}
    IN  CASE op.op = "and" -> IF 0 \in both THEN 0 ELSE IF NoVal \in both THEN NoVal ELSE 1
          [] op.op # "and" /\ a = NoVal -> NoVal
          [] op.op = "add" /\ a # NoVal -> a + op.num
          [] op.op = "lt" /\ a # NoVal -> IF a < op.num THEN 1 ELSE 0
          [] op.op = "ne" /\ a # NoVal -> IF a # op.num THEN 1 ELSE 0
          [] op.op = "not" /\ a # NoVal -> 1 - a

\* The results res of an operation, given what its block yields.
Bind(env, res, outcome) ==
    [v \in {res[x] : x \in DOMAIN res} |->
        LET x == CHOOSE y \in DOMAIN res : res[y] = v
        IN  IF x \in DOMAIN outcome THEN outcome[x] ELSE NoVal] @@ env

RECURSIVE RunBlock(_, _, _), RunLoop(_, _, _, _)

\* The values a block yields, or "" :> the value it returns.
RunBlock(env, b, k) ==
    LET op == g.blocks[b][k]
    IN  CASE k \notin DOMAIN g.blocks[b] -> <<>>
          [] k \in DOMAIN g.blocks[b] ->
             CASE op.op = "return" -> "" :> Arg(env, op.arg)
               [] op.op = "condition" -> "" :> Arg(env, op.arg)
               [] op.op = "yield" -> [x \in DOMAIN op.vals |-> Arg(env, op.vals[x])]
               [] op.op = "const" -> RunBlock((op.res :> op.val) @@ env, b, k + 1)
               [] op.op = "if" ->
                    LET c == Arg(env, op.cond)
                        out == IF c = NoVal THEN <<>>
                               ELSE RunBlock(env, IF c # 0 THEN op.then ELSE op.else, 1)
                    IN  RunBlock(Bind(env, op.res, out), b, k + 1)
               [] op.op = "while" ->
                    LET init == [x \in DOMAIN op.init |-> Arg(env, op.init[x])]
                    IN  RunBlock(Bind(env, op.res, RunLoop(env, op, init, Fuel)), b, k + 1)
               [] OTHER -> RunBlock((op.res :> Computed(env, op)) @@ env, b, k + 1)

RunLoop(env, op, carried, fuel) ==
    LET c == RunBlock(Bind(env, op.bargs, carried), op.before, 1)[""]
    IN  CASE c = NoVal \/ fuel = 0 -> <<>>
          [] c = 0 -> carried
          [] OTHER -> RunLoop(env, op, RunBlock(Bind(env, op.dargs, carried), op.body, 1),
                              fuel - 1)

LoweredReturns(args) == RunBlock([i \in DOMAIN args |-> args[i]], 1, 1)[""]

-----------------------------------------------------------------------------
(* Shapes of programs. *)

RECURSIVE Inside(_)
\* The statements in a list, at every depth.
Inside(stmts) ==
    UNION {{stmts[k]} \cup
              CASE stmts[k][1] = "if" -> Inside(stmts[k][3]) \cup Inside(stmts[k][4])
                [] stmts[k][1] = "while" -> Inside(stmts[k][3])
                [] stmts[k][1] = "block" -> Inside(stmts[k][2])
                [] OTHER -> {} : k \in DOMAIN stmts}

RECURSIVE AlwaysReturns(_)
AlwaysReturns(stmts) ==
    \E k \in DOMAIN stmts :
        CASE stmts[k][1] = "ret" -> TRUE
          [] stmts[k][1] = "if" -> AlwaysReturns(stmts[k][3]) /\ AlwaysReturns(stmts[k][4])
          [] stmts[k][1] = "block" -> AlwaysReturns(stmts[k][2])
          [] OTHER -> FALSE

MayReturn(stmts) == \E s \in Inside(stmts) : s[1] = "ret"

\* An if with no branch that always returns, although one may return.
HidesReturn(p) ==
    \E s \in Inside(p) :
        /\ s[1] = "if"
        /\ MayReturn(s[3]) \/ MayReturn(s[4])
        /\ ~AlwaysReturns(s[3]) /\ ~AlwaysReturns(s[4])

\* A block of the function's body, not a branch or a loop, that always returns.
BlockReturns(p) == \E k \in DOMAIN p : p[k][1] = "block" /\ AlwaysReturns(p[k][2])

\* A loop in a program that makes one variable a second name of a value.
CopiesIntoLoop(p) ==
    /\ \E s \in Inside(p) : s[1] = "while"
    /\ \E s \in Inside(p) :
          /\ s[1] = "set" /\ s[3][1] = "var"
          /\ concrete \/ s[3][2] \notin {Params[i] : i \in DOMAIN Params}

\* A loop whose condition is a field element.
FieldCondition(p) == \E s \in Inside(p) : s[1] = "while" /\ s[2][1] # "lt"

-----------------------------------------------------------------------------
(* Properties. *)

SameResults ==
    \A args \in [DOMAIN Params -> Arguments] : LoweredReturns(args) = SourceReturns(args)

(***************************************************************************)
(* The lowered function returns what the circom function returns, for all  *)
(* arguments: an early return, at any depth of ifs and loops, is taken, no *)
(* later statement has an effect on its value, and a variable assigned in  *)
(* a branch, a loop or a shadowing scope has the right value afterwards.   *)
(* The four shapes for which the generator is wrong are excluded; three   *)
(* have a property of their own, and a block that returns ends the body of *)
(* the function with an scf.yield.                                         *)
(***************************************************************************)
ReturnsWhatSourceReturns ==
    phase = "done" /\ ~HidesReturn(program) /\ ~BlockReturns(program)
        /\ ~CopiesIntoLoop(program) /\ ~FieldCondition(program) => SameResults

RECURSIVE ValidBlock(_, _, _, _)
\* From operation k on, with the values visible before it.
ValidBlock(b, k, visible, yields) ==
    /\ k \in DOMAIN g.blocks[b]
    /\ LET op == g.blocks[b][k]
           last == k = Len(g.blocks[b])
           used == CASE op.op \in {"add", "lt", "ne", "not", "return", "condition"} -> {op.arg}
                     [] op.op = "and" -> {op.arg, op.arg2}
                     [] op.op = "yield" -> {op.vals[x] : x \in DOMAIN op.vals}
                     [] op.op = "if" -> {op.cond}
                     [] op.op = "while" -> {op.init[x] : x \in DOMAIN op.init}
                     [] OTHER -> {}
           ids(f) == {f[x] : x \in DOMAIN f}
       IN  /\ used \subseteq visible
           /\ CASE op.op = "return" -> last /\ b = 1
                [] op.op = "yield" -> last /\ b # 1 /\ DOMAIN op.vals = yields
                [] op.op = "condition" -> last
                [] op.op = "if" ->
                     /\ ValidBlock(op.then, 1, visible, DOMAIN op.res)
                     /\ ValidBlock(op.else, 1, visible, DOMAIN op.res)
                     /\ ValidBlock(b, k + 1, visible \cup ids(op.res), yields)
                [] op.op = "while" ->
                     /\ ValidBlock(op.before, 1, visible \cup ids(op.bargs), {})
                     /\ ValidBlock(op.body, 1, visible \cup ids(op.dargs), DOMAIN op.res)
                     /\ ValidBlock(b, k + 1, visible \cup ids(op.res), yields)
                [] OTHER -> ValidBlock(b, k + 1, visible \cup {op.res}, yields)

(***************************************************************************)
(* What LLZK demands of the result: function.return only at the end of the *)
(* function's body, one terminator at the end of every block, both         *)
(* branches of an scf.if and the body of an scf.while yielding as many     *)
(* values as the operation has results, and every operand computed before  *)
(* it is used, in the same block or one around it.                         *)
(***************************************************************************)
IsValidLLZK ==
    phase = "done" /\ ~BlockReturns(program) /\ ~FieldCondition(program) =>
        ~g.failed /\ ValidBlock(1, 1, DOMAIN Params, {})

(***************************************************************************)
(* "an additional scf.if must be added after the main scf.if to check the  *)
(* return state flag" (function.rs): the same for the programs with a      *)
(* return in an if inside a branch that goes on after it.                  *)
(***************************************************************************)
HiddenReturnsAreTaken ==
    phase = "done" /\ ~BlockReturns(program) /\ ~CopiesIntoLoop(program)
        /\ ~FieldCondition(program) => SameResults

(***************************************************************************)
(* "replace uses of the overwritten variables in both blocks"              *)
(* (gen_scf_while): a loop that changes one variable leaves alone another  *)
(* that had the same value before the loop.                                *)
(***************************************************************************)
CopiesStayApart ==
    phase = "done" /\ ~HidesReturn(program) /\ ~BlockReturns(program)
        /\ ~FieldCondition(program) => SameResults

(***************************************************************************)
(* "In the loop condition block, ensure the condition has bool type"       *)
(* (gen_scf_while): a loop on a field element tests it in every iteration. *)
(***************************************************************************)
FieldConditionsAreTested ==
    phase = "done" /\ ~HidesReturn(program) /\ ~BlockReturns(program)
        /\ ~CopiesIntoLoop(program) => SameResults

=============================================================================
