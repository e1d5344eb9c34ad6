-------------------------- MODULE FunctionGenerator --------------------------
(***************************************************************************)
(* How the LLZK backend turns the body of a circom function into SSA form  *)
(* (src/llzk_backend/src/function.rs and gen_context.rs).                  *)
(*                                                                         *)
(* A circom function assigns variables and may return from inside an if or *)
(* a loop.  LLZK has neither: scf.if and scf.while yield the new values of *)
(* the variables their blocks assign, and function.return ends the body of *)
(* the function.  The generator keeps, per scope, the SSA value of each    *)
(* variable, turns an early return into two more "variables" (a flag and   *)
(* the value) and a test of the flag after the if or the loop, and when    *)
(* the whole body is generated moves what follows such a test into its     *)
(* else block.                                                             *)
(*                                                                         *)
(* Data: expressions are a number, a variable, or a variable plus a        *)
(* number; types are reduced to the difference that decides whether an     *)
(* assignment makes a new value (a type variable, which is cast) or only   *)
(* another name for the same value (a field element).  Arrays, calls and   *)
(* asserts are left out.                                                   *)
(***************************************************************************)
EXTENDS Integers, Sequences, FiniteSets, TLC

CONSTANT NameOrder   \* the names, in the order a stable generation visits them

HadReturn == "**had_return**"
ReturnVal == "**return_val**"

NoVal == -1       \* an undetermined value: llzk.nondet, or a use of nothing

-----------------------------------------------------------------------------
(***************************************************************************)
(* The generator's state: the next value, the blocks (numbered, block 1 is *)
(* the body of the function; an operation with regions names its blocks),  *)
(* the stack of scopes, each with the operations queued for its end, and   *)
(* the values whose type is a type variable.                               *)
(***************************************************************************)
NewFrame(b) == [block |-> b, local |-> <<>>, over |-> <<>>, queue |-> <<>>]

Top(g) == g.frames[Len(g.frames)]
TopBlock(g) == Top(g).block
Push(g, b) == [g EXCEPT !.frames = Append(@, NewFrame(b))]

IsNamePresent(g, x) == x \in DOMAIN Top(g).local

\* The names a frame knows: its own variables and the outer ones it changed.
KnownIn(f) == DOMAIN f.local \cup DOMAIN f.over

GetNamedValue(g, x) ==
    LET i == CHOOSE j \in DOMAIN g.frames :
                /\ x \in KnownIn(g.frames[j])
                /\ \A k \in j + 1 .. Len(g.frames) : x \notin KnownIn(g.frames[k])
        f == g.frames[i]
    IN  IF x \in DOMAIN f.local THEN f.local[x] ELSE f.over[x]

\* An assignment stays in the top scope: in its variable, or as an overwrite.
SetNamedValue(g, x, v) ==
    IF IsNamePresent(g, x)
    THEN [g EXCEPT !.frames[Len(g.frames)].local[x] = v]
    ELSE [g EXCEPT !.frames[Len(g.frames)].over = (x :> v) @@ @]

SetNamedValues(g, new) ==
    LET mine == DOMAIN new \cap DOMAIN Top(g).local
        outer == DOMAIN new \ mine
    IN  [g EXCEPT !.frames[Len(g.frames)] =
            [@ EXCEPT !.local = [x \in mine |-> new[x]] @@ @,
                      !.over = [x \in outer |-> new[x]] @@ @]]

Declare(g, x, v) ==
    [g EXCEPT !.frames[Len(g.frames)].local = (x :> v) @@ @]

-----------------------------------------------------------------------------
(* Blocks and operations. *)

NewBlock(g) == [g EXCEPT !.blocks = Append(@, <<>>)]
LastBlock(g) == Len(g.blocks)

IsTerminator(op) == op.op \in {"yield", "return", "condition"}
HasTerminator(ops) == ops # <<>> /\ IsTerminator(ops[Len(ops)])
Front(ops) == SubSeq(ops, 1, Len(ops) - 1)
Last(ops) == ops[Len(ops)]

\* Operations go before the terminator of a block that has one already.
EmitIn(g, b, op) ==
    [g EXCEPT !.blocks[b] = IF HasTerminator(@)
                            THEN Front(@) \o <<op, Last(@)>>
                            ELSE Append(@, op)]
Emit(g, op) == EmitIn(g, TopBlock(g), op)

\* The writes queued for the top scope, before the terminator of its block if there is one.
AppendQueue(g) ==
    LET ops == g.blocks[TopBlock(g)]
        new == IF HasTerminator(ops) THEN Front(ops) \o Top(g).queue \o <<Last(ops)>>
               ELSE ops \o Top(g).queue
    IN  [g EXCEPT !.blocks[TopBlock(g)] = new, !.frames[Len(g.frames)].queue = <<>>]

\* A scope ends: what is queued for it is emitted.
Popped(g) == [AppendQueue(g) EXCEPT !.frames = SubSeq(@, 1, Len(@) - 1)]

\* Append at the very end, as Block::append_operation does.
AppendTo(g, b, op) == [g EXCEPT !.blocks[b] = Append(@, op)]

\* One operation with one result: the state after it, its result being g.next.
Fresh(g) == [g EXCEPT !.next = @ + 1]
ConstIn(g, b, n) == Fresh(EmitIn(g, b, [op |-> "const", res |-> g.next, val |-> n]))
Const(g, n) == ConstIn(g, TopBlock(g), n)
Unary(g, kind, v, n) ==
    Fresh(Emit(g, [op |-> kind, res |-> g.next, arg |-> v, num |-> n]))

-----------------------------------------------------------------------------
(***************************************************************************)
(* Expressions.  GenExpr is the pair of the new state and the value: a     *)
(* variable has no operation of its own, its value is the one it is mapped *)
(* to.  A comparison has a Boolean value, every other expression a field   *)
(* element that a condition must cast.                                     *)
(***************************************************************************)
GenExpr(g, e) ==
    CASE e[1] = "num" -> <<Const(g, e[2]), g.next>>
      [] e[1] = "var" -> <<g, GetNamedValue(g, e[2])>>
      [] e[1] = "add" -> <<Unary(g, "add", GetNamedValue(g, e[2]), e[3]), g.next>>
      [] e[1] = "lt"  -> <<Unary(g, "lt", GetNamedValue(g, e[2]), e[3]), g.next>>

\* The cast is an operation of the current block, whatever block v is from.
CastToBool(g, e, v) ==
    IF e[1] = "lt" THEN <<g, v>> ELSE <<Unary(g, "ne", v, 0), g.next>>

\* A value of another type is cast, which makes a new value; one of the same
\* type becomes a second name for the same value.
SimpleAssignment(g, x, v) ==
    IF v \in g.tvars
    THEN SetNamedValue(Unary(g, "add", v, 0), x, g.next)
    ELSE SetNamedValue(g, x, v)

GenDeclaration(g, x) ==
    IF IsNamePresent(g, x) THEN g ELSE Declare(Const(g, NoVal), x, g.next)

-----------------------------------------------------------------------------
(* Returns. *)

Yield(vals, marked) == [op |-> "yield", vals |-> vals, marked |-> marked]
Return(v, marked) == [op |-> "return", arg |-> v, marked |-> marked]

IsOnlyRoot(g) == Len(g.frames) = 1

\* function.return in the body of the function, otherwise a marked yield.
AppendCircomReturn(g, v) ==
    Emit(g, IF IsOnlyRoot(g) THEN Return(v, TRUE) ELSE Yield("" :> v, TRUE))

EndsWithReturn(g, b) ==
    LET ops == g.blocks[b]
    IN  ops # <<>> /\ Last(ops).op = "yield" /\ Last(ops).marked
ReturnedIn(g, b) == Last(g.blocks[b]).vals[""]

\* Mutant: the marked yield stays where it is.
EraseReturnKept(g, b) == g

EraseReturn(g, b) ==
    IF EndsWithReturn(g, b) THEN [g EXCEPT !.blocks[b] = Front(@)] ELSE g

\* scf.if HAD_RETURN { function.return RETURN_VAL } in the current block.
GenUnbalancedReturnExtra(g) ==
    LET g1 == NewBlock(g)
        b  == LastBlock(g1)
        g2 == AppendTo(g1, b, Return(GetNamedValue(g, ReturnVal), TRUE))
    IN  Emit(g2, [op |-> "if", cond |-> GetNamedValue(g, HadReturn),
                  then |-> b, else |-> 0, res |-> <<>>])

\* Mutant: the branch that does not return sets the flag as well.
UnbalancedOverwritesBothSet(g, retBlock, retVal, retOver, otherBlock, otherOver) ==
    LET g1 == ConstIn(g, retBlock, 1)
        g2 == ConstIn(g1, otherBlock, 1)
    IN  <<g2,
          (HadReturn :> g.next) @@ (ReturnVal :> retVal) @@ retOver,
          (HadReturn :> g1.next) @@ (ReturnVal :> GetNamedValue(g, ReturnVal))
              @@ otherOver>>

(***************************************************************************)
(* One branch returns and the other does not: the flag is set in both, and *)
(* the value of the branch that does not return is the current one.  The   *)
(* result is the state and the overwrites of both branches.                *)
(***************************************************************************)
UnbalancedOverwrites(g, retBlock, retVal, retOver, otherBlock, otherOver) ==
    LET g1 == ConstIn(g, retBlock, 1)
        g2 == ConstIn(g1, otherBlock, 0)
    IN  <<g2,
          (HadReturn :> g.next) @@ (ReturnVal :> retVal) @@ retOver,
          (HadReturn :> g1.next) @@ (ReturnVal :> GetNamedValue(g, ReturnVal))
              @@ otherOver>>

-----------------------------------------------------------------------------
(* scf.if and scf.while. *)

\* g.next, g.next + 1, ... as results for a set of names.
ResultFor(g, names) ==
    LET order == SelectSeq(NameOrder, LAMBDA x : x \in names)
    IN  [x \in names |-> g.next - 1 + CHOOSE i \in DOMAIN order : order[i] = x]
TakeResults(g, names) == [g EXCEPT !.next = @ + Cardinality(names)]

\* Both blocks yield every variable that one of them assigns.
GenScfIf(g, cond, thenB, thenOver, elseB, elseOver) ==
    LET names == DOMAIN thenOver \cup DOMAIN elseOver
        vals(over) == [x \in names |->
                          IF x \in DOMAIN over THEN over[x] ELSE GetNamedValue(g, x)]
        g1 == AppendTo(g, thenB, Yield(vals(thenOver), FALSE))
        g2 == AppendTo(g1, elseB, Yield(vals(elseOver), FALSE))
        g3 == CastToBool(g2, cond[1], cond[2])
        res == ResultFor(g3[1], names)
        g4 == Emit(TakeResults(g3[1], names),
                   [op |-> "if", cond |-> g3[2], then |-> thenB, else |-> elseB,
                    res |-> res])
    IN  SetNamedValues(g4, res)

\* The operation with every operand v replaced by w; results stay.
ReplaceIn(op, v, w) ==
    LET r(u) == IF u = v THEN w ELSE u
        all(f) == [x \in DOMAIN f |-> r(f[x])]
    IN  CASE op.op \in {"add", "lt", "ne", "not", "is0", "return"} ->
                 [op EXCEPT !.arg = r(op.arg)]
          [] op.op = "and" -> [op EXCEPT !.arg = r(op.arg), !.arg2 = r(op.arg2)]
          [] op.op = "yield" -> [op EXCEPT !.vals = all(op.vals)]
          [] op.op = "if" -> [op EXCEPT !.cond = r(op.cond)]
          [] op.op = "while" -> [op EXCEPT !.init = all(op.init)]
          [] "args" \in DOMAIN op -> [op EXCEPT !.args = all(op.args)]
          [] OTHER -> op

BlocksOf(op) ==
    CASE op.op = "if" -> {op.then, op.else} \ {0}
      [] op.op = "while" -> {op.before, op.body}
      [] op.op = "for" -> {op.body}
      [] OTHER -> {}

RECURSIVE Within(_, _)
\* The blocks nested in block b, b included.
Within(blocks, b) ==
    {b} \cup UNION {Within(blocks, c) :
                       c \in UNION {BlocksOf(blocks[b][k]) : k \in DOMAIN blocks[b]}}

ReplaceUses(g, b, v, w) ==
    LET inside == Within(g.blocks, b)
        replaced(ops) == [k \in DOMAIN ops |-> ReplaceIn(ops[k], v, w)]
        blocks == [c \in DOMAIN g.blocks |->
                      IF c \in inside THEN replaced(g.blocks[c]) ELSE g.blocks[c]]
    IN  [g EXCEPT !.blocks = SubSeq(blocks, 1, Len(blocks))]

\* replace_uses_with_new_block_argument: the argument is g.next.
AddArgument(g, b, v) == Fresh(ReplaceUses(g, b, v, g.next))

RECURSIVE AddArguments(_, _, _, _, _, _)
(***************************************************************************)
(* The loop-carried variables, one after the other: their value before the *)
(* loop is replaced, wherever the blocks of the loop use it, by a new      *)
(* argument of the block.  The result is the state and, per block, the     *)
(* arguments.                                                              *)
(***************************************************************************)
AddArguments(g, order, before, body, beforeArgs, bodyArgs) ==
    IF order = <<>> THEN <<g, beforeArgs, bodyArgs>>
    ELSE LET x == Head(order)
             v == GetNamedValue(g, x)
             g1 == AddArgument(g, body, v)
         IN  AddArguments(AddArgument(g1, before, v), Tail(order), before, body,
                          (x :> g1.next) @@ beforeArgs, (x :> g.next) @@ bodyArgs)

\* c is the state and the value of the condition.  When a return is among what the body
\* yields, it is joined with "no return yet", which flag says.
LoopCondition(c, before, had, flag) ==
    LET n == c[1].next
        Until(v) == [op |-> "condition", arg |-> v]
    IN  IF ~had THEN AppendTo(c[1], before, Until(c[2]))
        ELSE [c[1] EXCEPT !.next = @ + 2,
                          !.blocks[before] = @ \o <<[op |-> "not", res |-> n, arg |-> flag],
                              [op |-> "and", res |-> n + 1, arg |-> n, arg2 |-> c[2]],
                              Until(n + 1)>>]

\* The operation itself, where the loop began with the values of g.
EmitWhile(g, end, before, body, names, bargs, dargs) ==
    SetNamedValues(
        Emit(TakeResults(end, names),
             [op |-> "while", before |-> before, body |-> body,
              init |-> [x \in names |-> GetNamedValue(g, x)],
              bargs |-> bargs, dargs |-> dargs, res |-> ResultFor(end, names)]),
        ResultFor(end, names))

\* The condition is cast in the block that holds the loop.
CloseScfWhile(g, cond, before, body, names, a) ==
    EmitWhile(g, LoopCondition(CastToBool(a[1], cond[1], cond[2]), before,
                               HadReturn \in names, a[2][HadReturn]),
              before, body, names, a[2], a[3])

(***************************************************************************)
(* The body yields the variables it assigns, which become arguments of     *)
(* both blocks.  The pair of the state and whether a return is among them. *)
(***************************************************************************)
GenScfWhile(g, cond, before, body, bodyOver) ==
    LET names == DOMAIN bodyOver
        order == SelectSeq(NameOrder, LAMBDA x : x \in names)
    IN  <<CloseScfWhile(g, cond, before, body, names,
              AddArguments(AppendTo(g, body, Yield(bodyOver, FALSE)), order,
                           before, body, <<>>, <<>>)),
          HadReturn \in names>>

-----------------------------------------------------------------------------
(* Statements: the state after one, and whether the rest is skipped. *)

RECURSIVE GenStatement(_, _), GenStatements(_, _)

\* The end of a scope: the state, and the variables it changed.
Closed(g) == <<Popped(g), Top(g).over>>

\* Statements in the given block with a scope of their own.
InNewScope(g, b, stmts) == Closed(GenStatements(Push(g, b), stmts))

\* Statements in a new block; the last block of the state is theirs.
InNewBlock(g, stmts) == InNewScope(g, LastBlock(g), stmts)

\* What both branches, in the blocks t and e, make of the variables they change.
Overwrites(g, t, tOver, e, eOver) ==
    LET tr == EndsWithReturn(g, t)
        er == EndsWithReturn(g, e)
        cleared == EraseReturn(EraseReturn(g, t), e)
    IN  CASE tr /\ er -> <<cleared, (ReturnVal :> ReturnedIn(g, t)) @@ tOver,
                                    (ReturnVal :> ReturnedIn(g, e)) @@ eOver>>
          [] tr /\ ~er -> UnbalancedOverwrites(cleared, t, ReturnedIn(g, t), tOver, e, eOver)
          [] ~tr /\ er -> LET w == UnbalancedOverwrites(cleared, e, ReturnedIn(g, e), eOver, t, tOver)
                          IN  <<w[1], w[3], w[2]>>
          [] OTHER -> <<g, tOver, eOver>>

ScfIfOf(u, cond, t, e) == GenScfIf(u[1], cond, t, u[2], e, u[3])

\* The return that follows an scf.if of which n branches return.
AfterIf(g, n) ==
    CASE n = 2 -> <<AppendCircomReturn(g, GetNamedValue(g, ReturnVal)), TRUE>>
      [] n = 1 -> <<GenUnbalancedReturnExtra(g), FALSE>>
      [] n = 0 -> <<g, FALSE>>

\* The scf.if of two branches whose blocks t and e and whose condition are generated.
JoinBranches(gc, c, t, tOver, e, eOver) ==
    AfterIf(ScfIfOf(Overwrites(gc[1], t, tOver, e, eOver), <<c, gc[2]>>, t, e),
            Cardinality({b \in {t, e} : EndsWithReturn(gc[1], b)}))

\* The else branch, behind the then branch in block t.
GenElse(c, elseS, then, t) ==
    LET g == NewBlock(then[1])
        Joined(else) == JoinBranches(GenExpr(else[1], c), c, t, then[2], LastBlock(g), else[2])
    IN  Joined(InNewBlock(g, elseS))

GenIfThenElse(g, c, thenS, elseS) ==
    GenElse(c, elseS, InNewBlock(NewBlock(g), thenS), LastBlock(NewBlock(g)))

\* A loop whose body, which made the state s[1] of g, may return: the flag is carried.
LoopOverwrites(g, s, body) ==
    LET g1 == ConstIn(g, body, 1)
    IN  IF ~EndsWithReturn(s[1], body) THEN <<g, s[2]>>
        ELSE <<SetNamedValue(Const(g1, 0), HadReturn, g1.next),
               (HadReturn :> g.next) @@ (ReturnVal :> ReturnedIn(s[1], body)) @@ s[2]>>

AfterWhile(w) == IF w[2] THEN GenUnbalancedReturnExtra(w[1]) ELSE w[1]

\* The scf.while of a loop whose condition gc and whose body s are generated.
CloseWhile(gc, c, before, s, body) ==
    LET o == LoopOverwrites(EraseReturn(s[1], body), s, body)
    IN  AfterWhile(GenScfWhile(o[1], <<c, gc[2]>>, before, body, o[2]))

\* The body, behind the condition in the block before.
GenBody(gc, c, before, stmts) ==
    LET g == NewBlock(Popped(gc[1]))
    IN  CloseWhile(gc, c, before, InNewBlock(g, stmts), LastBlock(g))

GenWhile(g, c, stmts) ==
    LET g1 == NewBlock(g)
    IN  GenBody(GenExpr(Push(g1, LastBlock(g1)), c), c, LastBlock(g1), stmts)

\* The state and the value are those of the expression s assigns or returns.
GenSimple(s, e) ==
    IF s[1] = "set" THEN <<SimpleAssignment(e[1], s[2], e[2]), FALSE>>
                    ELSE <<AppendCircomReturn(e[1], e[2]), TRUE>>

LeaveBlock(b) == <<SetNamedValues(b[1], b[2]), FALSE>>

GenStatement(g, s) ==
    CASE s[1] = "decl"  -> <<GenDeclaration(g, s[2]), FALSE>>
      [] s[1] = "set"   -> GenSimple(s, GenExpr(g, s[3]))
      [] s[1] = "ret"   -> GenSimple(s, GenExpr(g, s[2]))
      [] s[1] = "block" -> LeaveBlock(InNewScope(g, TopBlock(g), s[2]))
      [] s[1] = "if"    -> GenIfThenElse(g, s[2], s[3], s[4])
      [] s[1] = "while" -> <<GenWhile(g, s[2], s[3]), FALSE>>

\* The statements behind one that left the state r[1]; r[2]: it returned.
GenRest(r, stmts) == IF r[2] THEN r[1] ELSE GenStatements(r[1], stmts)

GenStatements(g, stmts) ==
    IF stmts = <<>> THEN g
    ELSE GenRest(GenStatement(g, Head(stmts)), Tail(stmts))
==============================================================================
