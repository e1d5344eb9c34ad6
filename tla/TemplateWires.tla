---------------------------- MODULE TemplateWires ----------------------------
(***************************************************************************)
(* The execution of a template body, statement by statement, as far as the *)
(* values and tags of its signals, buses and variables and the inputs of   *)
(* its component are concerned: perform_assign and the evaluation of the   *)
(* right-hand sides.                                                       *)
(*                                                                         *)
(* A world gives the tags every wire lists, those the inputs of the        *)
(* template were given, and the statements a body may consist of.  Numbers *)
(* are values without tags; a body has at most one conditional, whose      *)
(* condition is unknown.                                                   *)
(***************************************************************************)
EXTENDS ComponentInputs

CONSTANTS
    Worlds,       \* records [listed, given, statements, steps]
    Received,     \* the names of the template's inputs
    Var           \* the names of its variables

VARIABLES
    world,
    info,     \* the tags of the wires of the template
    mem,      \* the values of all wires
    comp,     \* the component
    branch,   \* "before", "then", "else" or "after" the conditional
    steps,    \* statements executed
    past,     \* for each element what was assigned to it
    byUser,   \* the values the program gave to the tags, 0 for none
    status    \* "running", "done" or an error

vars == <<world, info, mem, comp, branch, steps, past, byUser, status>>

Outside == Inputs \cup Outputs
OwnWire == {w \in Wire : w[1] \notin Outside}
Assignable == {w \in OwnWire : w[1] \notin Received}

IsVar(w) == w[1] \in Var
Conds == IF branch \in {"then", "else"} THEN branch ELSE "yes"

\* execute_signal_declaration, execute_bus_declaration and the tags of the
\* fields of buses; execute_variable's tags are those of its last value.
Init ==
    /\ world \in Worlds
    /\ info = [w \in OwnWire |->
                 IF w[1] \in Received THEN Given(world.given[w])
                 ELSE IF IsVar(w) THEN Given(NoTag)
                 ELSE Declared(w \in world.listed, Cardinality(Elements(w)))]
    /\ mem = NewMemory(Received \cup Var \cup Outputs)
    /\ comp = NoComponent
    /\ branch = "before"
    /\ steps = 0
    /\ past = [e \in Element |-> <<>>]
    /\ byUser = [w \in OwnWire |-> 0]
    /\ status = "running"

-----------------------------------------------------------------------------
(* Expressions: an error, or the tags of the value *)

Value(e, tags) == [error |-> e, tags |-> tags]

UsedVariable(t) == Value("none", TagsOf(info, t[1]))

UsedSignal(t) == Value(IF Readable(mem, t) THEN "none" ELSE "no value", TagsOf(info, t[1]))

\* A bus, or a field of one: all the signals in it need a value.
UsedBus(t) == Value(IF Readable(mem, t) THEN "none" ELSE "no value", TagsOf(info, t[1]))

UsedComponent(t) ==
    LET e == Usable(State(mem, comp, "none"), t)
    IN Value(e, IF e = "none" THEN InputOutputTags(comp, t[1]) ELSE NoTags)

Used(t) ==
    CASE t[1][1] \in Outside -> UsedComponent(t)
      [] IsVar(t[1]) -> UsedVariable(t)
      [] IsBus(<<t[1][1]>>) -> UsedBus(t)
      [] OTHER -> UsedSignal(t)

\* A number, a slice, or an array of two slices.
Evaluated(from) ==
    CASE from = <<>> -> Value("none", NoTags)
      [] Len(from) = 1 -> Used(from[1])
      [] Len(from) = 2 ->
           LET one == Used(from[1])
               two == Used(from[2])
           IN IF one.error # "none" THEN one
              ELSE IF two.error # "none" THEN two
              ELSE Value("none", JoinedTags(one.tags, two.tags))

-----------------------------------------------------------------------------
(* Statements *)

Executes(s) == status = "running" /\ steps < world.steps /\ s \in world.statements

\* What a statement leaves: an error ends the execution.
Leaves(error) ==
    /\ status' = IF error = "none" THEN "running" ELSE error
    /\ steps' = steps + 1
    /\ UNCHANGED <<world, branch>>

\* Elements assigned, with the tag of the value, the operator, whether the
\* value is a bus, and the conditions.
Remember(s, tags) ==
    past' = [e \in Element |->
               IF e \in Inside(s.to)
               THEN Append(past[e], [tag    |-> TagAt(tags, Relative(s.to[1], e[1])),
                                     strong |-> s.op = "<==",
                                     bus    |-> IsBus(s.to[1]),
                                     conds  |-> Conds])
               ELSE past[e]]

Forget(s, tags) ==
    past' = [e \in Element |->
               IF e \in Inside(s.to)
               THEN <<[tag |-> TagAt(tags, <<>>), strong |-> TRUE, bus |-> FALSE,
                       conds |-> Conds]>>
               ELSE past[e]]

\* A variable has the tags of the value only if all of it was assigned.
AssignVariable(s) ==
    /\ Executes(s)
    /\ s.op = "="
    /\ \E value \in {Evaluated(s.from)} :
       LET tags == IF Conds = "yes" THEN value.tags ELSE NoTags
           all  == Slice(s.to) = Elements(s.to[1])
       IN IF value.error # "none"
          THEN Leaves(value.error) /\ UNCHANGED <<info, past>>
          ELSE /\ info' = [info EXCEPT ![s.to[1]] =
                             [Given(NoTag) EXCEPT
                                !.tag = IF all THEN TagAt(tags, <<>>) ELSE NoTag]]
               /\ Forget(s, tags)
               /\ Leaves("none")
    /\ UNCHANGED <<mem, comp, byUser>>

\* s.to.tag = s.value
AssignTag(s) ==
    /\ Executes(s)
    /\ s.op = "tag"
    /\ s.to[1] \in world.listed
    /\ LET w == s.to[1]
           error == IF w[1] \in Received THEN "tag of an input"
                    ELSE IF Conds # "yes" THEN "tag in unknown"
                    ELSE IF info[w].init THEN "tag after value"
                    ELSE IF info[w].tag > 0 THEN "tag twice"
                    ELSE "none"
       IN /\ IF error = "none"
             THEN /\ info' = [info EXCEPT ![w] = [@ EXCEPT !.tag = s.value, !.valued = TRUE]]
                  /\ byUser' = [byUser EXCEPT ![w] = s.value]
             ELSE UNCHANGED <<info, byUser>>
          /\ Leaves(error)
    /\ UNCHANGED <<mem, comp, past>>

AssignSignalTag(s) == ~ IsBus(<<s.to[1][1]>>) /\ AssignTag(s)
AssignBusTag(s) == IsBus(<<s.to[1][1]>>) /\ AssignTag(s)

\* Variant: <-- brings the tags too.
BringsAlways(s, tags) == tags

\* The tags an assignment brings: only those of <==, but for buses of the
\* template either way.
Brings(s, tags) ==
    IF s.op = "<==" \/ (IsBus(s.to[1]) /\ s.to[1][1] \notin Outside) THEN tags ELSE NoTags

\* to <== from and to <-- from, of signals and buses of the template, which Insert
\* their tags.  The type analysis has refused <== under an unknown condition.
AssignOwn(s, Insert(_, _, _, _)) ==
    /\ Executes(s)
    /\ s.op \in {"<==", "<--"}
    /\ s.op = "<==" => Conds = "yes"
    /\ \E value \in {Evaluated(s.from)} :
       LET m == AssignSlice(mem, s.to, Conds)
       IN IF value.error # "none" \/ s.to[1][1] \in Received
          THEN /\ Leaves(IF value.error # "none" THEN value.error ELSE "input assigned")
               /\ UNCHANGED <<info, mem, past>>
          ELSE /\ info' = Insert(info, s.to[1], Brings(s, value.tags), Size(s.to))
               /\ mem' = m
               /\ Remember(s, value.tags)
               /\ Leaves(IF m.ok THEN "none" ELSE "twice")
    /\ UNCHANGED <<comp, byUser>>

\* A signal, a part of an array of signals, or all of it.
AssignSignal(s) ==
    /\ s.to[1][1] \notin Outside /\ Len(s.to[1]) = 1 /\ ~ IsBus(s.to[1])
    /\ AssignOwn(s, InsertSignal)

AssignBus(s) ==
    /\ s.to[1][1] \notin Outside /\ Len(s.to[1]) = 1 /\ IsBus(s.to[1])
    /\ AssignOwn(s, InsertBus)

AssignFieldSignal(s) ==
    /\ s.to[1][1] \notin Outside /\ Len(s.to[1]) > 1 /\ ~ IsBus(s.to[1])
    /\ AssignOwn(s, InsertBus)

AssignFieldBus(s) ==
    /\ s.to[1][1] \notin Outside /\ Len(s.to[1]) > 1 /\ IsBus(s.to[1])
    /\ AssignOwn(s, InsertBus)

Becomes(s) == mem' = s.mem /\ comp' = s.comp /\ Leaves(s.error)

\* c = T()
CreateComponent(s) ==
    /\ Executes(s)
    /\ s.op = "new"
    /\ Conds = "yes"
    /\ Becomes(Create(State(mem, comp, "none"), world.listed))
    /\ UNCHANGED <<info, past, byUser>>

\* c.to <== from and c.to <-- from
AssignComponent(s) ==
    /\ Executes(s)
    /\ s.op \in {"<==", "<--"}
    /\ s.to[1][1] \in Outside
    /\ s.op = "<==" => Conds = "yes"
    /\ \E value \in {Evaluated(s.from)} :
       LET a == [slice |-> s.to, conds |-> Conds]
       IN IF value.error # "none"
          THEN Leaves(value.error) /\ UNCHANGED <<mem, comp, past>>
          ELSE /\ Becomes(AssignToInput(State(mem, comp, "none"), a, Brings(s, value.tags)))
               /\ Remember(s, value.tags)
    /\ UNCHANGED <<info, byUser>>

AssignComponentSignal(s) == ~ IsBus(<<s.to[1][1]>>) /\ AssignComponent(s)
AssignComponentBus(s) == IsBus(<<s.to[1][1]>>) /\ AssignComponent(s)

\* if (unknown) { ... } else { ... }
Conditional(s) ==
    /\ Executes(s)
    /\ s.op = "if"
    /\ branch' = CASE branch = "before" -> "then"
                   [] branch = "then" -> "else"
                   [] OTHER -> "after"
    /\ branch # "after"
    /\ steps' = steps + 1
    /\ UNCHANGED <<world, info, mem, comp, past, byUser, status>>

\* The end of the body.
Finish ==
    /\ status = "running"
    /\ branch \in {"before", "after"}
    /\ status' = IF AllInputsAssigned(comp) THEN "done" ELSE "missing inputs at the end"
    /\ UNCHANGED <<world, info, mem, comp, branch, steps, past, byUser>>

Next ==
    \/ \E s \in world.statements :
         \/ AssignVariable(s)
         \/ AssignSignalTag(s)
         \/ AssignBusTag(s)
         \/ AssignSignal(s)
         \/ AssignBus(s)
         \/ AssignFieldSignal(s)
         \/ AssignFieldBus(s)
         \/ CreateComponent(s)
         \/ AssignComponentSignal(s)
         \/ AssignComponentBus(s)
         \/ Conditional(s)
    \/ Finish

Spec == Init /\ [][Next]_vars

-----------------------------------------------------------------------------
(* Properties *)

Runs == status \in {"running", "done"}

\* A cell assigned more than once, as the branches of a conditional may.
Repeated(t) == \E c \in Inside(t) \cap Cell : Len(past[c]) > 1

Exclude(one, two) == {one, two} = {"then", "else"}

\* Every element of w was assigned, and each assignment brought v: by <==, or
\* with any operator when the value is a bus of the template, as the code has it.
Brought(w, v, accepted(_)) ==
    \A e \in Elements(w) : past[e] # <<>> /\ \A i \in DOMAIN past[e] :
        past[e][i].tag = v /\ accepted(past[e][i])

\* Tags are promises about values: a wire only has a tag, or a value of it, that
\* its declaration lists or the program gave, or that came with every single
\* value it received (perform_tag_propagation, compute_propagated_tags).
TagsAreEarned ==
    Runs => \A w \in Assignable :
        LET v == Propagated(info[w])
            Allowed(a) == a.strong \/ (a.bus /\ ~ IsVar(w))
        IN /\ v > 0 => byUser[w] = v \/ Brought(w, v, Allowed)
           /\ v = NoValue => w \in world.listed \/ Brought(w, v, Allowed)

\* A tag that all values of a wire bring with <== is inherited, even if the wire
\* does not list it, unless the program gave it another value (tags.md).
TagsAreInherited ==
    Runs => \A w \in {u \in Assignable : ~ IsVar(u)} : \A v \in {NoValue, 1, 2} :
        LET Strong(a) == a.strong
        IN (v # NoTag /\ byUser[w] = 0 /\ Brought(w, v, Strong)) => Propagated(info[w]) = v

\* The value of a tag is a parameter of the circuits made with it: once it can be
\* read it does not change.  Whole buses assigned in two branches are left out:
\* there <-- brings tags and the second assignment may take them away.
TagValuesAreFinal ==
    [][\A w \in Assignable :
         LET v == Propagated(info[w])
         IN (v > 0 /\ ~ IsVar(w) /\ Conds = "yes" /\ Runs') => Propagated(info'[w]) = v]_vars

\* The template of a component is executed once, for the tags of the inputs that
\* were assigned first: all assignments, put aside or not, brought the same.  A
\* program is refused for its tags only if a value lacks one the input lists, or
\* two values disagree; the order in which they were put aside does not matter.
InputTagsAgree ==
    /\ (Runs /\ comp.stage = "initialized") =>
         \A w \in InWire \cap world.listed : \A e \in Elements(w) : \A i \in DOMAIN past[e] :
             past[e][i].strong /\ past[e][i].tag = comp.tags[w]
    /\ status = "missing tag" =>
         \E w \in InWire \cap world.listed : \E e \in Elements(w) : \E i \in DOMAIN past[e] :
             ~ past[e][i].strong \/ past[e][i].tag = NoTag
    /\ status = "other tag" =>
         \E w \in InWire \cap world.listed : \E d, e \in Elements(w) :
             \E i \in DOMAIN past[d], j \in DOMAIN past[e] : past[d][i].tag # past[e][j].tag

\* No path assigns a cell twice: neither directly, through a bus, nor with an
\* assignment that was put aside; and only such programs are refused for it.
AssignedOnce ==
    /\ Runs => \A c \in Cell :
         (c[1][1] \in Inputs => comp.stage = "initialized") =>
             \A i, j \in DOMAIN past[c] :
                 (i < j /\ ~ IsVar(c[1])) => Exclude(past[c][i].conds, past[c][j].conds)
    /\ status = "twice" =>
         \E c \in Cell : \E i, j \in DOMAIN past[c] :
             i < j /\ ~ Exclude(past[c][i].conds, past[c][j].conds)

\* A bus may be used, and an input of a component counts as assigned, exactly
\* when all signals in it have a value; what was put aside for a component is
\* assigned when it is initialized.  Cells assigned in both branches of a
\* conditional are counted twice and left out.
ReadableIffAssigned ==
    Runs => /\ \A b \in BusElement :
                 (b[1] \in Assignable /\ ~ Repeated(b)) =>
                     (Complete(mem, b) <=> \A c \in Inside(b) \cap Cell : past[c] # <<>>)
            /\ comp.stage = "initialized" =>
                 \A i \in Inputs : ~ Repeated(<<<<i>>, <<>>>>) =>
                     (comp.left[i] = 0 <=>
                        \A c \in Inside(<<<<i>>, <<>>>>) \cap Cell : past[c] # <<>>)

\* Both: what is counted as assigned was assigned, and once.
CountsAreRight == AssignedOnce /\ ReadableIffAssigned
=============================================================================
