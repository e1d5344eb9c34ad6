--------------------------- MODULE ComponentInputs ---------------------------
(***************************************************************************)
(* A component between the template call that creates it and the moment    *)
(* its outputs may be used.  The template can only be executed when the    *)
(* values of the tags its inputs list are known, so the assignments made   *)
(* before are put aside and made when all of them are; the executed        *)
(* template decides which values the tags of the outputs have.             *)
(***************************************************************************)
EXTENDS TagInheritance
LOCAL INSTANCE SequencesExt

CONSTANTS
    Inputs, Outputs,  \* the names of the component's inputs and outputs
    Exported(_)       \* the tags of the outputs of the template executed with
                      \* given tags of its inputs: its body

InWire  == {w \in Wire : w[1] \in Inputs}
OutWire == {w \in Wire : w[1] \in Outputs}

NoComponent ==
    [stage |-> "none", tags |-> [w \in InWire \cup OutWire |-> NoTag], waiting |-> {},
     left |-> [i \in Inputs |-> 0], signals |-> <<>>, buses |-> <<>>, fields |-> <<>>]

\* preinitialize_component: the tags of the wires in listed are to come.
Created(listed) ==
    [NoComponent EXCEPT
       !.stage = "created",
       !.tags = [w \in InWire \cup OutWire |-> IF w \in listed THEN NoValue ELSE NoTag],
       !.waiting = InWire \cap listed]

\* A state of the execution: the memory, the component and an error.
State(m, c, e) == [mem |-> m, comp |-> c, error |-> e]

-----------------------------------------------------------------------------
(* The tags of the inputs *)

ListedBelow(c, w) == {v \in Below(w) : c.tags[v] # NoTag}

\* handle_tag_assignment_no_init: an assignment of w that brings these tags.
ReceiveTags(c, w, tags) ==
    LET listed == ListedBelow(c, w)
        Brought(v) == TagAt(tags, Relative(w, v))
    IN [comp  |-> [c EXCEPT !.tags = [v \in DOMAIN c.tags |->
                                        IF v \in listed \cap c.waiting THEN Brought(v)
                                        ELSE c.tags[v]],
                            !.waiting = c.waiting \ Below(w)],
        error |-> IF \E v \in listed : Brought(v) = NoTag THEN "missing tag"
                  ELSE IF \E v \in listed \ c.waiting : Brought(v) # c.tags[v]
                  THEN "other tag"
                  ELSE "none"]

\* Variant: only the presence of the tags is checked.
TagsPresent(c, w, tags) ==
    IF \E v \in ListedBelow(c, w) : TagAt(tags, Relative(w, v)) = NoTag
    THEN "missing tag" ELSE "none"

\* handle_tag_assignment_init: the template was executed with c.tags.
TagsAgree(c, w, tags) ==
    LET Brought(v) == TagAt(tags, Relative(w, v))
    IN IF \E v \in ListedBelow(c, w) : Brought(v) = NoTag THEN "missing tag"
       ELSE IF \E v \in ListedBelow(c, w) : Brought(v) # c.tags[v] THEN "other tag"
       ELSE "none"

-----------------------------------------------------------------------------
(* The values of the inputs *)

\* update_unassigned_inputs: a bus is counted whenever a field makes it complete.
CountInput(c, m, t) ==
    LET name == t[1][1]
    IN IF Len(t[1]) = 1 THEN [c EXCEPT !.left[name] = CountDown(c.left[name], Size(t))]
       ELSE IF Complete(m, Enclosing(t, 1))
       THEN [c EXCEPT !.left[name] = CountDown(c.left[name], 1)]
       ELSE c

\* The assignment itself, of a component whose template is known.
AssignInput(s, a) ==
    IF s.error # "none" THEN s
    ELSE LET m == AssignSlice(s.mem, a.slice, a.conds)
         IN State(m, CountInput(s.comp, m, a.slice), IF m.ok THEN "none" ELSE "twice")

\* The component when its template was executed, before any assignment.
Executed(c) ==
    [c EXCEPT
       !.stage = "initialized",
       !.tags = [w \in DOMAIN c.tags |->
                   IF w \in OutWire /\ Exported(c.tags)[w] > 0 THEN Exported(c.tags)[w]
                   ELSE c.tags[w]],
       !.left = [i \in Inputs |-> Dim[<<i>>]]]

\* initialize_component, after the template was executed: the outputs take the
\* values of its tags, all inputs are missing, and what was put aside is
\* assigned: signals, then buses, then fields of buses.
Initialized(s) ==
    FoldLeft(AssignInput, [s EXCEPT !.comp = Executed(s.comp)],
             s.comp.signals \o s.comp.buses \o s.comp.fields)

InitializeIfReady(s) ==
    IF s.error = "none" /\ s.comp.stage = "created" /\ s.comp.waiting = {}
    THEN Initialized(s) ELSE s

\* c = T(): the template of an anonymous component may be given again.
Create(s, listed) ==
    IF s.comp.stage # "none" THEN [s EXCEPT !.error = "component twice"]
    ELSE InitializeIfReady([s EXCEPT !.comp = Created(listed)])

PutAside(c, a) ==
    IF Len(a.slice[1]) > 1 THEN [c EXCEPT !.fields = Append(@, a)]
    ELSE IF IsBus(a.slice[1]) THEN [c EXCEPT !.buses = Append(@, a)]
    ELSE [c EXCEPT !.signals = Append(@, a)]

\* The template is not known yet: the assignment a, of a value with these tags,
\* is put aside, and may bring the last tag that was missing.
AssignNoInit(s, a, tags) ==
    LET received == ReceiveTags(s.comp, a.slice[1], tags)
    IN InitializeIfReady(State(s.mem, PutAside(received.comp, a), received.error))

AssignInit(s, a, tags) ==
    LET verdict == TagsAgree(s.comp, a.slice[1], tags)
    IN IF verdict # "none" THEN [s EXCEPT !.error = verdict] ELSE AssignInput(s, a)

\* assign_value_to_signal, assign_value_to_bus, assign_value_to_bus_field
AssignToInput(s, a, tags) ==
    CASE s.comp.stage = "none" -> [s EXCEPT !.error = "no component"]
      [] s.comp.stage # "none" /\ a.slice[1][1] \notin Inputs ->
           [s EXCEPT !.error = "output assigned"]
      [] s.comp.stage = "created" /\ a.slice[1][1] \in Inputs -> AssignNoInit(s, a, tags)
      [] s.comp.stage = "initialized" /\ a.slice[1][1] \in Inputs -> AssignInit(s, a, tags)

-----------------------------------------------------------------------------
(* The use of inputs and outputs *)

\* check_initialized_inputs, then the checks of the values.
Usable(s, t) ==
    IF s.comp.stage = "none" THEN "no component"
    ELSE IF t[1][1] \in Outputs /\ \E i \in Inputs : s.comp.left[i] # 0
    THEN "missing inputs"
    ELSE IF s.comp.stage = "created" THEN "missing tags"
    ELSE IF Readable(s.mem, t) THEN "none" ELSE "no value"

\* get_io_value: the tags that come with the value.
InputOutputTags(c, w) == [r \in {Relative(w, v) : v \in Below(w)} |-> c.tags[w \o r]]

\* environment_check_all_components_assigned
AllInputsAssigned(c) ==
    c.stage = "none" \/ (c.waiting = {} /\ \A i \in Inputs : c.left[i] = 0)
=============================================================================
