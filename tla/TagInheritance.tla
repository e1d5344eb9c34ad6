--------------------------- MODULE TagInheritance ---------------------------
(***************************************************************************)
(* The tags of the signals and buses of a template.  Every tag is handled  *)
(* on its own, so there is one here; for every wire the code keeps whether *)
(* it carries the tag and with which value, whether the declaration of the *)
(* wire lists it, whether the program gave it its value, the insertions    *)
(* that are still to come, and whether there was one.                      *)
(***************************************************************************)
EXTENDS WireMemory
LOCAL INSTANCE SequencesExt

NoTag   == -1     \* the tag is not carried
NoValue == 0      \* it is carried and has no value; values are positive

\* A wire of the template that is not an input: n insertions make it complete.
Declared(listed, n) ==
    [tag |-> IF listed THEN NoValue ELSE NoTag, defined |-> listed,
     valued |-> FALSE, left |-> n, init |-> FALSE]

\* An input starts complete, with the tags its instance was made for.
Given(tag) ==
    [tag |-> tag, defined |-> tag # NoTag, valued |-> tag > 0, left |-> 0, init |-> TRUE]

\* Variant: the value is passed on before all elements have it.
PropagatedEarly(i) == i.tag

\* compute_propagated_tags: the tag a use of the wire carries.
Propagated(i) ==
    IF i.tag = NoTag THEN NoTag
    ELSE IF i.valued \/ i.left = 0 THEN i.tag
    ELSE IF i.defined THEN NoValue
    ELSE NoTag

\* perform_tag_propagation: a wire that lists the tag keeps it, with the value
\* all insertions agree on; another one has it only if all of them bring it.
Inherited(i, new) ==
    IF i.tag = NoTag THEN [i EXCEPT !.tag = IF i.init THEN NoTag ELSE new]
    ELSE IF i.valued THEN i
    ELSE IF i.defined
    THEN [i EXCEPT !.tag = IF i.init THEN (IF new = i.tag THEN new ELSE NoValue)
                           ELSE IF new = NoTag THEN NoValue ELSE new]
    ELSE [i EXCEPT !.tag = IF new = i.tag THEN new ELSE NoTag]

\* The tags of a value are a function of the fields' relative paths.
TagAt(tags, r) == IF r \in DOMAIN tags THEN tags[r] ELSE NoTag
NoTags == [r \in {<<>>} |-> NoTag]

\* compute_propagated_tags_bus.
TagsOf(info, w) ==
    [r \in {Relative(w, v) : v \in Below(w)} |-> Propagated(info[w \o r])]

\* join_tags_propagation: an array of two values has what both have.
JoinedTags(one, two) ==
    [r \in DOMAIN one |-> IF one[r] = TagAt(two, r) THEN one[r] ELSE NoTag]

\* Insertion of n values in a signal.
InsertSignal(info, w, tags, n) ==
    [info EXCEPT ![w] =
       [Inherited(info[w], TagAt(tags, <<>>)) EXCEPT
          !.left = IF info[w].left >= n THEN info[w].left - n ELSE 0,
          !.init = TRUE]]

\* The values of v in one element of the bus w.
Each(w, v) == FoldLeft(LAMBDA n, k : n * Dim[Upto(v, k)], 1,
                                        [k \in 1 .. Len(v) - Len(w) |-> Len(w) + k])

\* Variant: the fields of the bus count one insertion each.
InsertBusOnce(info, w, tags, n) ==
    [v \in DOMAIN info |->
       IF v \in Below(w)
       THEN [Inherited(info[v], TagAt(tags, Relative(w, v))) EXCEPT
               !.left = (info[v].left - n) % Word,
               !.init = TRUE]
       ELSE info[v]]

\* perform_tag_propagation_bus: n buses or fields, and all the fields in them.
InsertBus(info, w, tags, n) ==
    [v \in DOMAIN info |->
       IF v \in Below(w)
       THEN [Inherited(info[v], TagAt(tags, Relative(w, v))) EXCEPT
               !.left = (info[v].left - n * Each(w, v)) % Word,
               !.init = TRUE]
       ELSE info[v]]
=============================================================================
