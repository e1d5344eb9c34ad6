----------------------------- MODULE WireMemory -----------------------------
(***************************************************************************)
(* What the constraint generation remembers of the signals and buses of a  *)
(* template and of its component: which cells have a value, and how many   *)
(* values each bus still lacks.                                            *)
(*                                                                         *)
(* A wire is a path of names, a field's path extends the path of its bus.  *)
(* An element of a wire is a pair <<path, indices>> with one index for     *)
(* each name; a slice is such a pair with the last index left out or not.  *)
(***************************************************************************)
EXTENDS Integers, Sequences, FiniteSets
LOCAL INSTANCE SequencesExt

CONSTANTS
    Wire,     \* the paths of all signals and buses
    Dim,      \* Dim[w]: the length of the array w
    Word      \* counters are unsigned integers below Word

ASSUME WireAssumption ==
    /\ \A w \in Wire : Len(w) > 1 => Front(w) \in Wire
    /\ \A w \in Wire : Dim[w] \in 1 .. Word - 1

Upto(w, k) == SubSeq(w, 1, k)
Below(w) == {v \in Wire : IsPrefix(w, v)}
Fields(w) == {v \in Below(w) : Len(v) = Len(w) + 1}
Buses == {w \in Wire : Fields(w) # {}}
IsBus(w) == w \in Buses
Relative(w, v) == SubSeq(v, Len(w) + 1, Len(v))

Indices == [w \in Wire |->
    LET longest == CHOOSE d \in {Dim[v] : v \in Wire} : \A v \in Wire : Dim[v] <= d
    IN {at \in [1 .. Len(w) -> 1 .. longest] :
          \A k \in 1 .. Len(w) : at[k] <= Dim[Upto(w, k)]}]

Elements(w) == {<<w, at>> : at \in Indices[w]}
Element == UNION {Elements(w) : w \in Wire}
Cell == {e \in Element : ~ IsBus(e[1])}
BusElement == Element \ Cell

\* MemorySlice: the elements of a slice, and all elements inside of them.
Slice(t) == {e \in Elements(t[1]) : IsPrefix(t[2], e[2])}
Inside(t) == {e \in Element : IsPrefix(t[1], e[1]) /\ IsPrefix(t[2], e[2])}
Size(t) == Cardinality(Slice(t))
Enclosing(t, k) == <<Upto(t[1], k), Upto(t[2], k)>>

-----------------------------------------------------------------------------
(* A memory has the state of every cell, the values each field of a bus    *)
(* lacks, and whether something was certainly assigned to a bus.           *)

\* initialize_bus, new_with_route: names in has start with all their values.
NewMemory(has) ==
    [cell    |-> [c \in Cell |-> IF c[1][1] \in has THEN "yes" ELSE "no"],
     missing |-> [b \in BusElement |->
                    [f \in Fields(b[1]) |-> IF b[1][1] \in has THEN 0 ELSE Dim[f]]],
     whole   |-> [b \in BusElement |-> b[1][1] \in has],
     ok      |-> TRUE]

\* The state of a cell assigned under conds: "yes" when there is no condition,
\* or the branch of the conditional.  "twice" is the error.
Updated(old, conds) ==
    IF old = "no" THEN conds
    ELSE IF {old, conds} = {"then", "else"} THEN "yes"
    ELSE "twice"

AssignSignals(m, t, conds) ==
    [m EXCEPT !.cell = [c \in Cell |-> IF c \in Slice(t) THEN Updated(m.cell[c], conds)
                                       ELSE m.cell[c]],
              !.ok = m.ok /\ \A c \in Slice(t) : Updated(m.cell[c], conds) # "twice"]

\* Variant: a bus with a field assigned may still be assigned as a whole.
AssignWholesAgain(m, t, conds) ==
    LET cells == Inside(t) \cap Cell
        buses == Inside(t) \cap BusElement
    IN [m EXCEPT
          !.cell = [c \in Cell |-> IF c \in cells THEN conds ELSE m.cell[c]],
          !.missing = [b \in BusElement |->
                         IF b \in buses THEN [f \in Fields(b[1]) |-> 0] ELSE m.missing[b]],
          !.whole = [b \in BusElement |-> m.whole[b] \/ (b \in buses /\ conds = "yes")]]

\* completely_assign_bus of all buses of the slice, and of the buses in them.
AssignWholes(m, t, conds) ==
    LET cells == Inside(t) \cap Cell
        buses == Inside(t) \cap BusElement
    IN [m EXCEPT
          !.cell = [c \in Cell |-> IF c \in cells THEN Updated(m.cell[c], conds)
                                   ELSE m.cell[c]],
          !.missing = [b \in BusElement |->
                         IF b \in buses THEN [f \in Fields(b[1]) |-> 0] ELSE m.missing[b]],
          !.whole = [b \in BusElement |-> m.whole[b] \/ (b \in buses /\ conds = "yes")],
          !.ok = /\ m.ok
                 /\ \A b \in buses : ~ m.whole[b]
                 /\ \A c \in cells : Updated(m.cell[c], conds) # "twice"]

\* An entry that reaches 0 is removed, and one that is removed stays so.
CountDown(left, n) == IF left = 0 THEN 0 ELSE (left - n) % Word

Complete(m, b) == \A f \in Fields(b[1]) : m.missing[b][f] = 0

\* Variant: a bus in a bus is counted when it gets its first value.
CountFieldEarly(m, t) ==
    LET Outer(missing, k) ==
          LET b == Enclosing(t, k)
              f == Upto(t[1], k + 1)
          IN [missing EXCEPT ![b][f] =
                CountDown(missing[b][f], IF k = Len(t[1]) - 1 THEN Size(t) ELSE 1)]
    IN [m EXCEPT !.missing =
          FoldLeft(Outer, m.missing, Reverse([k \in 1 .. Len(t[1]) - 1 |-> k]))]

\* The bus of the field lacks fewer values; a bus around it lacks one bus less
\* whenever the inner one is found complete.
CountField(m, t) ==
    LET last == Len(t[1]) - 1
        Outer(missing, k) ==
          LET b == Enclosing(t, k)
              f == Upto(t[1], k + 1)
              inner == Enclosing(t, k + 1)
          IN IF k = last
             THEN [missing EXCEPT ![b][f] = CountDown(missing[b][f], Size(t))]
             ELSE IF \A g \in Fields(inner[1]) : missing[inner][g] = 0
             THEN [missing EXCEPT ![b][f] = CountDown(missing[b][f], 1)]
             ELSE missing
    IN [m EXCEPT !.missing = FoldLeft(Outer, m.missing, Reverse([k \in 1 .. last |-> k]))]

\* assign_value_to_field: t is a slice of a field.
AssignField(m, t, conds) ==
    LET around == {Enclosing(t, k) : k \in 1 .. Len(t[1]) - 1}
        marked == [m EXCEPT !.whole = [b \in BusElement |->
                     m.whole[b] \/ (b \in around /\ conds = "yes")]]
    IN CountField(IF IsBus(t[1]) THEN AssignWholes(marked, t, conds)
                  ELSE AssignSignals(marked, t, conds), t)

AssignSlice(m, t, conds) ==
    IF Len(t[1]) > 1 THEN AssignField(m, t, conds)
    ELSE IF IsBus(t[1]) THEN AssignWholes(m, t, conds)
    ELSE AssignSignals(m, t, conds)

\* What execute_signal and execute_bus ask before a slice is used.
Readable(m, t) ==
    \A e \in Slice(t) : IF IsBus(t[1]) THEN Complete(m, e) ELSE m.cell[e] # "no"
=============================================================================
