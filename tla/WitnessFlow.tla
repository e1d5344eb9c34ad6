---------------------------- MODULE WitnessFlow ----------------------------
(***************************************************************************)
(* What the evaluation of a witness promises, whatever runs in parallel:   *)
(* a component runs at most once, inside the run of its parent; each of    *)
(* its outputs is produced at most once, and none is consumed while it may *)
(* yet be produced by the run going on.                                    *)
(***************************************************************************)
EXTENDS Naturals

CONSTANTS Component, main, Parent, NOutputs

VARIABLES
    phase,      \* "idle", "running", "complete" or "ended", per component
    produced,   \* the outputs of each component with a value
    consumed    \* the outputs of each component its parent has used

flow == <<phase, produced, consumed>>

Sub(c) == {d \in Component \ {main} : Parent[d] = c}
Out(c) == 1..NOutputs[c]

Init ==
    /\ phase = [c \in Component |-> IF c = main THEN "running" ELSE "idle"]
    /\ produced = [c \in Component |-> {}]
    /\ consumed = [c \in Component |-> {}]

\* The parent assigns the last input.
Start(d) ==
    /\ phase[d] = "idle"
    /\ d # main
    /\ phase[Parent[d]] = "running"
    /\ phase' = [phase EXCEPT ![d] = "running"]
    /\ UNCHANGED <<produced, consumed>>

Produce(c, o) ==
    /\ phase[c] = "running"
    /\ o \in Out(c) \ produced[c]
    /\ produced' = [produced EXCEPT ![c] = @ \cup {o}]
    /\ UNCHANGED <<phase, consumed>>

\* Nothing keeps the parent from using outputs of a component it has not run.
Consume(d, o) ==
    /\ d # main
    /\ phase[Parent[d]] = "running"
    /\ o \in produced[d] \/ phase[d] # "running"
    /\ consumed' = [consumed EXCEPT ![d] = @ \cup {o}]
    /\ UNCHANGED <<phase, produced>>

\* The body of c is over: it produces nothing more and nothing runs below it.
Complete(c) ==
    /\ phase[c] = "running"
    /\ \A d \in Sub(c) : phase[d] \in {"idle", "ended"}
    /\ phase' = [phase EXCEPT ![c] = "complete"]
    /\ UNCHANGED <<produced, consumed>>

End(c) ==
    /\ phase[c] = "complete"
    /\ \A d \in Sub(c) : phase[d] = "ended"
    /\ phase' = [phase EXCEPT ![c] = "ended"]
    /\ UNCHANGED <<produced, consumed>>

Next ==
    \E c \in Component :
        \/ Start(c)
        \/ \E o \in Out(c) : Produce(c, o) \/ Consume(c, o)
        \/ Complete(c) \/ End(c)

Spec == Init /\ [][Next]_flow
=============================================================================
