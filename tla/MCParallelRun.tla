--------------------------- MODULE MCParallelRun ---------------------------
(* Component trees on which TLC runs ParallelRun. *)
EXTENDS ParallelRun, TLC

CONSTANTS A, B, A1, B1

PairComponent == {main, A, A1}
ForkComponent == {main, A, A1, B, B1}

\* main starts A, A starts A1.
PairParent == (A :> main) @@ (A1 :> A)
\* main starts A, A starts A1 and B1, and A1 calls B.
ForkParent == (A :> main) @@ (A1 :> A) @@ (B1 :> A) @@ (B :> A1)

OneInput == [c \in Component |-> IF c = main THEN 0 ELSE 1]
\* A1 has two inputs, B has none.
MixedInputs == [c \in Component |-> CASE c = A1 -> 2 [] c \in {main, B} -> 0 [] OTHER -> 1]

OneOutput == [c \in Component |-> IF c = main THEN 0 ELSE 1]
\* B1 has no output.
MixedOutputs == [c \in Component |-> IF c \in {main, B1} THEN 0 ELSE 1]
=============================================================================
