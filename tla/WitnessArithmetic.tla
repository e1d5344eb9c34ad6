-------------------------- MODULE WitnessArithmetic --------------------------
(***************************************************************************)
(* A generated C++ program computing with field elements, beside the       *)
(* compiler computing the same with numbers.  The program has two places   *)
(* for elements: every operation leaves its result in the first (the       *)
(* temporary expaux of compute_bucket.rs), from where it may be copied to  *)
(* the second.  So the operands come in every representation that inputs,  *)
(* constants and earlier operations leave behind.  The program is the one  *)
(* for a prime in general, or the one for goldilocks.                      *)
(***************************************************************************)
EXTENDS Integers

CONSTANTS
    Fields,    \* records [goldilocks, prime, limbs, limbBits, shortBits, phi]
    Refused    \* the failed assertion of a conversion to an int

VARIABLES
    field,     \* the field and the program
    element,   \* the two elements
    number     \* the numbers they stand for, as the compiler knows them

vars == <<field, element, number>>

F == INSTANCE FieldElement WITH
        Prime <- field.prime, Limbs <- field.limbs, LimbBits <- field.limbBits,
        ShortBits <- field.shortBits
G == INSTANCE Goldilocks WITH
        Prime <- field.prime, Phi <- field.phi, ShortBits <- field.shortBits

Places == {1, 2}
Numbers == 0..field.prime - 1

\* The elements an input or a constant of the program may become
Loaded(x) == IF field.goldilocks THEN {x} ELSE {F!Input(x), F!Constant(x)}
Apply(op, a, b) == IF field.goldilocks THEN G!Apply(op, a, b) ELSE F!Apply(op, a, b)
Integer(e)      == IF field.goldilocks THEN G!toInt(e) ELSE F!toInt(e)
\* What an element is printed as, or written to the witness
NumberOf(e)     == IF field.goldilocks THEN e ELSE F!toMpz(e)

\* There are programs for primes only, and the shape of the program is made for
\* the prime.
Supported == F!IsPrime /\ IF field.goldilocks THEN G!IsGoldilocks ELSE F!FieldFits

Init ==
    /\ field \in Fields /\ Supported
    /\ \E x, y \in Numbers : number = <<x, y>>
    /\ \E e \in Loaded(number[1]), f \in Loaded(number[2]) : element = <<e, f>>

\* r = op(a, b); the operand of a unary operator is the first.
Compute(op, p, r) ==
    /\ F!Defined(op, number[r])
    /\ element' = [element EXCEPT ![1] = Apply(op, element[p], element[r])]
    /\ number'  = [number EXCEPT ![1] = F!Result(op, number[p], number[r])]
    /\ UNCHANGED field
Store ==
    /\ element' = [element EXCEPT ![2] = element[1]]
    /\ number'  = [number EXCEPT ![2] = number[1]]
    /\ UNCHANGED field

Next == \/ \E op \in F!Operators, p, r \in Places : Compute(op, p, r)
        \/ Store
Spec == Init /\ [][Next]_vars

-----------------------------------------------------------------------------
\* An element is of one of the representations, with a value below the prime
\* (the functions on limbs subtract the prime once and rely on that).
TypeOK ==
    /\ field \in Fields
    /\ number \in [Places -> Numbers]
    /\ \A p \in Places :
          IF field.goldilocks THEN element[p] \in Numbers ELSE F!IsElement(element[p])

\* Whatever an element went through, its value is the one the compiler computes
\* with modular_arithmetic.rs: constants folded by the compiler, conditions it
\* decided and the witness of the program agree.
AgreesWithCompiler ==
    /\ TypeOK
    /\ \A p \in Places : NumberOf(element[p]) = number[p]

\* The ints, but for the one that has no negative
Ints(n) == n \in -F!ShortSize + 1..F!ShortSize - 1

\* An element that stands for a small number, positive or negative, becomes that
\* int when it is used as an index, in every representation.
SmallNumbersAreInts ==
    \A p \in Places : LET n == F!val(number[p]) IN Ints(n) => Integer(element[p]) = n

\* A number that is too large for an int is refused.
LargeNumbersAreRefused ==
    \A p \in Places : ~Ints(F!val(number[p])) => Integer(element[p]) = Refused
=============================================================================
