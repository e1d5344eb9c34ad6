------------------------- MODULE MCWitnessArithmetic -------------------------
(* Instances of WitnessArithmetic for TLC: small primes and small words.   *)
EXTENDS WitnessArithmetic

\* No room above the prime: 53 in two limbs of three bits
Full     == [goldilocks |-> FALSE, prime |-> 53, limbs |-> 2, limbBits |-> 3, shortBits |-> 3,
             phi |-> 0]
\* Room for a carry, and shorts larger than the number of bits: 67 in two limbs of five
Headroom == [goldilocks |-> FALSE, prime |-> 67, limbs |-> 2, limbBits |-> 5, shortBits |-> 4,
             phi |-> 0]
\* Phi^2 - Phi + 1
Goldilocks13 == [goldilocks |-> TRUE, prime |-> 13, limbs |-> 0, limbBits |-> 0, shortBits |-> 3,
                 phi |-> 4]
HeadroomOnly == {Headroom}
AllFields == {Full, Headroom, Goldilocks13}
=============================================================================
