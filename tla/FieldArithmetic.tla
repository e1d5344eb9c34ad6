--------------------------- MODULE FieldArithmetic ---------------------------
(***************************************************************************)
(* The operators of the language on the elements 0..Prime-1 of the field,  *)
(* as the compiler computes them (modular_arithmetic.rs).  Where the       *)
(* source returns an error or panics, the operation is not Defined.        *)
(***************************************************************************)
EXTENDS Integers

CONSTANT Prime

\* The compiler has a list of primes to choose from.
IsPrime == Prime \in Nat /\ Prime > 1 /\ \A d \in 2..Prime - 1 : Prime % d # 0

Element == 0..Prime - 1

\* bit_representation and mask: numbers of as many bits as the prime has
TwoTo[i \in 0..Prime] == IF i = 0 THEN 1 ELSE 2 * TwoTo[i - 1]
qbits == CHOOSE n \in 1..Prime : Prime < TwoTo[n] /\ TwoTo[n - 1] <= Prime
Bits(n) == {i \in 0..qbits : (n \div TwoTo[i]) % 2 = 1}
\* The number with these bits
Number(bits) ==
    LET sum[i \in 0..qbits] ==
            (IF i = 0 THEN 0 ELSE sum[i - 1]) + (IF i \in bits THEN TwoTo[i] ELSE 0)
    IN  sum[qbits]

TruthValue(p) == IF p THEN 1 ELSE 0

Product(l, r)  == (l * r) % Prime
mod_inverse(e) == CHOOSE i \in Element : Product(i, e) = 1
pow(l, r)      == LET power[e \in 0..r] == IF e = 0 THEN 1 ELSE Product(power[e - 1], l)
                  IN  power[r]

Top == Prime \div 2
ShiftedLeft(l, n)  == IF n >= qbits THEN 0 ELSE ((l * TwoTo[n]) % TwoTo[qbits]) % Prime
ShiftedRight(l, n) == IF n >= qbits THEN 0 ELSE l \div TwoTo[n]
\* A shift by more than half of the field goes the other way.
shift_l(l, r) == IF r <= Top THEN ShiftedLeft(l, r) ELSE ShiftedRight(l, Prime - r)
shift_r(l, r) == IF r <= Top THEN ShiftedRight(l, r) ELSE ShiftedLeft(l, Prime - r)

complement(e) == Number((0..qbits - 1) \ Bits(e)) % Prime
Xor(S, T)     == (S \ T) \cup (T \ S)
bit_or(l, r)  == Number(Bits(l) \cup Bits(r)) % Prime
bit_and(l, r) == Number(Bits(l) \cap Bits(r)) % Prime
bit_xor(l, r) == Number(Xor(Bits(l), Bits(r))) % Prime

\* The numbers above the half of the field are negative in comparisons.
val(e) == IF Top + 1 <= e THEN e - Prime ELSE e

Defined(op, r) == op \in {"Div", "IntDiv", "Mod"} => r # 0
Unary          == {"PrefixSub", "Complement", "BoolNot"}
Operators      == Unary \cup
    {"Add", "Sub", "Mul", "Div", "IntDiv", "Mod", "Pow", "ShiftL", "ShiftR",
     "BitOr", "BitAnd", "BitXor", "Eq", "NotEq", "Lesser", "LesserEq", "Greater",
     "GreaterEq", "BoolOr", "BoolAnd"}

Result(op, l, r) ==
    CASE op = "Add"        -> (l + r) % Prime
      [] op = "Sub"        -> (l - r) % Prime
      [] op = "Mul"        -> Product(l, r)
      [] op = "Div"        -> Product(l, mod_inverse(r))
      [] op = "IntDiv"     -> l \div r
      [] op = "Mod"        -> l % r
      [] op = "Pow"        -> pow(l, r)
      [] op = "ShiftL"     -> shift_l(l, r)
      [] op = "ShiftR"     -> shift_r(l, r)
      [] op = "BitOr"      -> bit_or(l, r)
      [] op = "BitAnd"     -> bit_and(l, r)
      [] op = "BitXor"     -> bit_xor(l, r)
      [] op = "Eq"         -> TruthValue(l = r)
      [] op = "NotEq"      -> TruthValue(l # r)
      [] op = "Lesser"     -> TruthValue(val(l) < val(r))
      [] op = "LesserEq"   -> TruthValue(val(l) <= val(r))
      [] op = "Greater"    -> TruthValue(val(l) > val(r))
      [] op = "GreaterEq"  -> TruthValue(val(l) >= val(r))
      [] op = "BoolOr"     -> TruthValue(l # 0 \/ r # 0)
      [] op = "BoolAnd"    -> TruthValue(l # 0 /\ r # 0)
      [] op = "PrefixSub"  -> (-l) % Prime
      [] op = "Complement" -> complement(l)
      [] op = "BoolNot"    -> TruthValue(l = 0)
=============================================================================
