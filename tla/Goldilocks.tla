----------------------------- MODULE Goldilocks -----------------------------
(***************************************************************************)
(* The field elements of the generated C++ programs for the prime          *)
(* 2^64 - 2^32 + 1 (goldilocks/fr.hpp): words of 64 bits, in which a sum   *)
(* may not fit.  Here Prime = Word - Phi + 1 with Word = Phi^2.            *)
(***************************************************************************)
EXTENDS FieldArithmetic

CONSTANTS
    Phi,        \* 2^32
    ShortBits   \* 32, the width of an int

Word  == Phi * Phi
W(n)  == n % Word
half  == Prime \div 2
LessPrime(s) == IF s < Prime THEN s ELSE W(s - Prime)

ShortSize == TwoTo[ShortBits - 1]
\* The shape of the prime that the file is written for
IsGoldilocks ==
    /\ Phi \in Nat /\ Phi > 1 /\ Prime = Word - Phi + 1
    /\ Word = TwoTo[qbits] /\ ShortBits - 1 \in 0..qbits

\* The halves of the field are kept apart so that no sum overflows.
add(a, b) ==
    IF a <= half
    THEN IF b > half /\ W(Prime - b) <= a THEN W(a - W(Prime - b)) ELSE W(a + b)
    ELSE LET an == W(Prime - a) IN IF an > b THEN W(a + b) ELSE W(b - an)
sub(a, b) == IF b <= a THEN W(a - b) ELSE W(Prime - W(b - a))
neg(a)    == IF a = 0 THEN a ELSE W(Prime - a)

\* With Phi^2 = Phi - 1, from the four products of halves.
mul(a, b) ==
    LET Low(n)  == n % Phi
        High(n) == n \div Phi
        high    == High(a) * High(b)
        middle  == add(add(high, High(a) * Low(b)), Low(a) * High(b))
        low     == sub(Low(a) * Low(b), high)
        carried == sub(add(W(High(middle) * Phi), W(Low(middle) * Phi)), High(middle))
    IN  add(carried, low)

\* run[bo][ao][p]: the loop of Fr_pow from these values on
power(a, b) ==
    LET run[bo \in 0..b] ==
            [ao \in Element |-> [p \in Element |->
                IF bo = 0 THEN p
                ELSE IF bo % 2 = 0 THEN run[bo \div 2][mul(ao, ao)][p]
                ELSE run[bo - 1][ao][mul(p, ao)]]]
    IN  run[b][a][1]

ShiftL(a, n) == IF n >= qbits THEN 0 ELSE LessPrime(W(a * TwoTo[n]))
ShiftR(a, n) == IF n >= qbits THEN 0 ELSE a \div TwoTo[n]
shl(a, b) == IF b > half THEN ShiftR(a, Prime - b) ELSE ShiftL(a, b)
shr(a, b) == IF b > half THEN ShiftL(a, Prime - b) ELSE ShiftR(a, b)

\* Up to the half of the field an element is positive, above it negative.
leq(a, b) == IF a <= half THEN b <= half /\ a <= b ELSE b <= half \/ a <= b
lt(a, b)  == IF a <= half THEN b <= half /\ a < b ELSE b <= half \/ a < b
geq(a, b) == IF a <= half THEN b <= half => a >= b ELSE b > half /\ a >= b
gt(a, b)  == IF a <= half THEN b <= half => a > b ELSE b > half /\ a > b

Apply(op, a, b) ==
    CASE op = "Add"        -> add(a, b)
      [] op = "Sub"        -> sub(a, b)
      [] op = "Mul"        -> mul(a, b)
      [] op = "Div"        -> mul(a, mod_inverse(b))
      [] op = "IntDiv"     -> a \div b
      [] op = "Mod"        -> a % b
      [] op = "Pow"        -> power(a, b)
      [] op = "ShiftL"     -> shl(a, b)
      [] op = "ShiftR"     -> shr(a, b)
      [] op = "BitOr"      -> LessPrime(Number(Bits(a) \cup Bits(b)))
      [] op = "BitAnd"     -> Number(Bits(a) \cap Bits(b))
      [] op = "BitXor"     -> LessPrime(Number(Xor(Bits(a), Bits(b))))
      [] op = "Eq"         -> TruthValue(a = b)
      [] op = "NotEq"      -> TruthValue(a # b)
      [] op = "Lesser"     -> TruthValue(lt(a, b))
      [] op = "LesserEq"   -> TruthValue(leq(a, b))
      [] op = "Greater"    -> TruthValue(gt(a, b))
      [] op = "GreaterEq"  -> TruthValue(geq(a, b))
      [] op = "BoolOr"     -> TruthValue(~(a = 0 /\ b = 0))
      [] op = "BoolAnd"    -> TruthValue(~(a = 0 \/ b = 0))
      [] op = "PrefixSub"  -> neg(a)
      [] op = "Complement" -> LessPrime(Word - 1 - a)
      [] op = "BoolNot"    -> TruthValue(a = 0)

\* The conversion to int keeps the low bits.
AsInt(n) == LET w == n % (2 * ShortSize) IN IF w >= ShortSize THEN w - 2 * ShortSize ELSE w
toInt(a) == IF a > half THEN -AsInt(Prime - a) ELSE AsInt(a)
=============================================================================
