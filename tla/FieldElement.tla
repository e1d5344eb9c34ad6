---------------------------- MODULE FieldElement ----------------------------
(***************************************************************************)
(* The field elements of the generated C++ programs (generic/fr.cpp).  An  *)
(* element is "short" (an int32), "long" (the number in limbs) or          *)
(* "longMontgomery" (the number times R, in limbs); small constants are    *)
(* "shortMontgomery", with the int32 and the Montgomery limbs.  The field  *)
(* that a type leaves unused is never read: it is 0 here.  A long value is *)
(* modelled as the number its Limbs limbs make, so the functions of GMP    *)
(* are arithmetic modulo Capacity with a carry.                            *)
(***************************************************************************)
EXTENDS FieldArithmetic

CONSTANTS
    Limbs,      \* Fr_N64
    LimbBits,   \* 64
    ShortBits,  \* 32
    Refused     \* the failed assertions of Fr_longNeg

Word      == 2^LimbBits
WordTo[i \in 0..Limbs] == IF i = 0 THEN 1 ELSE Word * WordTo[i - 1]
Capacity  == WordTo[Limbs]
Limb(a, i) == (a \div WordTo[i]) % Word
ShortSize == TwoTo[ShortBits - 1]
Shorts    == -ShortSize..ShortSize - 1

\* The constants of the template, from the code generator.
cannotOptimize == Prime \div WordTo[Limbs - 1] > (Word - 1) \div 2 - 1
np   == CHOOSE n \in 0..Word - 1 : (n * Prime) % Word = Word - 1
R2   == (Capacity * Capacity) % Prime
R3   == (Capacity * Capacity * Capacity) % Prime
half == Prime \div 2

\* What the generated program relies on.  The code generator takes enough limbs
\* for the prime, and an inverse of it modulo a word.
FitsLimbs ==
    /\ Word \in Nat /\ Word > 1
    /\ Limbs \in Nat \ {0}
    /\ Prime \in Nat /\ Prime > 2 /\ Prime <= Capacity
    /\ np \in Int /\ (np * Prime) % Word = Word - 1
\* Every carry that rawMMul loses is zero: some of the highest values of the
\* limbs are above the prime, as for every prime in constants.rs.
HasRoom == (Capacity - Prime + 1) * Word >= Prime
\* The prime is far larger than the shorts: neither sums nor products of two of
\* them reach it.
ShortsFit == /\ ShortBits - 1 \in 1..qbits /\ ShortSize * ShortSize < Prime
             /\ 2 * ShortSize <= Word
FieldFits == FitsLimbs /\ HasRoom /\ ShortsFit

-----------------------------------------------------------------------------
(* Operations on limbs *)

\* The prime is subtracted once.
LessPrime(carry, r) == IF carry \/ r >= Prime THEN (r - Prime) % Capacity ELSE r

rawAdd(a, b) == LessPrime(a + b >= Capacity, (a + b) % Capacity)
rawSub(a, b) == IF a < b THEN (((a - b) % Capacity) + Prime) % Capacity ELSE a - b
rawNeg(a)    == IF a = 0 THEN 0 ELSE (Prime - a) % Capacity
\* -a - b, for a word b
rawNegLS(a, b) ==
    LET first  == (Prime - b) % Capacity
        second == (first - a) % Capacity
    IN  IF Prime < b \/ first < a THEN (second + Prime) % Capacity ELSE second
rawCopyS2L(v) == IF v < 0 THEN ((v % Capacity) + Prime) % Capacity ELSE v

\* Montgomery's product a*b/R: the limbs of a are added one by one, each time
\* with the multiple of the prime that clears the lowest limb.  The sums have
\* one limb more than an element; a carry out of them is lost in every step
\* but the last ones, and there too if the prime leaves room (~cannotOptimize).
Wide       == Capacity * Word
Cleared(t) == t + Prime * ((np * (t % Word)) % Word)
Kept(t)    == IF cannotOptimize THEN t ELSE t % Wide
rawMMul(a, b) ==
    LET product[i \in 0..Limbs - 1] ==
            LET sum == b * Limb(a, i) + Kept(Cleared(product[i - 1])) \div Word
            IN  IF i = 0 THEN b * Limb(a, i)
                ELSE IF cannotOptimize /\ i = Limbs - 1 THEN sum ELSE sum % Wide
        last == Kept(Cleared(product[Limbs - 1]))
    IN  LessPrime(last >= Wide, (last \div Word) % Capacity)
rawMMul1(a, word)     == rawMMul(word, a)
rawFromMontgomery(a)  == rawMMul(1, a)

\* lboMask clears the bits above those of the prime.
Masked(r)     == LessPrime(FALSE, r % TwoTo[qbits])
AndBits(a, b) == Number(Bits(a) \cap Bits(b))
OrBits(a, b)  == Number(Bits(a) \cup Bits(b))
XorBits(a, b) == Number(Xor(Bits(a), Bits(b)))
rawAnd(a, b)  == Masked(AndBits(a, b))
rawOr(a, b)   == Masked(OrBits(a, b))
rawXor(a, b)  == Masked(XorBits(a, b))
rawNot(a)     == Masked(Number((0..qbits) \ Bits(a)))
rawShl(a, n) == IF n >= qbits THEN 0 ELSE IF n = 0 THEN a ELSE Masked(a * TwoTo[n])
rawShr(a, n) == IF n >= qbits THEN 0 ELSE a \div TwoTo[n]

-----------------------------------------------------------------------------
(* Elements *)

Short(v)          == [type |-> "short", short |-> v, long |-> 0]
Long(r)           == [type |-> "long", short |-> 0, long |-> r]
LongMontgomery(r) == [type |-> "longMontgomery", short |-> 0, long |-> r]

IsShort(e)      == e.type \in {"short", "shortMontgomery"}
IsMontgomery(e) == e.type \in {"shortMontgomery", "longMontgomery"}

IsElement(e) == e \in [type : {"short", "long", "shortMontgomery", "longMontgomery"},
                       short : Shorts, long : Element]

\* toLongNormal and toMontgomery, as limbs; limbs times a short
LongNormal(e) == IF IsShort(e) THEN rawCopyS2L(e.short)
                 ELSE IF IsMontgomery(e) THEN rawFromMontgomery(e.long) ELSE e.long
TimesShort(r, v) == IF v < 0 THEN rawNeg(rawMMul1(r, -v)) ELSE rawMMul1(r, v)
toMontgomery(e)  == IF IsMontgomery(e) THEN e.long
                    ELSE IF IsShort(e) THEN TimesShort(R2, e.short) ELSE rawMMul(e.long, R2)

\* A number of 64 bits becomes short if it has 32.
FromInteger(v) == IF v \in Shorts THEN Short(v) ELSE Long(rawCopyS2L(v))
\* toMpz, and fromMpz of a non-negative number
toMpz(e)   == LongNormal(e)
fromMpz(v) == IF v \in Shorts THEN Short(v) ELSE Long(v)

\* An input (str2element), and a constant of the program as the compiler writes it
Input(x) == fromMpz(x % Prime)
Constant(x) ==
    LET montgomery == (x * (Capacity % Prime)) % Prime
        signed     == IF x > half THEN x - Prime ELSE x
    IN  IF signed \in Shorts
        THEN [type |-> "shortMontgomery", short |-> signed, long |-> montgomery]
        ELSE LongMontgomery(montgomery)

-----------------------------------------------------------------------------
(* Operations *)

BothShort(a, b)    == IsShort(a) /\ IsShort(b)
InMontgomery(a, b) == "longMontgomery" \in {a.type, b.type}

PlusShort(r, v)  == IF v >= 0 THEN rawAdd(r, v) ELSE rawSub(r, -v)
MinusShort(r, v) == IF v < 0 THEN rawAdd(r, -v) ELSE rawSub(r, v)
ShortMinus(v, r) == IF v >= 0 THEN rawSub(v, r) ELSE rawNegLS(r, -v)

add_s1s2(a, b) == FromInteger(a.short + b.short)
add(a, b) ==
    IF BothShort(a, b) THEN add_s1s2(a, b)
    ELSE IF InMontgomery(a, b) THEN LongMontgomery(rawAdd(toMontgomery(a), toMontgomery(b)))
    ELSE Long(IF IsShort(a) THEN PlusShort(b.long, a.short)
              ELSE IF IsShort(b) THEN PlusShort(a.long, b.short)
              ELSE rawAdd(a.long, b.long))
sub(a, b) ==
    IF BothShort(a, b) THEN FromInteger(a.short - b.short)
    ELSE IF InMontgomery(a, b) THEN LongMontgomery(rawSub(toMontgomery(a), toMontgomery(b)))
    ELSE Long(IF IsShort(a) THEN ShortMinus(a.short, b.long)
              ELSE IF IsShort(b) THEN MinusShort(a.long, b.short)
              ELSE rawSub(a.long, b.long))
neg(a) == IF IsShort(a) THEN FromInteger(-a.short) ELSE [a EXCEPT !.long = rawNeg(@)]

\* Montgomery's product divides by R: one factor times R makes up for it, two
\* leave a Montgomery number, and none is made up for by a product with R^3.
Times(a, b) == IF a.type = "short" THEN TimesShort(b.long, a.short)
               ELSE IF b.type = "short" THEN TimesShort(a.long, b.short)
               ELSE rawMMul(a.long, b.long)
\* Variant of mul: a constant is taken for a number that is not in Montgomery form.
mulConstantNormal(a, b) ==
    IF BothShort(a, b) THEN Long(rawCopyS2L(a.short * b.short))
    ELSE IF a.type = "longMontgomery" /\ b.type = "longMontgomery" THEN LongMontgomery(Times(a, b))
    ELSE IF InMontgomery(a, b) THEN Long(Times(a, b))
    ELSE LongMontgomery(rawMMul(Times(a, b), R3))
mul(a, b) ==
    IF BothShort(a, b) THEN Long(rawCopyS2L(a.short * b.short))
    ELSE IF IsMontgomery(a) /\ IsMontgomery(b) THEN LongMontgomery(Times(a, b))
    ELSE IF IsMontgomery(a) \/ IsMontgomery(b) THEN Long(Times(a, b))
    ELSE LongMontgomery(rawMMul(Times(a, b), R3))

isTrue(e) == IF IsShort(e) THEN e.short # 0 ELSE e.long # 0
eq(a, b) ==
    IF BothShort(a, b) THEN a.short = b.short
    ELSE IF InMontgomery(a, b) THEN toMontgomery(a) = toMontgomery(b)
    ELSE LongNormal(a) = LongNormal(b)

\* Numbers above the half of the field are negative.
LessRaw(r, s) == IF half < r THEN half < s => r < s ELSE ~(half < s) /\ r < s
lt(a, b) == IF BothShort(a, b) THEN a.short < b.short ELSE LessRaw(LongNormal(a), LongNormal(b))
GreaterRaw(r, s) == IF half < r THEN half < s /\ r > s ELSE half < s \/ r > s
gt(a, b) == IF BothShort(a, b) THEN a.short > b.short ELSE GreaterRaw(LongNormal(a), LongNormal(b))

\* Bit by bit; two short numbers that are not negative give a short one.
Natural(a, b)  == a.short >= 0 /\ b.short >= 0
and_s1s2(a, b) == IF Natural(a, b) THEN Short(AndBits(a.short, b.short))
                  ELSE Long(rawAnd(LongNormal(a), LongNormal(b)))
or_s1s2(a, b)  == IF Natural(a, b) THEN Short(OrBits(a.short, b.short))
                  ELSE Long(rawOr(LongNormal(a), LongNormal(b)))
xor_s1s2(a, b) == IF Natural(a, b) THEN Short(XorBits(a.short, b.short))
                  ELSE Long(rawXor(LongNormal(a), LongNormal(b)))
band(a, b) == IF BothShort(a, b) THEN and_s1s2(a, b) ELSE Long(rawAnd(LongNormal(a), LongNormal(b)))
bor(a, b)  == IF BothShort(a, b) THEN or_s1s2(a, b) ELSE Long(rawOr(LongNormal(a), LongNormal(b)))
bxor(a, b) == IF BothShort(a, b) THEN xor_s1s2(a, b) ELSE Long(rawXor(LongNormal(a), LongNormal(b)))
bnot(a)    == Long(rawNot(LongNormal(a)))

\* A shift of a short number is short if nothing gets lost.
do_shl(a, n) ==
    IF IsShort(a) /\ a.short = 0 THEN Short(0)
    ELSE IF IsShort(a) /\ a.short > 0 /\ n < ShortBits - 1 /\ a.short * TwoTo[n] \in Shorts
         THEN Short(a.short * TwoTo[n])
    ELSE Long(rawShl(LongNormal(a), n))
do_shr(a, n) ==
    IF ~IsShort(a) \/ a.short < 0 THEN Long(rawShr(LongNormal(a), n))
    ELSE IF n >= ShortBits - 1 THEN Short(0) ELSE Short(a.short \div TwoTo[n])
\* The amount of a shift to the left; negative for the other direction.
Amount(b) == IF IsShort(b) THEN b.short
             ELSE LET n == LongNormal(b) IN IF n < qbits THEN n ELSE n - Prime
shl(a, b) == LET n == Amount(b)
             IN  IF n >= qbits \/ -n >= qbits THEN Short(0)
                 ELSE IF n < 0 THEN do_shr(a, -n) ELSE do_shl(a, n)
shr(a, b) == LET n == Amount(b)
             IN  IF n >= qbits \/ -n >= qbits THEN Short(0)
                 ELSE IF n < 0 THEN do_shl(a, -n) ELSE do_shr(a, n)

inv(b) == fromMpz(mod_inverse(toMpz(b)))
Truth(p) == Short(TruthValue(p))

Apply(op, a, b) ==
    CASE op = "Add"        -> add(a, b)
      [] op = "Sub"        -> sub(a, b)
      [] op = "Mul"        -> mul(a, b)
      [] op = "Div"        -> mul(a, inv(b))
      [] op = "IntDiv"     -> fromMpz(toMpz(a) \div toMpz(b))
      [] op = "Mod"        -> fromMpz(toMpz(a) % toMpz(b))
      [] op = "Pow"        -> fromMpz(pow(toMpz(a), toMpz(b)))
      [] op = "ShiftL"     -> shl(a, b)
      [] op = "ShiftR"     -> shr(a, b)
      [] op = "BitOr"      -> bor(a, b)
      [] op = "BitAnd"     -> band(a, b)
      [] op = "BitXor"     -> bxor(a, b)
      [] op = "Eq"         -> Truth(eq(a, b))
      [] op = "NotEq"      -> Truth(~eq(a, b))
      [] op = "Lesser"     -> Truth(lt(a, b))
      [] op = "LesserEq"   -> Truth(~gt(a, b))
      [] op = "Greater"    -> Truth(gt(a, b))
      [] op = "GreaterEq"  -> Truth(~lt(a, b))
      [] op = "BoolOr"     -> Truth(isTrue(a) \/ isTrue(b))
      [] op = "BoolAnd"    -> Truth(isTrue(a) /\ isTrue(b))
      [] op = "PrefixSub"  -> neg(a)
      [] op = "Complement" -> bnot(a)
      [] op = "BoolNot"    -> Truth(~isTrue(a))

-----------------------------------------------------------------------------
(* Conversions to the integers of C++ *)

\* Variant of LowDifference: the words of 64 bits are not taken as signed.
LowDifferenceUnsigned(r) == ((r % Word) - (Prime % Word)) % Word
\* The lowest limb minus that of the prime, as an int64
LowDifference(r) ==
    LET d == ((r % Word) - (Prime % Word)) % Word IN IF d >= Word \div 2 THEN d - Word ELSE d
longNeg(r) == IF r < Prime /\ LowDifference(r) < 0 /\ LowDifference(r) \in Shorts
              THEN LowDifference(r) ELSE Refused
toInt(e) == IF IsShort(e) THEN e.short
            ELSE LET r == LongNormal(e)
                 IN  IF r % Word < ShortSize /\ r < Word THEN r ELSE longNeg(r)
=============================================================================
