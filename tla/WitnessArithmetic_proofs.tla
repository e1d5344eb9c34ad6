----------------------- MODULE WitnessArithmetic_proofs -----------------------
(***************************************************************************)
(* Proofs about WitnessArithmetic, for every set of fields: whatever the   *)
(* elements of a program went through, they stand for the numbers that the *)
(* compiler computes, and small ones become the right ints.                *)
(*                                                                         *)
(* That one operation is right is proved in FieldElement_proofs and        *)
(* Goldilocks_proofs, for a constant prime.  Here these modules are        *)
(* instantiated for the field of the program, as F and G are; the first    *)
(* two parts show that the operations of both instances are the same.      *)
(***************************************************************************)
EXTENDS WitnessArithmetic, TLAPS

FP == INSTANCE FieldElement_proofs WITH
        Prime <- field.prime, Limbs <- field.limbs, LimbBits <- field.limbBits,
        ShortBits <- field.shortBits
GP == INSTANCE Goldilocks_proofs WITH
        Prime <- field.prime, Phi <- field.phi, ShortBits <- field.shortBits

-----------------------------------------------------------------------------
(* The operations of F *)

\* The operations on limbs.
LEMMA SameLimbs ==
    ASSUME NEW x, NEW y
    PROVE  /\ F!rawAdd(x, y) = FP!rawAdd(x, y)
           /\ F!rawSub(x, y) = FP!rawSub(x, y)
           /\ F!rawNeg(x) = FP!rawNeg(x)
           /\ F!rawNegLS(x, y) = FP!rawNegLS(x, y)
           /\ F!rawCopyS2L(x) = FP!rawCopyS2L(x)
           /\ F!rawMMul(x, y) = FP!rawMMul(x, y)
  BY DEF F!Word, FP!Word, F!WordTo, FP!WordTo, F!Capacity, FP!Capacity, F!Limb, FP!Limb,
         F!cannotOptimize, FP!cannotOptimize, F!np, FP!np, F!LessPrime, FP!LessPrime,
         F!rawAdd, FP!rawAdd, F!rawSub, FP!rawSub, F!rawNeg, FP!rawNeg, F!rawNegLS,
         FP!rawNegLS, F!rawCopyS2L, FP!rawCopyS2L, F!Wide, FP!Wide, F!Cleared,
         FP!Cleared, F!Kept, FP!Kept, F!rawMMul, FP!rawMMul

\* The operations on bits.
LEMMA SameBits ==
    ASSUME NEW x, NEW y
    PROVE  /\ F!AndBits(x, y) = FP!AndBits(x, y)
           /\ F!OrBits(x, y) = FP!OrBits(x, y)
           /\ F!XorBits(x, y) = FP!XorBits(x, y)
           /\ F!rawAnd(x, y) = FP!rawAnd(x, y)
           /\ F!rawOr(x, y) = FP!rawOr(x, y)
           /\ F!rawXor(x, y) = FP!rawXor(x, y)
           /\ F!rawNot(x) = FP!rawNot(x)
           /\ F!rawShl(x, y) = FP!rawShl(x, y)
           /\ F!rawShr(x, y) = FP!rawShr(x, y)
  BY DEF F!TwoTo, FP!TwoTo, F!qbits, FP!qbits, F!Bits, FP!Bits, F!Number, FP!Number,
         F!Xor, FP!Xor, F!Word, FP!Word, F!WordTo, FP!WordTo, F!Capacity, FP!Capacity,
         F!LessPrime, FP!LessPrime, F!Masked, FP!Masked, F!AndBits, FP!AndBits,
         F!OrBits, FP!OrBits, F!XorBits, FP!XorBits, F!rawAnd, FP!rawAnd, F!rawOr,
         FP!rawOr, F!rawXor, FP!rawXor, F!rawNot, FP!rawNot, F!rawShl, FP!rawShl,
         F!rawShr, FP!rawShr

\* The constants of the program and what it relies on.
LEMMA SameNumbers ==
           /\ F!TwoTo = FP!TwoTo
           /\ F!qbits = FP!qbits
           /\ F!Top = FP!Top
           /\ F!half = FP!half
           /\ F!Shorts = FP!Shorts
           /\ F!ShortSize = FP!ShortSize
           /\ F!R2 = FP!R2
           /\ F!R3 = FP!R3
           /\ F!Word = FP!Word
           /\ F!Element = FP!Element
           /\ F!Operators = FP!Operators
           /\ F!IsPrime = FP!IsPrime
           /\ F!FieldFits = FP!FieldFits
  BY DEF F!IsPrime, FP!IsPrime, F!Element, FP!Element, F!TwoTo, FP!TwoTo, F!qbits,
         FP!qbits, F!Top, FP!Top, F!Unary, FP!Unary, F!Operators, FP!Operators, F!Word,
         FP!Word, F!WordTo, FP!WordTo, F!Capacity, FP!Capacity, F!ShortSize,
         FP!ShortSize, F!Shorts, FP!Shorts, F!np, FP!np, F!R2, FP!R2, F!R3, FP!R3,
         F!half, FP!half, F!FitsLimbs, FP!FitsLimbs, F!HasRoom, FP!HasRoom, F!ShortsFit,
         FP!ShortsFit, F!FieldFits, FP!FieldFits

\* The representations of an element, and the numbers they stand for.
LEMMA SameElements ==
    ASSUME NEW e, NEW x
    PROVE  /\ F!LongNormal(e) = FP!LongNormal(e)
           /\ F!toMpz(e) = FP!toMpz(e)
           /\ F!toMontgomery(e) = FP!toMontgomery(e)
           /\ F!TimesShort(e, x) = FP!TimesShort(e, x)
           /\ F!FromInteger(x) = FP!FromInteger(x)
           /\ F!fromMpz(x) = FP!fromMpz(x)
           /\ F!IsElement(e) = FP!IsElement(e)
           /\ F!Input(x) = FP!Input(x)
           /\ F!Constant(x) = FP!Constant(x)
  BY SameLimbs, SameNumbers
     DEF F!WordTo, FP!WordTo, F!Capacity, FP!Capacity, F!rawMMul1, FP!rawMMul1,
         F!rawFromMontgomery, FP!rawFromMontgomery, F!Short, FP!Short, F!Long, FP!Long,
         F!LongMontgomery, FP!LongMontgomery, F!IsShort, FP!IsShort, F!IsMontgomery,
         FP!IsMontgomery, F!IsElement, FP!IsElement, F!LongNormal, FP!LongNormal,
         F!TimesShort, FP!TimesShort, F!toMontgomery, FP!toMontgomery, F!FromInteger,
         FP!FromInteger, F!toMpz, FP!toMpz, F!fromMpz, FP!fromMpz, F!Input, FP!Input,
         F!Constant, FP!Constant

\* The operations on elements.
LEMMA SameOperations ==
    ASSUME NEW a, NEW b
    PROVE  /\ F!add(a, b) = FP!add(a, b)
           /\ F!sub(a, b) = FP!sub(a, b)
           /\ F!neg(a) = FP!neg(a)
           /\ F!mul(a, b) = FP!mul(a, b)
  BY SameLimbs, SameNumbers, SameElements
     DEF F!Long, FP!Long, F!LongMontgomery, FP!LongMontgomery, F!IsShort, FP!IsShort,
         F!IsMontgomery, FP!IsMontgomery, F!BothShort, FP!BothShort, F!InMontgomery,
         FP!InMontgomery, F!PlusShort, FP!PlusShort, F!MinusShort, FP!MinusShort,
         F!ShortMinus, FP!ShortMinus, F!add_s1s2, FP!add_s1s2, F!add, FP!add, F!sub, FP!sub,
         F!neg, FP!neg, F!Times, FP!Times, F!mul, FP!mul

\* The comparisons.
LEMMA SameOrders ==
    ASSUME NEW a, NEW b
    PROVE  /\ F!isTrue(a) = FP!isTrue(a)
           /\ F!eq(a, b) = FP!eq(a, b)
           /\ F!lt(a, b) = FP!lt(a, b)
           /\ F!gt(a, b) = FP!gt(a, b)
  BY SameNumbers, SameElements
     DEF F!IsShort, FP!IsShort, F!BothShort, FP!BothShort, F!InMontgomery, FP!InMontgomery,
         F!isTrue, FP!isTrue, F!eq, FP!eq, F!LessRaw, FP!LessRaw, F!lt, FP!lt, F!GreaterRaw,
         FP!GreaterRaw, F!gt, FP!gt

\* The operations on the bits of elements.
LEMMA SameBitwise ==
    ASSUME NEW a, NEW b
    PROVE  /\ F!band(a, b) = FP!band(a, b)
           /\ F!bor(a, b) = FP!bor(a, b)
           /\ F!bxor(a, b) = FP!bxor(a, b)
           /\ F!bnot(a) = FP!bnot(a)
           /\ F!shl(a, b) = FP!shl(a, b)
           /\ F!shr(a, b) = FP!shr(a, b)
  BY SameBits, SameNumbers, SameElements
     DEF F!Short, FP!Short, F!Long, FP!Long, F!IsShort, FP!IsShort, F!BothShort,
         FP!BothShort, F!Natural, FP!Natural, F!and_s1s2, FP!and_s1s2, F!or_s1s2,
         FP!or_s1s2, F!xor_s1s2, FP!xor_s1s2, F!band, FP!band, F!bor, FP!bor, F!bxor,
         FP!bxor, F!bnot, FP!bnot, F!do_shl, FP!do_shl, F!do_shr, FP!do_shr, F!Amount,
         FP!Amount, F!shl, FP!shl, F!shr, FP!shr

\* The operations that the program and the compiler share.
LEMMA SamePowers ==
    ASSUME NEW a, NEW b
    PROVE  /\ F!pow(a, b) = FP!pow(a, b)
           /\ F!mod_inverse(a) = FP!mod_inverse(a)
           /\ F!inv(a) = FP!inv(a)
  <1>1. \A x, y : F!pow(x, y) = FP!pow(x, y) /\ F!mod_inverse(x) = FP!mod_inverse(x)
    BY DEF F!Element, FP!Element, F!Product, FP!Product, F!mod_inverse, FP!mod_inverse,
           F!pow, FP!pow
  <1>2. /\ \A x : F!fromMpz(x) = FP!fromMpz(x)
        /\ \A x : F!toMpz(x) = FP!toMpz(x)
    BY SameElements
  <1>3. F!inv(a) = FP!inv(a)
    BY <1>1, <1>2 DEF F!inv, FP!inv
  <1> QED  BY <1>1, <1>3

\* Every operation.
LEMMA SameApply ==
    ASSUME NEW op, NEW a, NEW b
    PROVE  F!Apply(op, a, b) = FP!Apply(op, a, b)
  <1>1. /\ F!add(a, b) = FP!add(a, b) /\ F!sub(a, b) = FP!sub(a, b) /\ F!neg(a) = FP!neg(a)
        /\ F!mul(a, b) = FP!mul(a, b) /\ F!mul(a, F!inv(b)) = FP!mul(a, FP!inv(b))
    BY SameOperations, SamePowers
  <1>2. /\ F!isTrue(a) = FP!isTrue(a) /\ F!isTrue(b) = FP!isTrue(b)
        /\ F!eq(a, b) = FP!eq(a, b) /\ F!lt(a, b) = FP!lt(a, b)
        /\ F!gt(a, b) = FP!gt(a, b)
    BY SameOrders
  <1>3. /\ F!band(a, b) = FP!band(a, b) /\ F!bor(a, b) = FP!bor(a, b)
        /\ F!bxor(a, b) = FP!bxor(a, b) /\ F!bnot(a) = FP!bnot(a)
        /\ F!shl(a, b) = FP!shl(a, b) /\ F!shr(a, b) = FP!shr(a, b)
    BY SameBitwise
  <1>4. F!toMpz(a) = FP!toMpz(a) /\ F!toMpz(b) = FP!toMpz(b)
    BY SameElements
  <1>5. F!pow(F!toMpz(a), F!toMpz(b)) = FP!pow(FP!toMpz(a), FP!toMpz(b))
    BY <1>4, SamePowers
  <1>6. \A x : F!fromMpz(x) = FP!fromMpz(x)
    BY SameElements
  <1>7. \A p : F!Truth(p) = FP!Truth(p)
    BY DEF F!Truth, FP!Truth, F!Short, FP!Short, F!TruthValue, FP!TruthValue
  <1> QED  BY <1>1, <1>2, <1>3, <1>4, <1>5, <1>6, <1>7 DEF F!Apply, FP!Apply

\* The conversion to an int.
LEMMA SameInts ==
    ASSUME NEW e
    PROVE  /\ F!toInt(e) = FP!toInt(e)
           /\ F!val(e) = FP!val(e)
  BY SameElements, SameNumbers
     DEF F!val, FP!val, F!IsShort, FP!IsShort, F!LowDifference, FP!LowDifference, F!longNeg,
         FP!longNeg, F!toInt, FP!toInt

\* What the compiler computes.
LEMMA SameResult ==
    ASSUME NEW op, NEW x, NEW y
    PROVE  /\ F!Defined(op, y) = FP!Defined(op, y)
           /\ F!Result(op, x, y) = FP!Result(op, x, y)
  BY DEF F!Bits, FP!Bits, F!Number, FP!Number, F!TruthValue, FP!TruthValue, F!Product,
         FP!Product, F!mod_inverse, FP!mod_inverse, F!pow, FP!pow, F!ShiftedLeft,
         FP!ShiftedLeft, F!ShiftedRight, FP!ShiftedRight, F!shift_l, FP!shift_l,
         F!shift_r, FP!shift_r, F!complement, FP!complement, F!Xor, FP!Xor, F!bit_or,
         FP!bit_or, F!bit_and, FP!bit_and, F!bit_xor, FP!bit_xor, F!val, FP!val,
         F!Defined, FP!Defined, F!Result, FP!Result

-----------------------------------------------------------------------------
(* The operations of G *)

\* The numbers and sums of the program.
LEMMA SameGoldilocksSums ==
    ASSUME NEW a, NEW b
    PROVE  /\ G!add(a, b) = GP!add(a, b)
           /\ G!sub(a, b) = GP!sub(a, b)
           /\ G!neg(a) = GP!neg(a)
           /\ G!LessPrime(a) = GP!LessPrime(a)
           /\ G!W(a) = GP!W(a)
  BY SMTT(30) DEF G!Word, GP!Word, G!W, GP!W, G!half, GP!half, G!LessPrime, GP!LessPrime, G!add, GP!add,
         G!sub, GP!sub, G!neg, GP!neg

\* The product.
LEMMA SameGoldilocksProducts ==
    ASSUME NEW a, NEW b
    PROVE  G!mul(a, b) = GP!mul(a, b)
  BY SameGoldilocksSums DEF G!mul, GP!mul

\* The power.
LEMMA SameGoldilocksPowers ==
    ASSUME NEW a, NEW b
    PROVE  G!power(a, b) = GP!power(a, b)
  <1>1. \A x, y : G!mul(x, y) = GP!mul(x, y)
    BY SameGoldilocksProducts
  <1> QED  BY <1>1, ZenonT(60) DEF G!power, GP!power, G!Element, GP!Element

\* The numbers that the operations on bits are made of.
LEMMA SameGoldilocksNumbers ==
           /\ G!TwoTo = GP!TwoTo
           /\ G!qbits = GP!qbits
           /\ G!Word = GP!Word
           /\ G!half = GP!half
           /\ G!ShortSize = GP!ShortSize
           /\ G!Element = GP!Element
           /\ G!Operators = GP!Operators
           /\ G!IsPrime = GP!IsPrime
           /\ G!IsGoldilocks = GP!IsGoldilocks
           /\ F!IsPrime = GP!IsPrime
           /\ F!Operators = GP!Operators
           /\ F!ShortSize = GP!ShortSize
  BY DEF G!TwoTo, GP!TwoTo, F!TwoTo, G!qbits, GP!qbits, G!Word, GP!Word, G!half, GP!half,
         G!ShortSize, GP!ShortSize, F!ShortSize, G!Element, GP!Element, G!Unary, GP!Unary,
         F!Unary, G!Operators, GP!Operators, F!Operators, G!IsPrime, GP!IsPrime, F!IsPrime,
         G!IsGoldilocks, GP!IsGoldilocks

\* Bits and the number they make.
LEMMA SameGoldilocksBits ==
    ASSUME NEW a, NEW b
    PROVE  /\ G!Bits(a) = GP!Bits(a)
           /\ G!Number(a) = GP!Number(a)
           /\ G!Xor(a, b) = GP!Xor(a, b)
           /\ G!TruthValue(a) = GP!TruthValue(a)
  BY SameGoldilocksNumbers
     DEF G!Bits, GP!Bits, G!Number, GP!Number, G!Xor, GP!Xor, G!TruthValue, GP!TruthValue

\* Comparisons and shifts.
LEMMA SameGoldilocksShifts ==
    ASSUME NEW a, NEW b
    PROVE  /\ G!shl(a, b) = GP!shl(a, b)
           /\ G!shr(a, b) = GP!shr(a, b)
           /\ G!leq(a, b) = GP!leq(a, b)
           /\ G!lt(a, b) = GP!lt(a, b)
           /\ G!geq(a, b) = GP!geq(a, b)
           /\ G!gt(a, b) = GP!gt(a, b)
  BY SameGoldilocksNumbers, SameGoldilocksSums
     DEF G!ShiftL, GP!ShiftL, G!ShiftR, GP!ShiftR, G!shl, GP!shl, G!shr, GP!shr, G!leq,
         GP!leq, G!lt, GP!lt, G!geq, GP!geq, G!gt, GP!gt

\* The conversion to an int, and inverses.
LEMMA SameGoldilocksInts ==
    ASSUME NEW a
    PROVE  /\ G!toInt(a) = GP!toInt(a)
           /\ F!val(a) = GP!val(a)
           /\ G!mod_inverse(a) = GP!mod_inverse(a)
  BY SameGoldilocksNumbers
     DEF G!AsInt, GP!AsInt, G!toInt, GP!toInt, F!val, GP!val, F!Top, GP!Top, G!Element,
         GP!Element, G!Product, GP!Product, G!mod_inverse, GP!mod_inverse

\* Every operation of goldilocks.
LEMMA SameGoldilocksApply ==
    ASSUME NEW op, NEW a, NEW b
    PROVE  G!Apply(op, a, b) = GP!Apply(op, a, b)
  <1>1. /\ G!add(a, b) = GP!add(a, b) /\ G!sub(a, b) = GP!sub(a, b) /\ G!neg(a) = GP!neg(a)
        /\ G!mul(a, b) = GP!mul(a, b)
        /\ G!mul(a, G!mod_inverse(b)) = GP!mul(a, GP!mod_inverse(b))
        /\ G!power(a, b) = GP!power(a, b)
    BY SameGoldilocksSums, SameGoldilocksProducts, SameGoldilocksPowers, SameGoldilocksInts
  <1>2. /\ G!shl(a, b) = GP!shl(a, b) /\ G!shr(a, b) = GP!shr(a, b)
        /\ G!leq(a, b) = GP!leq(a, b) /\ G!lt(a, b) = GP!lt(a, b)
        /\ G!geq(a, b) = GP!geq(a, b) /\ G!gt(a, b) = GP!gt(a, b)
    BY SameGoldilocksShifts
  <1>3. /\ G!LessPrime(G!Number(G!Bits(a) \cup G!Bits(b)))
           = GP!LessPrime(GP!Number(GP!Bits(a) \cup GP!Bits(b)))
        /\ G!Number(G!Bits(a) \cap G!Bits(b)) = GP!Number(GP!Bits(a) \cap GP!Bits(b))
        /\ G!LessPrime(G!Number(G!Xor(G!Bits(a), G!Bits(b))))
           = GP!LessPrime(GP!Number(GP!Xor(GP!Bits(a), GP!Bits(b))))
        /\ G!LessPrime(G!Word - 1 - a) = GP!LessPrime(GP!Word - 1 - a)
    BY SameGoldilocksBits, SameGoldilocksSums, SameGoldilocksNumbers
  <1>4. \A p : G!TruthValue(p) = GP!TruthValue(p)
    BY SameGoldilocksBits
  <1> QED  BY <1>1, <1>2, <1>3, <1>4 DEF G!Apply, GP!Apply

\* What the compiler computes.
LEMMA SameGoldilocksResult ==
    ASSUME NEW op, NEW x, NEW y
    PROVE  /\ F!Defined(op, y) = GP!Defined(op, y)
           /\ F!Result(op, x, y) = GP!Result(op, x, y)
  BY DEF F!TwoTo, GP!TwoTo, F!qbits, GP!qbits, F!Bits, GP!Bits, F!Number, GP!Number,
         F!TruthValue, GP!TruthValue, F!Element, GP!Element, F!Top, GP!Top, F!Product,
         GP!Product, F!mod_inverse, GP!mod_inverse, F!pow, GP!pow, F!ShiftedLeft,
         GP!ShiftedLeft, F!ShiftedRight, GP!ShiftedRight, F!shift_l, GP!shift_l, F!shift_r,
         GP!shift_r, F!complement, GP!complement, F!Xor, GP!Xor, F!bit_or, GP!bit_or,
         F!bit_and, GP!bit_and, F!bit_xor, GP!bit_xor, F!val, GP!val, F!Defined, GP!Defined,
         F!Result, GP!Result
-----------------------------------------------------------------------------
(* The field does not change *)

\* What the program relies on stays.
LEMMA SupportedStays ==
    ASSUME field' = field
    PROVE  Supported' = Supported
  <1>1. F!IsPrime' = F!IsPrime /\ G!IsGoldilocks' = G!IsGoldilocks
    BY DEF F!IsPrime, G!IsGoldilocks, G!TwoTo, G!qbits, G!Word
  <1>2. F!TwoTo' = F!TwoTo /\ F!qbits' = F!qbits /\ F!Word' = F!Word /\ F!Capacity' = F!Capacity
        /\ F!ShortSize' = F!ShortSize /\ F!np' = F!np
    BY DEF F!TwoTo, F!qbits, F!Word, F!WordTo, F!Capacity, F!ShortSize, F!np
  <1>3. F!FieldFits' = F!FieldFits
    BY <1>2 DEF F!FieldFits, F!FitsLimbs, F!HasRoom, F!ShortsFit
  <1> QED  BY <1>1, <1>3 DEF Supported

\* An element stands for the same number.
LEMMA StandsStays ==
    ASSUME field' = field, NEW e, NEW x
    PROVE  FP!StandsFor(e, x)' = FP!StandsFor(e, x)
  <1>1. FP!Valid(e)' = FP!Valid(e)
    BY DEF FP!Valid, FP!IsElement, FP!Shorts, FP!ShortSize, FP!TwoTo, FP!Element, FP!Product,
           FP!R, FP!Capacity, FP!WordTo, FP!Word
  <1>2. FP!toMpz(e)' = FP!toMpz(e)
    BY SMTT(30) DEF FP!Word, FP!WordTo, FP!Capacity, FP!Limb, FP!cannotOptimize, FP!np, FP!LessPrime,
           FP!rawCopyS2L, FP!Wide, FP!Cleared, FP!Kept, FP!rawMMul, FP!rawFromMontgomery,
           FP!IsShort, FP!IsMontgomery, FP!LongNormal, FP!toMpz
  <1> QED  BY <1>1, <1>2 DEF FP!StandsFor

-----------------------------------------------------------------------------
(* The invariant *)

\* An element of the program stands for the number that the compiler has.
Stands(e, x) == IF field.goldilocks THEN e = x ELSE FP!StandsFor(e, x)

IInv ==
    /\ field \in Fields /\ Supported
    /\ number \in [Places -> Numbers]
    /\ DOMAIN element = Places
    /\ \A p \in Places : Stands(element[p], number[p])

\* What the compiler computes is an element of the field again.
LEMMA StandsIs ==
    ASSUME Supported, NEW e, NEW x \in Numbers, Stands(e, x)
    PROVE  /\ IF field.goldilocks THEN e \in Numbers ELSE F!IsElement(e)
           /\ NumberOf(e) = x
           /\ F!val(x) \in -F!ShortSize + 1..F!ShortSize - 1 => Integer(e) = F!val(x)
  <1>1. CASE field.goldilocks
    <2>1. GP!IsGoldilocks /\ x \in GP!Element
      BY <1>1, SameGoldilocksNumbers DEF Supported, Numbers, GP!Element
    <2>2. e = x /\ F!val(x) = GP!val(x) /\ F!ShortSize = GP!ShortSize /\ G!toInt(x) = GP!toInt(x)
      BY <1>1, SameGoldilocksInts, SameGoldilocksNumbers DEF Stands
    <2>3. GP!val(x) \in -GP!ShortSize + 1..GP!ShortSize - 1 => GP!toInt(x) = GP!val(x)
      BY <2>1, GP!GoldilocksInts
    <2> QED  BY <1>1, <2>2, <2>3 DEF NumberOf, Integer
  <1>2. CASE ~field.goldilocks
    <2>1. FP!FieldFits /\ FP!Valid(e) /\ FP!toMpz(e) = x
      BY <1>2, SameNumbers DEF Supported, Stands, FP!StandsFor
    <2>2. F!IsElement(e) /\ F!toMpz(e) = x
      BY <2>1, SameElements DEF FP!Valid
    <2>3. F!val(x) = FP!val(x) /\ F!ShortSize = FP!ShortSize /\ F!toInt(e) = FP!toInt(e)
      BY SameInts, SameNumbers
    <2>4. FP!val(FP!toMpz(e)) \in -FP!ShortSize + 1..FP!ShortSize - 1
            => FP!toInt(e) = FP!val(FP!toMpz(e))
      BY <2>1, FP!IntsAgree
    <2> QED  BY <1>2, <2>1, <2>2, <2>3, <2>4 DEF NumberOf, Integer
  <1> QED  BY <1>1, <1>2

\* The elements that a program begins with stand for their numbers.
LEMMA StandsLoaded ==
    ASSUME Supported, NEW x \in Numbers, NEW e \in Loaded(x)
    PROVE  Stands(e, x)
  <1>1. CASE field.goldilocks
    BY <1>1 DEF Stands, Loaded
  <1>2. CASE ~field.goldilocks
    <2>1. FP!FieldFits /\ x \in FP!Element
      BY <1>2, SameNumbers DEF Supported, Numbers, FP!Element
    <2>2. /\ FP!StandsFor(FP!Input(x), x)
          /\ FP!StandsFor(FP!Constant(x), x)
      BY <2>1, FP!LoadedElements DEF FP!StandsFor
    <2>3. e = FP!Input(x) \/ e = FP!Constant(x)
      BY <1>2, SameElements DEF Loaded
    <2> QED  BY <1>2, <2>2, <2>3 DEF Stands
  <1> QED  BY <1>1, <1>2

\* So do those that it computes.
LEMMA StandsComputed ==
    ASSUME Supported, NEW op \in F!Operators, NEW a, NEW b, NEW x \in Numbers, NEW y \in Numbers,
           Stands(a, x), Stands(b, y), F!Defined(op, y)
    PROVE  /\ Stands(Apply(op, a, b), F!Result(op, x, y))
           /\ F!Result(op, x, y) \in Numbers
  <1>1. CASE field.goldilocks
    <2>1. /\ GP!IsGoldilocks /\ GP!IsPrime /\ op \in GP!Operators /\ GP!Element = Numbers
          /\ a = x /\ b = y
      BY <1>1, SameGoldilocksNumbers DEF Supported, Numbers, GP!Element, Stands
    <2>2. GP!Defined(op, y) /\ F!Result(op, x, y) = GP!Result(op, x, y)
      BY SameGoldilocksResult
    <2>3. GP!Apply(op, x, y) = GP!Result(op, x, y) /\ GP!Apply(op, x, y) \in GP!Element
      BY <2>1, <2>2, GP!GoldilocksAgrees
    <2>4. G!Apply(op, a, b) = GP!Apply(op, x, y)
      BY <2>1, SameGoldilocksApply
    <2> QED  BY <1>1, <2>1, <2>2, <2>3, <2>4 DEF Stands, Apply
  <1>2. CASE ~field.goldilocks
    <2>1. /\ FP!FieldFits /\ FP!IsPrime /\ op \in FP!Operators
          /\ FP!Valid(a) /\ FP!toMpz(a) = x /\ FP!Valid(b) /\ FP!toMpz(b) = y
      BY <1>2, SameNumbers DEF Supported, Stands, FP!StandsFor
    <2>2. FP!Defined(op, y) /\ F!Result(op, x, y) = FP!Result(op, x, y)
      BY SameResult
    <2>3. FP!StandsFor(FP!Apply(op, a, b), FP!Result(op, x, y))
      BY <2>1, <2>2, FP!OperationsAgree
    <2>4. FP!Result(op, x, y) \in FP!Element
      BY <2>1, <2>3, FP!NumberIs DEF FP!StandsFor
    <2>5. F!Apply(op, a, b) = FP!Apply(op, a, b)
      BY SameApply
    <2> QED  BY <1>2, <2>2, <2>3, <2>4, <2>5 DEF Stands, Apply, Numbers, FP!Element
  <1> QED  BY <1>1, <1>2

\* So are the numbers of the field, and what an element stands for.
LEMMA FieldStays ==
    ASSUME field' = field
    PROVE  /\ Supported' = Supported
           /\ Numbers' = Numbers
           /\ \A e, x : Stands(e, x)' = Stands(e, x)
  BY SupportedStays, StandsStays DEF Numbers, Stands

LEMMA InitIInv == Init => IInv
  <1> SUFFICES ASSUME Init  PROVE  IInv
    OBVIOUS
  <1>1. PICK x \in Numbers, y \in Numbers : number = <<x, y>>
    BY DEF Init
  <1>2. PICK e \in Loaded(number[1]), f \in Loaded(number[2]) : element = <<e, f>>
    BY DEF Init
  <1>3. /\ number \in [Places -> Numbers] /\ number[1] \in Numbers /\ number[2] \in Numbers
    BY <1>1 DEF Places
  <1>4. Supported /\ field \in Fields
    BY DEF Init
  <1>5. Stands(e, number[1]) /\ Stands(f, number[2])
    BY <1>3, <1>4, StandsLoaded
  <1>6. DOMAIN element = Places /\ element[1] = e /\ element[2] = f
    BY <1>2 DEF Places
  <1> QED  BY <1>3, <1>4, <1>5, <1>6 DEF IInv, Places

\* An operation writes the first place, which then stands for its result.
LEMMA ComputeIInv ==
    ASSUME IInv, NEW op \in F!Operators, NEW p \in Places, NEW r \in Places, Compute(op, p, r)
    PROVE  IInv'
  <1>1. field' = field /\ F!Defined(op, number[r])
    BY DEF Compute
  <1> DEFINE c == Apply(op, element[p], element[r])
             v == F!Result(op, number[p], number[r])
  <1>2. Stands(c, v) /\ v \in Numbers
    <2>1. /\ number[p] \in Numbers /\ number[r] \in Numbers /\ Supported
          /\ Stands(element[p], number[p]) /\ Stands(element[r], number[r])
      BY DEF IInv
    <2> QED  BY <1>1, <2>1, StandsComputed
  <1>3. /\ element' = [element EXCEPT ![1] = c]
        /\ number' = [number EXCEPT ![1] = v]
    BY DEF Compute
  <1> HIDE DEF c, v
  <1>4. \A q \in Places : Stands(element'[q], number'[q])
    BY <1>2, <1>3 DEF IInv, Places
  <1>5. number' \in [Places -> Numbers] /\ DOMAIN element' = Places
    BY <1>2, <1>3 DEF IInv, Places
  <1> QED  BY <1>1, <1>4, <1>5, FieldStays DEF IInv

\* Storing copies it.
LEMMA StoreIInv ==
    ASSUME IInv, Store
    PROVE  IInv'
  <1>1. /\ field' = field
        /\ element' = [element EXCEPT ![2] = element[1]]
        /\ number' = [number EXCEPT ![2] = number[1]]
    BY DEF Store
  <1>2. \A q \in Places : Stands(element'[q], number'[q])
    BY <1>1 DEF IInv, Places
  <1>3. number' \in [Places -> Numbers] /\ DOMAIN element' = Places
    BY <1>1 DEF IInv, Places
  <1> QED  BY <1>1, <1>2, <1>3, FieldStays DEF IInv

\* The invariant holds in every state, for every list of fields.
THEOREM StandsHolds == Spec => []IInv
  <1>1. ASSUME IInv, [Next]_vars  PROVE  IInv'
    <2>1. CASE Store
      BY <1>1, <2>1, StoreIInv
    <2>2. CASE \E op \in F!Operators, p, r \in Places : Compute(op, p, r)
      BY <1>1, <2>2, ComputeIInv
    <2>3. CASE UNCHANGED vars
      <3>1. field' = field /\ element' = element /\ number' = number
        BY <2>3 DEF vars
      <3> QED  BY <1>1, <3>1, FieldStays DEF IInv
    <2> QED  BY <1>1, <2>1, <2>2, <2>3 DEF Next
  <1> QED  BY <1>1, InitIInv, PTL DEF Spec

\* Whatever an element went through, its value is the one the compiler computes,
\* in every program for a prime that its limbs and words fit.
THEOREM AgreesWithCompilerHolds == Spec => []AgreesWithCompiler
  <1>1. IInv => AgreesWithCompiler
    BY StandsIs DEF IInv, AgreesWithCompiler, TypeOK
  <1> QED  BY <1>1, StandsHolds, PTL

\* An element that stands for a small number is that int as an index.
THEOREM SmallNumbersAreIntsHolds == Spec => []SmallNumbersAreInts
  <1>1. IInv => SmallNumbersAreInts
    BY StandsIs DEF IInv, SmallNumbersAreInts, Ints
  <1> QED  BY <1>1, StandsHolds, PTL
==============================================================================
