-------------------------- MODULE Goldilocks_proofs --------------------------
(***************************************************************************)
(* Proofs about Goldilocks: whatever the size of the words, the operations *)
(* of the generated program are those of the compiler, and no sum or       *)
(* product on the way is too large for a word.                             *)
(***************************************************************************)
EXTENDS Goldilocks, FieldArithmetic_proofs

\* What the proofs use of it: words hold the elements, and the halves of the
\* field, below and above half, are equally large but for 0.
LEMMA Sizes ==
    ASSUME IsGoldilocks
    PROVE  /\ Prime \in Nat /\ Prime > 2 /\ Word \in Nat /\ Prime < Word
           /\ half \in Nat /\ half = Top /\ Prime = 2 * half + 1
           /\ Phi \in Nat /\ Phi > 1 /\ Prime = Phi * Phi - Phi + 1 /\ Word = Phi * Phi
  <1>1. Phi \in Nat /\ Phi > 1 /\ Prime = Phi * Phi - Phi + 1 /\ Word = Phi * Phi
    BY DEF IsGoldilocks, Word
  <1> DEFINE k == Phi \div 2
             b == Phi % 2
  <1>2. k \in Int /\ b \in 0..1 /\ Phi = 2 * k + b
    BY <1>1, DivMod
  <1> HIDE DEF k, b
  <1>3. Phi * Phi >= 2 * Phi /\ Phi * Phi \in Nat
    BY <1>1
  <1>4. \E h \in Int : Prime = 2 * h + 1
    <2>1. CASE b = 0
      <3>1. Prime = 2 * (k * Phi - k) + 1 /\ k * Phi - k \in Int
        BY <1>1, <1>2, <2>1
      <3> QED  BY <3>1
    <2>2. CASE b = 1
      <3>1. Prime = 2 * (k * Phi) + 1 /\ k * Phi \in Int
        BY <1>1, <1>2, <2>2
      <3> QED  BY <3>1
    <2>3. b = 0 \/ b = 1
      BY <1>2
    <2> QED  BY <2>1, <2>2, <2>3
  <1>5. PICK h \in Int : Prime = 2 * h + 1
    BY <1>4
  <1>6. half = h
    BY <1>5, ModUnique DEF half
  <1>7. Prime \in Nat /\ Prime > 2 /\ Prime < Word
    BY <1>1, <1>3
  <1> QED  BY <1>1, <1>3, <1>5, <1>6, <1>7 DEF half, Top

-----------------------------------------------------------------------------
(* Sums and differences *)

\* A number that fits is a word.
LEMMA Fits ==
    ASSUME IsGoldilocks, NEW n \in 0..Word - 1
    PROVE  W(n) = n
  <1> DEFINE w == Word
  <1>1. w \in Nat \ {0} /\ n \in 0..w - 1 /\ n \in Int
    BY Sizes
  <1> HIDE DEF w
  <1>2. n % w = n
    BY <1>1, ModSmall
  <1> QED  BY <1>2 DEF W, w

\* The sum and the difference of two elements.
LEMMA AddIs ==
    ASSUME IsGoldilocks, NEW a \in Element, NEW b \in Element
    PROVE  add(a, b) \in Element /\ add(a, b) = (a + b) % Prime
  <1> DEFINE p == Prime
             w == Word
             h == half
  <1>1. /\ p \in Nat \ {0} /\ w \in Nat /\ p < w /\ h \in Nat /\ p = 2 * h + 1
        /\ a \in 0..p - 1 /\ b \in 0..p - 1 /\ a + b \in Int
    BY Sizes DEF Element
  <1>w. \A n \in 0..w - 1 : W(n) = n
    BY Fits
  <1> HIDE DEF p, w, h
  <1>2. /\ a + b \in 0..p - 1 => (a + b) % p = a + b
        /\ a + b \in p..2 * p - 1 => (a + b) % p = a + b - p
        /\ (a + b) % p \in 0..p - 1
    <2> DEFINE n == a + b
    <2>1. n \in Int /\ p \in Nat \ {0}
      BY <1>1
    <2> HIDE DEF n
    <2>2. /\ n \in 0..p - 1 => n % p = n
          /\ n \in p..2 * p - 1 => n % p = n - p
          /\ n % p \in 0..p - 1
      BY <2>1, ModSmall
    <2> QED  BY <1>1, <2>2 DEF n
  <1>3. W(p - b) = IF b = 0 THEN p ELSE p - b
    BY <1>1, <1>w
  <1>4. W(p - a) = p - a
    BY <1>1, <1>w
  <1>5. CASE a <= h
    <2>1. CASE b > h /\ p - b <= a
      <3>1. W(a - (p - b)) = a - (p - b) /\ W(p - b) = p - b
        BY <1>1, <1>w, <1>3, <2>1
      <3>2. add(a, b) = a - (p - b)
        BY <1>5, <2>1, <3>1 DEF add, p, h
      <3> QED  BY <1>1, <1>2, <2>1, <3>2 DEF p, Element
    <2>2. CASE ~(b > h /\ p - b <= a)
      <3>1. a + b \in 0..p - 1 /\ W(a + b) = a + b
        BY <1>1, <1>w, <2>2, <1>5
      <3>2. b > h => W(p - b) = p - b
        BY <1>1, <1>3
      <3>3. add(a, b) = a + b
        BY <1>5, <2>2, <3>1, <3>2 DEF add, p, h
      <3> QED  BY <1>1, <1>2, <3>1, <3>3 DEF p, Element
    <2> QED  BY <2>1, <2>2
  <1>6. CASE ~(a <= h)
    <2>1. CASE p - a > b
      <3>1. a + b \in 0..p - 1 /\ W(a + b) = a + b
        BY <1>1, <1>w, <2>1
      <3>2. add(a, b) = a + b
        BY <1>4, <1>6, <2>1, <3>1 DEF add, p, h
      <3> QED  BY <1>1, <1>2, <3>1, <3>2 DEF p, Element
    <2>2. CASE ~(p - a > b)
      <3>1. a + b \in p..2 * p - 1 /\ W(b - (p - a)) = b - (p - a)
        BY <1>1, <1>w, <2>2
      <3>2. add(a, b) = b - (p - a)
        BY <1>4, <1>6, <2>2, <3>1 DEF add, p, h
      <3> QED  BY <1>1, <1>2, <3>1, <3>2 DEF p, Element
    <2> QED  BY <2>1, <2>2
  <1> QED  BY <1>5, <1>6

\* The difference of two elements, and the negative of one.
LEMMA SubIs ==
    ASSUME IsGoldilocks, NEW a \in Element, NEW b \in Element
    PROVE  /\ sub(a, b) \in Element /\ sub(a, b) = (a - b) % Prime
           /\ neg(a) \in Element /\ neg(a) = (-a) % Prime
  <1> DEFINE p == Prime
             w == Word
  <1>1. /\ p \in Nat \ {0} /\ w \in Nat /\ p < w
        /\ a \in 0..p - 1 /\ b \in 0..p - 1 /\ a - b \in Int /\ -a \in Int
    BY Sizes DEF Element
  <1>w. \A n \in 0..w - 1 : W(n) = n
    BY Fits
  <1> HIDE DEF p, w
  <1>2. /\ a - b \in 0..p - 1 => (a - b) % p = a - b
        /\ a - b \in -p..-1 => (a - b) % p = a - b + p
        /\ -a \in 0..p - 1 => (-a) % p = -a
        /\ -a \in -p..-1 => (-a) % p = -a + p
        /\ (a - b) % p \in 0..p - 1 /\ (-a) % p \in 0..p - 1
    BY <1>1, ModSmall
  <1>3. sub(a, b) = (a - b) % p
    <2>1. CASE b <= a
      <3>1. W(a - b) = a - b /\ a - b \in 0..p - 1
        BY <1>1, <1>w, <2>1
      <3> QED  BY <1>2, <2>1, <3>1 DEF sub
    <2>2. CASE ~(b <= a)
      <3>1. W(b - a) = b - a /\ W(p - (b - a)) = p - (b - a) /\ a - b \in -p..-1
        BY <1>1, <1>w, <2>2
      <3>2. p - (b - a) = a - b + p
        BY <1>1
      <3> QED  BY <1>2, <2>2, <3>1, <3>2 DEF sub, p
    <2> QED  BY <2>1, <2>2
  <1>4. neg(a) = (-a) % p
    <2>1. CASE a = 0
      BY <1>1, <1>2, <2>1 DEF neg
    <2>2. CASE a # 0
      <3>1. W(p - a) = p - a /\ -a \in -p..-1 /\ p - a = -a + p
        BY <1>1, <1>w, <2>2
      <3> QED  BY <1>2, <2>2, <3>1 DEF neg, p
    <2> QED  BY <2>1, <2>2
  <1> QED  BY <1>2, <1>3, <1>4 DEF p, Element

-----------------------------------------------------------------------------
(* Products *)

\* The halves of an element.
LEMMA Halves ==
    ASSUME IsGoldilocks, NEW n \in Element
    PROVE  /\ n \div Phi \in 0..Phi - 1 /\ n % Phi \in 0..Phi - 1
           /\ n = Phi * (n \div Phi) + (n % Phi)
  <1> DEFINE f == Phi
             q == n \div f
             r == n % f
  <1>1. f \in Nat \ {0} /\ f > 1 /\ Prime = f * f - f + 1 /\ n \in Int /\ n >= 0 /\ n < f * f
    BY Sizes DEF Element
  <1>2. q \in Int /\ r \in 0..f - 1 /\ n = f * q + r
    BY <1>1, DivMod
  <1> HIDE DEF f, q, r
  <1>3. q < f
    <2> SUFFICES ASSUME q >= f  PROVE  FALSE
      BY <1>1, <1>2
    <2>1. f * q >= f * f
      BY <1>1, <1>2
    <2>2. f * q \in Int /\ f * f \in Int
      BY <1>1, <1>2
    <2> QED  BY <1>1, <1>2, <2>1, <2>2
  <1>4. q >= 0
    <2> SUFFICES ASSUME q <= -1  PROVE  FALSE
      BY <1>1, <1>2
    <2>1. f * q <= f * (-1)
      BY <1>1, <1>2
    <2>2. f * q \in Int
      BY <1>1, <1>2
    <2> QED  BY <1>1, <1>2, <2>1, <2>2
  <1>5. q \in 0..f - 1 /\ r \in 0..f - 1 /\ n = f * q + r
    BY <1>1, <1>2, <1>3, <1>4
  <1> QED  BY <1>5 DEF f, q, r

\* The products of halves are elements, and so is a half in the upper place.
LEMMA HalvesFit ==
    ASSUME IsGoldilocks, NEW x \in 0..Phi - 1, NEW y \in 0..Phi - 1
    PROVE  x * y \in Element /\ x * Phi \in Element /\ W(x * Phi) = x * Phi
  <1> DEFINE f == Phi
             p == Prime
  <1>1. /\ f \in Nat /\ f > 1 /\ p = f * f - f + 1 /\ p < Word /\ p \in Nat /\ Word \in Nat
        /\ x \in 0..f - 1 /\ y \in 0..f - 1
    BY Sizes
  <1> HIDE DEF f, p
  <1>2. x * y >= 0 /\ x * f >= 0 /\ x * y \in Int /\ x * f \in Int /\ f * f \in Int
    BY <1>1
  <1>3. x * y <= x * f /\ x * f <= (f - 1) * f
    BY <1>1
  <1>4. (f - 1) * f = f * f - f
    BY <1>1
  <1>5. x * y \in 0..p - 1 /\ x * f \in 0..p - 1 /\ x * f \in 0..Word - 1
    BY <1>1, <1>2, <1>3, <1>4
  <1>6. W(x * f) = x * f
    BY <1>5, Fits
  <1> QED  BY <1>5, <1>6 DEF Element, p, f

\* Multiplying the halves gives the product of the elements.
LEMMA MulIs ==
    ASSUME IsGoldilocks, NEW a \in Element, NEW b \in Element
    PROVE  mul(a, b) \in Element /\ mul(a, b) = Product(a, b)
  <1> DEFINE p == Prime
             f == Phi
             aH == a \div Phi
             aL == a % Phi
             bH == b \div Phi
             bL == b % Phi
             high == aH * bH
             upper == aH * bL
             lower == aL * bH
             lowest == aL * bL
             middle == add(add(high, upper), lower)
             mH == middle \div Phi
             mL == middle % Phi
             low == sub(lowest, high)
             carried == sub(add(W(mH * Phi), W(mL * Phi)), mH)
  <1>s. /\ p \in Nat \ {0} /\ f \in Nat /\ p = f * f - f + 1
        /\ Element \subseteq Int /\ Element = 0..p - 1
    BY Sizes DEF Element
  <1>m. mul(a, b) = add(carried, low)
    BY DEF mul
  <1>1. /\ aH \in 0..Phi - 1 /\ aL \in 0..Phi - 1 /\ a = Phi * aH + aL
        /\ bH \in 0..Phi - 1 /\ bL \in 0..Phi - 1 /\ b = Phi * bH + bL
    BY Halves
  <1> HIDE DEF aH, aL, bH, bL
  <1>2. high \in Element /\ upper \in Element /\ lower \in Element /\ lowest \in Element
    BY <1>1, HalvesFit
  <1> HIDE DEF high, upper, lower, lowest
  <1>3. middle \in Element /\ \E k \in Int : middle = high + upper + lower + p * k
    <2> DEFINE n == add(high, upper)
    <2>1. n \in Element /\ n = (high + upper) % p
      BY <1>2, AddIs
    <2>2. middle \in Element /\ middle = (n + lower) % p
      BY <1>2, <2>1, AddIs
    <2> HIDE DEF n, middle, p
    <2>3. PICK i \in Int : n = high + upper + p * i
      BY <1>2, <1>s, <2>1, ModDiffers, high + upper \in Int
    <2>4. PICK j \in Int : middle = n + lower + p * j
      BY <1>2, <1>s, <2>1, <2>2, ModDiffers, n + lower \in Int
    <2>5. middle = high + upper + lower + p * (i + j) /\ i + j \in Int
      BY <1>2, <1>s, <2>1, <2>3, <2>4
    <2> QED  BY <2>2, <2>5
  <1> HIDE DEF middle
  <1>4. mH \in 0..Phi - 1 /\ mL \in 0..Phi - 1 /\ middle = Phi * mH + mL
    BY <1>3, Halves
  <1> HIDE DEF mH, mL
  <1>5. low \in Element /\ \E k \in Int : low = lowest - high + p * k
    <2>1. low \in Element /\ low = (lowest - high) % p
      BY <1>2, SubIs
    <2> HIDE DEF low, p
    <2> QED  BY <1>2, <1>s, <2>1, ModDiffers, lowest - high \in Int
  <1> HIDE DEF low
  <1>6. carried \in Element /\ \E k \in Int : carried = mH * f + mL * f - mH + p * k
    <2> DEFINE x == mH * Phi
               y == mL * Phi
               n == add(x, y)
    <2>1. x \in Element /\ y \in Element /\ W(x) = x /\ W(y) = y
      BY <1>4, HalvesFit
    <2>2. mH \in Element
      <3>1. Phi * Phi >= 2 * Phi /\ Phi * Phi \in Int
        BY Sizes
      <3> QED  BY <1>4, <1>s, <3>1, Sizes
    <2>3. carried = sub(n, mH)
      BY <2>1
    <2>4. n \in Element /\ n = (x + y) % p
      BY <2>1, AddIs
    <2>5. sub(n, mH) \in Element /\ sub(n, mH) = (n - mH) % p
      BY <2>2, <2>4, SubIs
    <2>6. x = mH * f /\ y = mL * f
      OBVIOUS
    <2> HIDE DEF x, y, n, carried, p, f
    <2>7. PICK i \in Int : n = x + y + p * i
      BY <1>s, <2>1, <2>4, ModDiffers, x + y \in Int
    <2>t. n \in Int /\ mH \in Int /\ n - mH \in Int /\ p \in Nat \ {0}
      BY <1>s, <2>2, <2>4
    <2>r. carried = (n - mH) % p
      BY <2>3, <2>5
    <2>8. PICK j \in Int : carried = n - mH + p * j
      BY <2>t, <2>r, ModDiffers
    <2>9. carried = x + y - mH + p * (i + j) /\ i + j \in Int
      BY <1>s, <2>1, <2>2, <2>4, <2>7, <2>8
    <2> QED  BY <2>3, <2>5, <2>6, <2>9
  <1> HIDE DEF carried
  <1>7. mul(a, b) \in Element /\ mul(a, b) = (carried + low) % p
    BY <1>m, <1>5, <1>6, AddIs
  <1>8. PICK k1 \in Int : middle = high + upper + lower + p * k1
    BY <1>3
  <1>9. PICK k2 \in Int : carried = mH * f + mL * f - mH + p * k2
    BY <1>6
  <1>10. PICK k3 \in Int : low = lowest - high + p * k3
    BY <1>5
  <1> HIDE DEF p, f
  <1>11. PICK k4 \in Int : mul(a, b) = carried + low + p * k4
    <2>1. carried \in Int /\ low \in Int /\ carried + low \in Int /\ p \in Nat \ {0}
      BY <1>s, <1>5, <1>6
    <2> QED  BY <2>1, <1>7, ModDiffers DEF p
  <1>12. \E k \in Int : carried + low + p * k4 = (f * aH + aL) * (f * bH + bL) + p * k
    <2> DEFINE h == high
               t == upper + lower
               z == lowest
    <2>1. /\ middle \in Int /\ carried \in Int /\ low \in Int /\ p \in Int /\ f \in Int
          /\ aH \in Int /\ aL \in Int /\ bH \in Int /\ bL \in Int /\ mH \in Int /\ mL \in Int
          /\ h \in Int /\ t \in Int /\ z \in Int
      BY <1>s, <1>1, <1>2, <1>3, <1>4, <1>5, <1>6
    <2>2. (f * aH + aL) * (f * bH + bL) = (f * f) * h + f * t + z
      BY <2>1 DEF high, upper, lower, lowest
    <2>3. middle = h + t + p * k1 /\ middle = f * mH + mL /\ low = z - h + p * k3
      BY <1>2, <1>4, <1>8, <1>10, <1>s, <2>1 DEF f
    <2>4. f * f = p + f - 1
      BY <1>s, <2>1
    <2> HIDE DEF h, t, z
    \* The square of the upper place is Phi - 1 in the field.
    <2>5. (f * f) * h = p * h + f * h - h /\ (f * f) * mH = p * mH + f * mH - mH
      BY <2>1, <2>4
    <2>6. f * middle = (f * f) * mH + f * mL /\ mH * f = f * mH /\ mL * f = f * mL
      BY <2>1, <2>3
    <2>7. f * middle = f * h + f * t + p * (f * k1)
      BY <2>1, <2>3
    <2>8. carried = f * h + f * t + p * (f * k1) - p * mH + p * k2
      BY <1>9, <2>1, <2>5, <2>6, <2>7
    <2> DEFINE k == f * k1 - mH + k2 + k3 + k4 - h
    <2>9. k \in Int /\ p * k = p * (f * k1) - p * mH + p * k2 + p * k3 + p * k4 - p * h
      BY <2>1
    <2> HIDE DEF k
    <2>10. carried + low + p * k4 = (f * aH + aL) * (f * bH + bL) + p * k
      BY <2>1, <2>2, <2>3, <2>5, <2>8, <2>9
    <2> QED  BY <2>9, <2>10
  <1>13. PICK k \in Int : mul(a, b) = a * b + p * k
    BY <1>1, <1>11, <1>12 DEF f
  <1>14. (a * b) % p = mul(a, b)
    <2>1. a * b \in Int /\ p \in Nat \ {0} /\ mul(a, b) \in 0..p - 1
      BY <1>s, <1>7
    <2> QED  BY <1>13, <2>1, ModOfSame
  <1> QED  BY <1>7, <1>14 DEF Product, p

-----------------------------------------------------------------------------
(* Powers *)

\* One pass of the loop of Fr_pow, and the function that the loop defines.
Passed(run, bo, ao, p) ==
    IF bo = 0 THEN p
    ELSE IF bo % 2 = 0 THEN run[bo \div 2][mul(ao, ao)][p]
    ELSE run[bo - 1][ao][mul(p, ao)]
Loop(run, b) ==
    run = [bo \in 0..b |-> [ao \in Element |-> [p \in Element |-> Passed(run, bo, ao, p)]]]

\* A pass looks at fewer passes.
LEMMA PassesDescend ==
    ASSUME NEW n \in Nat, n # 0
    PROVE  /\ n - 1 \in 0..n - 1
           /\ n % 2 = 0 => n \div 2 \in 0..n - 1 /\ n = 2 * (n \div 2)
  <1>1. n \div 2 \in Int /\ n % 2 \in 0..1 /\ n = 2 * (n \div 2) + (n % 2)
    BY DivMod
  <1> QED  BY <1>1

\* The loop ends: the recursion that stands for it has a solution.
LEMMA LoopExists ==
    ASSUME NEW b \in Nat
    PROVE  \E run : Loop(run, b)
  <1> DEFINE S == {n \in Nat : ~ \E run : Loop(run, n)}
  <1> SUFFICES ASSUME S # {}  PROVE  FALSE
    OBVIOUS
  <1>1. PICK n \in S : \A j \in S : n <= j
    BY HasLeast
  <1>2. CASE n = 0
    <2> DEFINE run == [bo \in 0..n |-> [ao \in Element |-> [p \in Element |-> p]]]
    <2>1. \A bo \in 0..n : bo = 0
      BY <1>2
    <2>2. Loop(run, n)
      BY <2>1 DEF Loop, Passed
    <2> QED  BY <1>1, <2>2
  <1>3. CASE n # 0
    <2>1. n \in Nat /\ n - 1 \in Nat /\ n - 1 \notin S
      BY <1>1, <1>3
    <2>2. PICK f : Loop(f, n - 1)
      BY <2>1
    <2> DEFINE last == [ao \in Element |-> [p \in Element |-> Passed(f, n, ao, p)]]
               g == [bo \in 0..n |-> IF bo = n THEN last ELSE f[bo]]
    <2>3. \A m \in 0..n - 1 : g[m] = f[m]
      BY <1>1
    <2> HIDE DEF S
    <2>4. ASSUME NEW bo \in 0..n, NEW ao, NEW p
          PROVE  Passed(g, bo, ao, p) = Passed(f, bo, ao, p)
      <3>1. bo # 0 => /\ bo - 1 \in 0..n - 1
                      /\ bo % 2 = 0 => bo \div 2 \in 0..n - 1
        BY <2>1, <1>3, PassesDescend
      <3> HIDE DEF g
      <3> QED  BY <2>3, <3>1 DEF Passed
    <2>5. ASSUME NEW bo \in 0..n
          PROVE  g[bo] = [ao \in Element |-> [p \in Element |-> Passed(g, bo, ao, p)]]
      <3>1. g[bo] = [ao \in Element |-> [p \in Element |-> Passed(f, bo, ao, p)]]
        <4>1. CASE bo = n
          BY <4>1
        <4>2. CASE bo # n
          <5>1. bo \in 0..n - 1 /\ g[bo] = f[bo]
            BY <4>2, <2>1, <2>3
          <5> QED  BY <5>1, <2>2 DEF Loop
        <4> QED  BY <4>1, <4>2
      <3> HIDE DEF g
      <3> QED  BY <2>4, <3>1
    <2>6. Loop(g, n)
      <3>1. g = [bo \in 0..n |-> g[bo]]
        OBVIOUS
      <3> HIDE DEF g
      <3> QED  BY <3>1, <2>5 DEF Loop
    <2> HIDE DEF g
    <2> QED  BY <1>1, <2>6 DEF S
  <1> QED  BY <1>2, <1>3

\* Square and multiply computes the power.
LEMMA PowerIs ==
    ASSUME IsGoldilocks, NEW a \in Element, NEW b \in Nat
    PROVE  power(a, b) = pow(a, b)
  <1> DEFINE run[bo \in 0..b] ==
                [ao \in Element |-> [p \in Element |->
                    IF bo = 0 THEN p
                    ELSE IF bo % 2 = 0 THEN run[bo \div 2][mul(ao, ao)][p]
                    ELSE run[bo - 1][ao][mul(p, ao)]]]
  <1>1. Loop(run, b)
    BY LoopExists DEF Loop, Passed
  <1>2. power(a, b) = run[b][a][1]
    BY DEF power
  <1> HIDE DEF run
  <1>p. Prime \in Nat \ {0, 1}
    BY Sizes
  <1> DEFINE S == {n \in 0..b : \E x, p \in Element : run[n][x][p] # Product(p, pow(x, n))}
  <1>3. S = {}
    <2> SUFFICES ASSUME S # {}  PROVE  FALSE
      OBVIOUS
    <2>1. PICK n \in S : \A j \in S : n <= j
      <3>1. S \in SUBSET Nat
        OBVIOUS
      <3> HIDE DEF S
      <3> QED  BY <3>1, HasLeast
    <2>2. PICK x \in Element, p \in Element : run[n][x][p] # Product(p, pow(x, n))
      BY <2>1
    <2>n. n \in 0..b /\ n \in Nat
      BY <2>1
    <2>3. run[n][x][p] = Passed(run, n, x, p)
      <3>1. run[n] = [ao \in Element |-> [q \in Element |-> Passed(run, n, ao, q)]]
        BY <1>1, <2>n DEF Loop
      <3> QED  BY <3>1
    <2>4. ASSUME NEW m \in 0..n - 1, NEW y \in Element, NEW q \in Element
          PROVE  run[m][y][q] = Product(q, pow(y, m))
      <3>1. m \notin S /\ m \in 0..b
        BY <2>1
      <3> QED  BY <3>1
    <2> HIDE DEF S
    <2>5. CASE n = 0
      BY <1>p, <2>2, <2>3, <2>5, PowIs, ProductIs DEF Passed
    <2>6. CASE n # 0 /\ n % 2 = 0
      <3> DEFINE m == n \div 2
      <3>1. m \in 0..n - 1 /\ m \in Nat /\ n = 2 * m
        BY <2>n, <2>6, PassesDescend
      <3> HIDE DEF m
      <3>2. mul(x, x) \in Element /\ mul(x, x) = Product(x, x)
        BY MulIs
      <3>3. Passed(run, n, x, p) = run[m][mul(x, x)][p]
        BY <2>6 DEF Passed, m
      <3>4. run[m][mul(x, x)][p] = Product(p, pow(Product(x, x), m))
        BY <2>4, <3>1, <3>2
      <3>5. pow(Product(x, x), m) = pow(x, n)
        BY <1>p, <3>1, PowOfSquare
      <3> QED  BY <2>2, <2>3, <3>3, <3>4, <3>5
    <2>7. CASE n # 0 /\ n % 2 # 0
      <3> DEFINE m == n - 1
      <3>1. m \in 0..n - 1 /\ m \in Nat /\ n = m + 1
        BY <2>n, <2>7
      <3>2. Passed(run, n, x, p) = run[m][x][mul(p, x)]
        BY <2>7 DEF Passed
      <3> HIDE DEF m
      <3>3. mul(p, x) \in Element /\ mul(p, x) = Product(p, x)
        BY MulIs
      <3>4. run[m][x][mul(p, x)] = Product(Product(p, x), pow(x, m))
        BY <2>4, <3>1, <3>3
      <3>5. pow(x, n) = Product(pow(x, m), x)
        BY <3>1, PowIs
      <3>6. p \in Int /\ x \in Int /\ pow(x, m) \in Int
        BY <1>p, <3>1, PowInField, ProductIs
      <3>7. Product(Product(p, x), pow(x, m)) = Product(p, pow(x, n))
        BY <1>p, <3>5, <3>6, ProductIs
      <3> QED  BY <2>2, <2>3, <3>2, <3>4, <3>7
    <2> QED  BY <2>5, <2>6, <2>7
  <1>4. run[b][a][1] = Product(1, pow(a, b))
    <2>1. b \in 0..b /\ 1 \in Element
      BY <1>p, ProductIs
    <2> QED  BY <1>3, <2>1
  <1>5. Product(1, pow(a, b)) = pow(a, b)
    BY <1>p, PowInField, ProductIs
  <1> QED  BY <1>2, <1>4, <1>5

-----------------------------------------------------------------------------
(* Comparisons *)

\* Comparing by halves of the field is comparing signed values.
LEMMA ComparisonsAre ==
    ASSUME IsGoldilocks, NEW a \in Element, NEW b \in Element
    PROVE  /\ lt(a, b) <=> val(a) < val(b)
           /\ leq(a, b) <=> val(a) <= val(b)
           /\ gt(a, b) <=> val(a) > val(b)
           /\ geq(a, b) <=> val(a) >= val(b)
  <1> DEFINE p == Prime
             h == half
  <1>1. /\ p \in Nat /\ h \in Nat /\ p = 2 * h + 1 /\ a \in 0..p - 1 /\ b \in 0..p - 1
        /\ Top = h
    BY Sizes DEF Element
  <1>2. /\ val(a) = IF h + 1 <= a THEN a - p ELSE a
        /\ val(b) = IF h + 1 <= b THEN b - p ELSE b
    BY <1>1 DEF val
  <1>3. /\ lt(a, b) <=> IF a <= h THEN b <= h /\ a < b ELSE b <= h \/ a < b
        /\ leq(a, b) <=> IF a <= h THEN b <= h /\ a <= b ELSE b <= h \/ a <= b
        /\ gt(a, b) <=> IF a <= h THEN b <= h => a > b ELSE b > h /\ a > b
        /\ geq(a, b) <=> IF a <= h THEN b <= h => a >= b ELSE b > h /\ a >= b
    BY Zenon DEF lt, leq, gt, geq
  <1> HIDE DEF p, h
  <1>4. CASE a <= h /\ b <= h
    BY <1>1, <1>2, <1>3, <1>4
  <1>5. CASE a <= h /\ ~(b <= h)
    BY <1>1, <1>2, <1>3, <1>5
  <1>6. CASE ~(a <= h) /\ b <= h
    BY <1>1, <1>2, <1>3, <1>6
  <1>7. CASE ~(a <= h) /\ ~(b <= h)
    BY <1>1, <1>2, <1>3, <1>7
  <1> QED  BY <1>4, <1>5, <1>6, <1>7

-----------------------------------------------------------------------------
(* The operators *)

\* The operators that are not about the bits of a number.
Arithmetic == {"Add", "Sub", "Mul", "Div", "IntDiv", "Mod", "Pow", "PrefixSub"}
Comparison == {"Eq", "NotEq", "Lesser", "LesserEq", "Greater", "GreaterEq"}
Boolean    == {"BoolOr", "BoolAnd", "BoolNot"}

\* The arithmetic operators of the generated program are those of the compiler.
THEOREM GoldilocksArithmetic ==
    ASSUME IsGoldilocks, IsPrime, NEW op \in Arithmetic,
           NEW a \in Element, NEW b \in Element, Defined(op, b)
    PROVE  Apply(op, a, b) = Result(op, a, b) /\ Apply(op, a, b) \in Element
  <1>p. Prime \in Nat \ {0, 1} /\ a \in Nat /\ b \in Nat /\ a \in Int /\ b \in Int
    BY Sizes DEF Element
  <1>1. CASE op = "Add"
    BY <1>1, AddIs DEF Apply, Result
  <1>2. CASE op = "Sub"
    BY <1>2, SubIs DEF Apply, Result
  <1>3. CASE op = "Mul"
    BY <1>3, MulIs DEF Apply, Result
  <1>4. CASE op = "Div"
    <2>1. b # 0
      BY <1>4 DEF Defined
    <2>2. mod_inverse(b) \in Element
      BY <2>1, InverseIs
    <2> QED  BY <1>4, <2>2, MulIs DEF Apply, Result
  <1>5. CASE op \in {"IntDiv", "Mod"}
    <2>1. b # 0
      BY <1>5 DEF Defined
    <2>2. a \div b \in Element /\ a % b \in Element
      BY <1>p, <2>1, DivisionIs
    <2> QED  BY <1>5, <2>2 DEF Apply, Result
  <1>6. CASE op = "Pow"
    <2>1. power(a, b) = pow(a, b) /\ pow(a, b) \in Element
      BY <1>p, PowerIs, PowInField
    <2> QED  BY <1>6, <2>1 DEF Apply, Result
  <1>7. CASE op = "PrefixSub"
    BY <1>7, SubIs DEF Apply, Result
  <1> QED  BY <1>1, <1>2, <1>3, <1>4, <1>5, <1>6, <1>7 DEF Arithmetic

\* A program compares elements as the compiler does, by their signed values.
THEOREM GoldilocksComparisons ==
    ASSUME IsGoldilocks, NEW op \in Comparison, NEW a \in Element, NEW b \in Element
    PROVE  Apply(op, a, b) = Result(op, a, b)
  <1>1. CASE op \in {"Eq", "NotEq"}
    BY <1>1 DEF Apply, Result
  <1>2. CASE op \in {"Lesser", "LesserEq", "Greater", "GreaterEq"}
    BY <1>2, ComparisonsAre DEF Apply, Result, TruthValue
  <1> QED  BY <1>1, <1>2 DEF Comparison

\* The boolean operators take every number but 0 as true, as the compiler does.
THEOREM GoldilocksBooleans ==
    ASSUME NEW op \in Boolean, NEW a, NEW b
    PROVE  Apply(op, a, b) = Result(op, a, b)
  <1>1. CASE op = "BoolOr"
    <2>1. ~(a = 0 /\ b = 0) <=> a # 0 \/ b # 0
      OBVIOUS
    <2> QED  BY <1>1, <2>1 DEF Apply, Result, TruthValue
  <1>2. CASE op = "BoolAnd"
    <2>1. ~(a = 0 \/ b = 0) <=> a # 0 /\ b # 0
      OBVIOUS
    <2> QED  BY <1>2, <2>1 DEF Apply, Result, TruthValue
  <1>3. CASE op = "BoolNot"
    BY <1>3 DEF Apply, Result
  <1> QED  BY <1>1, <1>2, <1>3 DEF Boolean

\* The operators on the bits of a number: a word has as many bits as the prime,
\* so what is left is to subtract the prime once.
LEMMA OnePrimeLess ==
    ASSUME IsGoldilocks, NEW n \in 0..Word - 1
    PROVE  LessPrime(n) = n % Prime /\ LessPrime(n) \in Element
  <1> DEFINE p == Prime
  <1>1. /\ p \in Nat \ {0} /\ p > 2 /\ p < Word /\ Word \in Nat /\ Element = 0..p - 1
        /\ Word = TwoTo[qbits]
    BY Sizes DEF Element, IsGoldilocks
  <1>2. Word <= 2 * p
    BY <1>1, QbitsIs
  <1> HIDE DEF p
  <1>3. CASE n < p
    <2>0. n \in 0..p - 1 /\ n \in Int
      BY <1>1, <1>3
    <2>1. n % p = n
      BY <1>1, <2>0, ModSmall
    <2> QED  BY <1>1, <1>3, <2>0, <2>1 DEF LessPrime, p
  <1>4. CASE ~(n < p)
    <2>1. n \in p..2 * p - 1 /\ n \in Int /\ n - p \in 0..Word - 1 /\ n - p \in 0..p - 1
      BY <1>1, <1>2, <1>4
    <2>2. n % p = n - p
      BY <1>1, <2>1, ModSmall
    <2>3. W(n - p) = n - p
      BY <2>1, Fits
    <2> QED  BY <1>1, <1>4, <2>1, <2>2, <2>3 DEF LessPrime, p
  <1> QED  BY <1>3, <1>4

\* A number with bits of two elements fits in a word.
LEMMA BitsFit ==
    ASSUME IsGoldilocks, NEW a \in Element, NEW b \in Element,
           NEW S, S \subseteq Bits(a) \cup Bits(b)
    PROVE  Number(S) \in 0..Word - 1
  <1>1. /\ Prime \in Nat /\ Prime > 2 /\ a \in 0..Prime - 1 /\ b \in 0..Prime - 1
        /\ Word = TwoTo[qbits] /\ Prime < Word /\ Word \in Nat
    BY Sizes DEF Element, IsGoldilocks
  <1>2. a \in 0..TwoTo[qbits] - 1 /\ b \in 0..TwoTo[qbits] - 1 /\ qbits \in 0..qbits
    BY <1>1, QbitsIs
  <1>3. Bits(a) \cap (qbits..qbits) = {} /\ Bits(b) \cap (qbits..qbits) = {}
    BY <1>1, <1>2, BitsBelow
  <1>4. S \cap (qbits..qbits) = {}
    BY <1>3
  <1> QED  BY <1>1, <1>2, <1>4, NumberSize

Bitwise == {"BitOr", "BitAnd", "BitXor", "Complement"}

\* The operations on bits are those of the compiler.
THEOREM GoldilocksBits ==
    ASSUME IsGoldilocks, NEW op \in Bitwise, NEW a \in Element, NEW b \in Element
    PROVE  Apply(op, a, b) = Result(op, a, b) /\ Apply(op, a, b) \in Element
  <1>1. /\ Prime \in Nat /\ Prime > 2 /\ a \in 0..Prime - 1 /\ b \in 0..Prime - 1
        /\ Word = TwoTo[qbits] /\ Prime < Word /\ Word \in Nat
    BY Sizes DEF Element, IsGoldilocks
  <1>2. CASE op = "BitOr"
    <2>1. Number(Bits(a) \cup Bits(b)) \in 0..Word - 1
      BY BitsFit
    <2> QED  BY <1>2, <2>1, OnePrimeLess DEF Apply, Result, bit_or
  <1>3. CASE op = "BitXor"
    <2>1. Number(Xor(Bits(a), Bits(b))) \in 0..Word - 1
      <3>1. Xor(Bits(a), Bits(b)) \subseteq Bits(a) \cup Bits(b)
        BY DEF Xor
      <3> QED  BY <3>1, BitsFit
    <2> QED  BY <1>3, <2>1, OnePrimeLess DEF Apply, Result, bit_xor
  <1>4. CASE op = "BitAnd"
    <2> DEFINE n == Number(Bits(a) \cap Bits(b))
    <2>1. n \in 0..Word - 1
      BY BitsFit
    <2>2. n <= a
      <3>1. a \in 0..TwoTo[qbits] - 1
        BY <1>1
      <3>2. Number(Bits(a)) = a
        BY <1>1, <3>1, BitsOfNumber
      <3>3. n <= Number(Bits(a))
        BY <1>1, NumberGrows
      <3> QED  BY <3>2, <3>3
    <2> HIDE DEF n
    <2>3. n \in 0..Prime - 1 /\ n \in Int /\ Prime \in Nat \ {0}
      BY <1>1, <2>1, <2>2
    <2>4. n % Prime = n
      BY <2>3, ModSmall
    <2> QED  BY <1>4, <2>3, <2>4 DEF Apply, Result, bit_and, n, Element
  <1>5. CASE op = "Complement"
    <2>1. a \in 0..TwoTo[qbits] - 1
      BY <1>1
    <2>2. Number((0..qbits - 1) \ Bits(a)) = Word - 1 - a
      BY <1>1, <2>1, OtherBits
    <2>3. Word - 1 - a \in 0..Word - 1
      BY <1>1
    <2> QED  BY <1>5, <2>2, <2>3, OnePrimeLess DEF Apply, Result, complement
  <1> QED  BY <1>2, <1>3, <1>4, <1>5 DEF Bitwise

Shifts == {"ShiftL", "ShiftR"}

\* The shifts, to either side and by any amount, are those of the compiler.
THEOREM GoldilocksShifts ==
    ASSUME IsGoldilocks, NEW op \in Shifts, NEW a \in Element, NEW b \in Element
    PROVE  Apply(op, a, b) = Result(op, a, b) /\ Apply(op, a, b) \in Element
  <1>1. /\ Prime \in Nat /\ Prime > 2 /\ a \in 0..Prime - 1 /\ a \in Nat /\ b \in 0..Prime - 1
        /\ Word = TwoTo[qbits] /\ Word \in Nat \ {0} /\ half = Top /\ half \in Nat /\ Element = 0..Prime - 1
    BY Sizes DEF Element, IsGoldilocks
  <1>2. qbits \in 2..Prime - 1
    BY <1>1, QbitsIs
  <1>3. ASSUME NEW n \in Nat
        PROVE  /\ ShiftL(a, n) = ShiftedLeft(a, n) /\ ShiftL(a, n) \in Element
               /\ ShiftR(a, n) = ShiftedRight(a, n) /\ ShiftR(a, n) \in Element
    <2>1. CASE n >= qbits
      <3>1. ShiftL(a, n) = 0 /\ ShiftedLeft(a, n) = 0 /\ ShiftR(a, n) = 0 /\ ShiftedRight(a, n) = 0
        BY <2>1 DEF ShiftL, ShiftR, ShiftedLeft, ShiftedRight
      <3> QED  BY <1>1, <3>1
    <2>2. CASE ~(n >= qbits)
      <3> DEFINE t == TwoTo[n]
                 v == a * t
                 w == Word
      <3>1. n \in 0..Prime
        BY <1>1, <1>2, <2>2
      <3>2. t \in Nat \ {0}
        BY <1>1, <3>1, TwoToIs
      <3>3. /\ ShiftL(a, n) = LessPrime(v % w) /\ ShiftedLeft(a, n) = (v % w) % Prime
            /\ ShiftR(a, n) = a \div t /\ ShiftedRight(a, n) = a \div t
        BY <1>1, <2>2 DEF ShiftL, ShiftR, ShiftedLeft, ShiftedRight, W
      <3>4. v \in Int
        <4> HIDE DEF t
        <4> QED  BY <1>1, <3>2
      <3> HIDE DEF t, v
      <3>5. v % w \in 0..w - 1
        <4> HIDE DEF w
        <4>1. w \in Nat \ {0}
          BY <1>1 DEF w
        <4> QED  BY <3>4, <4>1, DivMod
      <3>6. LessPrime(v % w) = (v % w) % Prime /\ LessPrime(v % w) \in Element
        BY <3>5, OnePrimeLess
      <3>7. a \div t \in 0..a
        BY <1>1, <3>2, DivSmall
      <3>8. a \div t \in Element
        <4> DEFINE d == a \div t
        <4> HIDE DEF d
        <4>1. d \in 0..a
          BY <3>7 DEF d
        <4>2. d \in 0..Prime - 1
          BY <1>1, <4>1
        <4> QED  BY <1>1, <4>2 DEF d
      <3> QED  BY <3>3, <3>6, <3>8
    <2> QED  BY <2>1, <2>2
  <1>4. b \in Nat /\ Prime - b \in Nat /\ (b > half <=> ~(b <= Top))
    BY <1>1
  <1>5. CASE op = "ShiftL"
    <2>1. /\ Apply(op, a, b) = IF b > half THEN ShiftR(a, Prime - b) ELSE ShiftL(a, b)
          /\ Result(op, a, b) = IF b <= Top THEN ShiftedLeft(a, b) ELSE ShiftedRight(a, Prime - b)
      BY <1>5 DEF Apply, Result, shl, shift_l
    <2> QED  BY <1>3, <1>4, <2>1
  <1>6. CASE op = "ShiftR"
    <2>1. /\ Apply(op, a, b) = IF b > half THEN ShiftL(a, Prime - b) ELSE ShiftR(a, b)
          /\ Result(op, a, b) = IF b <= Top THEN ShiftedRight(a, b) ELSE ShiftedLeft(a, Prime - b)
      BY <1>6 DEF Apply, Result, shr, shift_r
    <2> QED  BY <1>3, <1>4, <2>1
  <1> QED  BY <1>5, <1>6 DEF Shifts

\* A small number, positive or negative, becomes that int.
THEOREM GoldilocksInts ==
    ASSUME IsGoldilocks, NEW a \in Element, val(a) \in -ShortSize + 1..ShortSize - 1
    PROVE  toInt(a) = val(a)
  <1> DEFINE m == ShortSize
             p == Prime
  <1>1. /\ p \in Nat /\ p > 2 /\ a \in 0..p - 1 /\ half = Top /\ half \in Nat
    BY Sizes DEF Element
  <1>2. m \in Nat \ {0}
    <2> DEFINE k == ShortBits - 1
    <2>1. k \in 0..qbits /\ qbits \in 2..p - 1 /\ m = TwoTo[k]
      BY <1>1, QbitsIs DEF IsGoldilocks, ShortSize
    <2> HIDE DEF k, m
    <2>2. k \in 0..p
      BY <1>1, <2>1
    <2> QED  BY <1>1, <2>1, <2>2, TwoToIs
  <1> HIDE DEF m
  <1>3. ASSUME NEW n \in 0..m - 1
        PROVE  AsInt(n) = n
    <2>1. 2 * m \in Nat \ {0} /\ n \in 0..2 * m - 1 /\ n \in Int
      BY <1>2
    <2>2. n % (2 * m) = n
      BY <2>1, ModSmall
    <2>3. ~(n >= m)
      BY <1>2
    <2> QED  BY <2>2, <2>3 DEF AsInt, m
  <1>4. val(a) \in -m + 1..m - 1 /\ val(a) = IF a >= half + 1 THEN a - p ELSE a
    BY <1>1 DEF val, m
  <1>5. toInt(a) = IF a > half THEN -AsInt(p - a) ELSE AsInt(a)
    BY DEF toInt
  <1> HIDE DEF p
  <1>6. CASE a > half
    <2>1. val(a) = a - p /\ p - a \in 0..m - 1
      BY <1>1, <1>2, <1>4, <1>6
    <2> QED  BY <1>1, <1>3, <1>5, <1>6, <2>1
  <1>7. CASE ~(a > half)
    <2>1. val(a) = a /\ a \in 0..m - 1
      BY <1>1, <1>2, <1>4, <1>7
    <2> QED  BY <1>3, <1>5, <1>7, <2>1
  <1> QED  BY <1>6, <1>7

\* Every operator of the language computes what the compiler computes.
THEOREM GoldilocksAgrees ==
    ASSUME IsGoldilocks, IsPrime, NEW op \in Operators, NEW a \in Element, NEW b \in Element,
           Defined(op, b)
    PROVE  Apply(op, a, b) = Result(op, a, b) /\ Apply(op, a, b) \in Element
  <1>1. op \in Arithmetic \cup Comparison \cup Boolean \cup Bitwise \cup Shifts
    BY DEF Operators, Unary, Arithmetic, Comparison, Boolean, Bitwise, Shifts
  <1>2. CASE op \in Comparison \cup Boolean
    <2>1. Apply(op, a, b) = Result(op, a, b)
      BY <1>2, GoldilocksComparisons, GoldilocksBooleans
    <2>2. Result(op, a, b) \in {0, 1}
      BY <1>2 DEF Comparison, Boolean, Result, TruthValue
    <2>3. 0 \in Element /\ 1 \in Element
      BY Sizes DEF Element
    <2> QED  BY <2>1, <2>2, <2>3
  <1> QED  BY <1>1, <1>2, GoldilocksArithmetic, GoldilocksBits, GoldilocksShifts
=============================================================================
