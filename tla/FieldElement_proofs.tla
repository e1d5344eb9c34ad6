------------------------- MODULE FieldElement_proofs -------------------------
(***************************************************************************)
(* Proofs about FieldElement, for every prime, size of words and number of *)
(* limbs: Montgomery's product is the product divided by R, and in every   *)
(* representation of its operands an operation computes what the compiler  *)
(* computes.                                                               *)
(*                                                                         *)
(* Montgomery's product rests on an invariant of its loop over the limbs:  *)
(* with the limbs of a up to i added, what is carried to the next limb     *)
(* stays below b + Prime, and times Word^(i+1) it is those limbs of a      *)
(* times b, up to a multiple of the prime.                                 *)
(***************************************************************************)
EXTENDS FieldElement, FieldArithmetic_proofs

-----------------------------------------------------------------------------
(* Words *)

\* The equations of the powers.
LEMMA WordToIs ==
    ASSUME FitsLimbs
    PROVE  /\ WordTo[0] = 1
           /\ \A i \in 1..Limbs : WordTo[i] = Word * WordTo[i - 1]
           /\ \A i \in 0..Limbs : WordTo[i] \in Nat \ {0}
  <1>1. Limbs \in Nat /\ Word \in Nat \ {0}
    BY DEF FitsLimbs
  <1>2. PowerTable(Word, WordTo, Limbs)
    BY <1>1, PowerTableExists, ZenonT(40) DEF PowerTable, WordTo
  <1> QED  BY <1>1, <1>2, PowerTableIs

\* The numbers that the proofs are about.
LEMMA Sizes ==
    ASSUME FitsLimbs
    PROVE  /\ Prime \in Nat \ {0, 1} /\ Capacity \in Nat \ {0} /\ Prime <= Capacity
           /\ Word \in Nat \ {0, 1} /\ Limbs \in Nat \ {0} /\ Limbs - 1 \in 0..Limbs
           /\ Wide \in Nat \ {0} /\ Wide = Capacity * Word
           /\ Element = 0..Prime - 1 /\ Element \subseteq 0..Capacity - 1
           /\ np \in Int /\ (np * Prime) % Word = Word - 1
  <1>1. Limbs \in 0..Limbs /\ Limbs - 1 \in 0..Limbs
    BY DEF FitsLimbs
  <1>2. Capacity \in Nat \ {0}
    BY <1>1, WordToIs DEF Capacity
  <1>3. Wide \in Nat \ {0}
    BY <1>2 DEF Wide, FitsLimbs
  <1>4. /\ Prime \in Nat \ {0, 1} /\ Prime <= Capacity /\ Word \in Nat \ {0, 1} /\ Limbs \in Nat \ {0}
        /\ np \in Int /\ (np * Prime) % Word = Word - 1
    BY DEF FitsLimbs
  <1> QED  BY <1>1, <1>2, <1>3, <1>4 DEF Wide, Element

-----------------------------------------------------------------------------
(* Sums and differences *)

\* A number that fits in the limbs, and one too large or too small by less than
\* the capacity.
LEMMA InLimbs ==
    ASSUME FitsLimbs, NEW n \in Int
    PROVE  /\ n \in 0..Capacity - 1 => n % Capacity = n
           /\ n \in Capacity..2 * Capacity - 1 => n % Capacity = n - Capacity
           /\ n \in -Capacity..-1 => n % Capacity = n + Capacity
  <1> DEFINE c == Capacity
  <1>1. c \in Nat \ {0}
    BY Sizes
  <1> HIDE DEF c
  <1>2. /\ n \in 0..c - 1 => n % c = n
        /\ n \in c..2 * c - 1 => n % c = n - c
        /\ n \in -c..-1 => n % c = n + c
    BY <1>1, ModSmall
  <1> QED  BY <1>2 DEF c

\* Subtracting the prime once is enough for a number below twice the prime.
LEMMA LessPrimeIs ==
    ASSUME FitsLimbs, NEW n \in 0..2 * Prime - 1
    PROVE  /\ LessPrime(n >= Capacity, n % Capacity) \in Element
           /\ LessPrime(n >= Capacity, n % Capacity) = n % Prime
  <1> DEFINE c == Capacity
             p == Prime
             r == n % c
  <1>1. p \in Nat \ {0} /\ c \in Nat \ {0} /\ p <= c /\ n \in 0..2 * p - 1 /\ n \in Int
    BY Sizes
  <1>2. /\ n \in 0..c - 1 => r = n
        /\ n \in c..2 * c - 1 => r = n - c
    BY <1>1, InLimbs
  <1>3. /\ n \in 0..p - 1 => n % p = n
        /\ n \in p..2 * p - 1 => n % p = n - p
    <2> HIDE DEF p
    <2> QED  BY <1>1, ModSmall
  <1> HIDE DEF c, p, r
  <1>4. ASSUME n < p
        PROVE  LessPrime(n >= c, r) = n % p
    <2>1. r = n /\ ~(n >= c \/ r >= p)
      BY <1>1, <1>2, <1>4
    <2>2. LessPrime(n >= c, r) = n
      BY <2>1 DEF LessPrime, p
    <2> QED  BY <1>1, <1>3, <1>4, <2>2
  <1>5. ASSUME n >= p /\ n < c
        PROVE  LessPrime(n >= c, r) = n % p
    <2>1. r = n /\ r >= p /\ r - p \in 0..c - 1
      BY <1>1, <1>2, <1>5
    <2>2. LessPrime(n >= c, r) = (r - p) % c
      BY <2>1 DEF LessPrime, p, c
    <2>3. (r - p) % c = r - p
      BY <1>1, <2>1, InLimbs DEF c
    <2> QED  BY <1>1, <1>3, <1>5, <2>1, <2>2, <2>3
  <1>6. ASSUME n >= c
        PROVE  LessPrime(n >= c, r) = n % p
    <2>1. r = n - c /\ r - p \in -c..-1 /\ r - p + c = n - p
      BY <1>1, <1>2, <1>6
    <2>2. LessPrime(n >= c, r) = (r - p) % c
      BY <1>6 DEF LessPrime, p, c
    <2>3. (r - p) % c = n - p
      BY <1>1, <2>1, InLimbs DEF c
    <2> QED  BY <1>1, <1>3, <1>6, <2>2, <2>3
  <1>7. LessPrime(n >= c, r) = n % p /\ n % p \in 0..p - 1
    <2>1. n % p \in 0..p - 1
      BY <1>1, DivMod
    <2> QED  BY <1>1, <1>4, <1>5, <1>6, <2>1
  <1> QED  BY <1>7 DEF c, p, r, Element

\* Sums of elements.
LEMMA RawAddIs ==
    ASSUME FitsLimbs, NEW a \in Element, NEW b \in Element
    PROVE  rawAdd(a, b) \in Element /\ rawAdd(a, b) = (a + b) % Prime
  <1>1. a + b \in 0..2 * Prime - 1
    BY Sizes, SMTT(30)
  <1> QED  BY <1>1, LessPrimeIs DEF rawAdd

\* Differences and negatives of elements.
LEMMA RawSubIs ==
    ASSUME FitsLimbs, NEW a \in Element, NEW b \in Element
    PROVE  /\ rawSub(a, b) \in Element /\ rawSub(a, b) = (a - b) % Prime
           /\ rawNeg(a) \in Element /\ rawNeg(a) = (-a) % Prime
  <1> DEFINE c == Capacity
             p == Prime
             d == a - b
             m == -a
  <1>1. /\ p \in Nat \ {0} /\ c \in Nat \ {0} /\ p <= c
        /\ a \in 0..p - 1 /\ b \in 0..p - 1 /\ d \in Int /\ m \in Int /\ d = a - b /\ m = -a
    BY Sizes
  <1> HIDE DEF d, m, p
  <1>2. /\ d \in 0..p - 1 => d % p = d
        /\ d \in -p..-1 => d % p = d + p
        /\ m \in 0..p - 1 => m % p = m
        /\ m \in -p..-1 => m % p = m + p
        /\ d % p \in 0..p - 1 /\ m % p \in 0..p - 1
    BY <1>1, ModSmall
  <1>3. rawSub(a, b) = d % p
    <2>1. CASE a < b
      <3>1. d % c = d + c
        BY <1>1, <2>1, InLimbs
      <3>2. d + c + p \in c..2 * c - 1 /\ d + c + p \in Int
        BY <1>1, <2>1
      <3> DEFINE n == d + c + p
      <3>3. n % c = n - c
        <4>1. n \in c..2 * c - 1 /\ n \in Int
          BY <3>2
        <4> HIDE DEF n
        <4> QED  BY <4>1, InLimbs
      <3>4. rawSub(a, b) = ((d % c) + p) % c
        BY <2>1 DEF rawSub, d, p
      <3>5. rawSub(a, b) = d + p
        BY <1>1, <3>1, <3>3, <3>4
      <3> QED  BY <1>1, <1>2, <2>1, <3>5
    <2>2. CASE ~(a < b)
      <3>1. rawSub(a, b) = d /\ d \in 0..p - 1
        BY <1>1, <2>2 DEF rawSub
      <3> QED  BY <1>2, <3>1
    <2> QED  BY <2>1, <2>2
  <1>4. rawNeg(a) = m % p
    <2>1. CASE a = 0
      BY <1>1, <1>2, <2>1 DEF rawNeg
    <2>2. CASE a # 0
      <3>1. m \in -p..-1 /\ p - a \in 0..c - 1 /\ p - a \in Int /\ p - a = m + p
        BY <1>1, <2>2
      <3>2. (p - a) % c = p - a
        BY <3>1, InLimbs
      <3> QED  BY <1>2, <2>2, <3>1, <3>2 DEF rawNeg, p
    <2> QED  BY <2>1, <2>2
  <1> QED  BY <1>2, <1>3, <1>4 DEF p, d, m, Element

\* Minus an element minus a positive number.
LEMMA RawNegLSIs ==
    ASSUME FitsLimbs, NEW a \in Element, NEW b \in Element, b # 0
    PROVE  rawNegLS(a, b) \in Element /\ rawNegLS(a, b) = (-a - b) % Prime
  <1> DEFINE c == Capacity
             p == Prime
             n == -a - b
             first == (p - b) % c
             second == (first - a) % c
  <1>1. /\ p \in Nat \ {0} /\ c \in Nat \ {0} /\ p <= c
        /\ a \in 0..p - 1 /\ b \in 1..p - 1 /\ n \in Int /\ n = -a - b
    BY Sizes, SMTT(30)
  <1>2. rawNegLS(a, b) = IF p < b \/ first < a THEN (second + p) % c ELSE second
    BY DEF rawNegLS
  <1> HIDE DEF n, p
  <1>3. n % p \in 0..p - 1
    BY <1>1, ModSmall
  <1>4. p - b \in 0..c - 1 /\ p - b \in Int
    BY <1>1
  <1>5. first = p - b
    BY <1>4, InLimbs
  <1> HIDE DEF first
  <1>6. CASE first < a
    <2>1. first - a \in -c..-1 /\ first - a \in Int
      BY <1>1, <1>5, <1>6
    <2>2. second = first - a + c
      BY <2>1, InLimbs
    <2> HIDE DEF second
    <2>3. second + p \in c..2 * c - 1 /\ second + p \in Int
      BY <1>1, <1>5, <1>6, <2>2
    <2> DEFINE m == second + p
    <2>4. m % c = m - c
      <3>1. m \in c..2 * c - 1 /\ m \in Int
        BY <2>3
      <3> HIDE DEF m
      <3> QED  BY <3>1, InLimbs
    <2>5. rawNegLS(a, b) = n + p + p /\ n + p + p \in 0..p - 1
      BY <1>1, <1>2, <1>5, <1>6, <2>2, <2>4
    <2>6. n + p + p = n + p * 2
      BY <1>1
    <2>7. n % p = n + p + p
      BY <1>1, <2>5, <2>6, ModOfSame
    <2> QED  BY <2>5, <2>7 DEF p, n, Element
  <1>7. CASE ~(first < a)
    <2>1. first - a \in 0..c - 1 /\ first - a \in Int
      BY <1>1, <1>5, <1>7
    <2>2. second = first - a
      BY <2>1, InLimbs
    <2> HIDE DEF second
    <2>3. rawNegLS(a, b) = n + p /\ n \in -p..-1
      BY <1>1, <1>2, <1>5, <1>7, <2>2
    <2>4. n % p = n + p
      BY <1>1, <2>3, ModSmall
    <2> QED  BY <1>3, <2>3, <2>4 DEF p, n, Element
  <1> QED  BY <1>6, <1>7

-----------------------------------------------------------------------------
(* Montgomery's product *)

\* A positive factor keeps and reflects the order.
LEMMA FactorOrder ==
    ASSUME NEW m \in Nat \ {0}, NEW x \in Int, NEW y \in Int
    PROVE  (m * x < m * y <=> x < y) /\ (m * x <= m * y <=> x <= y)
  <1>1. /\ y - x > 0 => m * (y - x) >= m
        /\ x - y > 0 => m * (x - y) >= m
    BY AtLeast
  <1>2. m * (y - x) = m * y - m * x /\ m * (x - y) = m * x - m * y /\ m * x \in Int /\ m * y \in Int
    OBVIOUS
  <1> QED  BY <1>1, <1>2

\* The multiple of the prime that is added clears the lowest limb.
LEMMA ClearedIs ==
    ASSUME FitsLimbs, NEW t \in Nat
    PROVE  \E m \in 0..Word - 1, c \in Int :
              Cleared(t) = t + Prime * m /\ Cleared(t) = Word * c /\ Cleared(t) \div Word = c
  <1> DEFINE w == Word
             p == Prime
             s == t % w
             m == (np * s) % w
  <1>1. w \in Nat \ {0} /\ p \in Nat /\ np \in Int /\ (np * p) % w = w - 1 /\ np * p \in Int
    BY Sizes
  <1> HIDE DEF w, p
  <1>2. s \in 0..w - 1 /\ t \div w \in Int /\ t = w * (t \div w) + s
    BY <1>1, DivMod
  <1> HIDE DEF s
  <1>3. m \in 0..w - 1 /\ \E k \in Int : m = np * s + w * k
    <2>1. np * s \in Int
      BY <1>1, <1>2
    <2> QED  BY <1>1, <2>1, DivMod, ModDiffers
  <1>4. PICK k \in Int : m = np * s + w * k
    BY <1>3
  <1>5. PICK j \in Int : np * p = w * j + w - 1
    BY <1>1, DivMod
  <1> HIDE DEF m
  <1> DEFINE q == t \div w
             c == q + (j + 1) * s + p * k
  <1>6. p * m = (np * p) * s + w * (p * k)
    BY <1>1, <1>2, <1>3, <1>4
  <1>7. (np * p) * s = w * ((j + 1) * s) - s
    BY <1>1, <1>2, <1>5
  <1>8. q \in Int /\ t = w * q + s
    BY <1>2
  <1> HIDE DEF q
  <1>9. c \in Int /\ w * c = w * q + w * ((j + 1) * s) + w * (p * k)
    BY <1>1, <1>2, <1>8
  <1> HIDE DEF c
  <1>10. t + p * m = w * c
    BY <1>1, <1>2, <1>3, <1>6, <1>7, <1>8, <1>9
  <1>11. (w * c) \div w = c
    <2>1. 0 \in 0..w - 1 /\ w * c + 0 = w * c
      BY <1>1, <1>9
    <2> QED  BY <1>1, <1>9, <2>1, ModUnique
  <1>12. Cleared(t) = t + p * m
    BY DEF Cleared, p, m, s, w
  <1> QED  BY <1>3, <1>9, <1>10, <1>11, <1>12 DEF p, w

\* A number is the limbs below the i-th and the i-th limb.
LEMMA LimbIs ==
    ASSUME FitsLimbs, NEW a \in Int, NEW i \in 0..Limbs - 1
    PROVE  /\ Limb(a, i) \in 0..Word - 1
           /\ a % WordTo[i + 1] = (a % WordTo[i]) + WordTo[i] * Limb(a, i)
           /\ a % WordTo[i] \in Int
  <1> DEFINE w == Word
             v == WordTo[i]
             q == a \div v
             r == a % v
             s == q \div w
             l == q % w
  <1>1. w \in Nat \ {0} /\ v \in Nat \ {0} /\ WordTo[i + 1] = w * v
    <2>1. i \in 0..Limbs /\ i + 1 \in 1..Limbs /\ (i + 1) - 1 = i /\ Limbs \in Nat
      BY Sizes
    <2> QED  BY <2>1, Sizes, WordToIs
  <1>2. q \in Int /\ r \in 0..v - 1 /\ a = v * q + r
    BY <1>1, DivMod
  <1>3. s \in Int /\ l \in 0..w - 1 /\ q = w * s + l
    BY <1>1, <1>2, DivMod
  <1>4. Limb(a, i) = l
    BY DEF Limb
  <1> HIDE DEF w, v, q, r, s, l
  <1> DEFINE u == w * v
             n == r + v * l
  <1>5. u \in Nat \ {0}
    BY <1>1
  <1>6. a = u * s + n
    BY <1>1, <1>2, <1>3
  <1>7. n \in 0..u - 1
    <2>1. v * l \in Int /\ v * (w - 1) \in Int /\ v * l >= 0 /\ v * l <= v * (w - 1)
      BY <1>1, <1>3
    <2>2. v * (w - 1) = u - v
      BY <1>1
    <2> QED  BY <1>1, <1>2, <1>5, <2>1, <2>2
  <1>8. a % u = n
    <2> HIDE DEF u, n
    <2> QED  BY <1>3, <1>5, <1>6, <1>7, ModUnique
  <1> QED  BY <1>1, <1>2, <1>3, <1>4, <1>8 DEF w, v, r

\* One step of the loop over the limbs, and the sums of the first n + 1 steps.
Added(f, a, b, i) ==
    LET sum == b * Limb(a, i) + Kept(Cleared(f[i - 1])) \div Word
    IN  IF i = 0 THEN b * Limb(a, i)
        ELSE IF cannotOptimize /\ i = Limbs - 1 THEN sum ELSE sum % Wide
Sums(f, a, b, n) == f = [i \in 0..n |-> Added(f, a, b, i)]

\* The recursion that stands for the loop has a solution.
LEMMA SumsExist ==
    ASSUME NEW a, NEW b, NEW n \in Nat
    PROVE  \E f : Sums(f, a, b, n)
  <1> DEFINE S == {m \in Nat : ~ \E f : Sums(f, a, b, m)}
  <1> SUFFICES ASSUME S # {}  PROVE  FALSE
    OBVIOUS
  <1>1. PICK m \in S : \A j \in S : m <= j
    BY HasLeast
  <1>2. CASE m = 0
    <2> DEFINE f == [i \in 0..m |-> b * Limb(a, i)]
    <2>1. \A i \in 0..m : i = 0
      BY <1>2
    <2>2. \A i \in 0..m : Added(f, a, b, i) = b * Limb(a, i)
      BY <2>1 DEF Added
    <2>3. Sums(f, a, b, m)
      BY <2>2 DEF Sums
    <2> QED  BY <1>1, <2>3
  <1>3. CASE m # 0
    <2>1. m \in Nat /\ m - 1 \in Nat /\ m - 1 \notin S
      BY <1>1, <1>3
    <2>2. PICK f : Sums(f, a, b, m - 1)
      BY <2>1
    <2> DEFINE g == [i \in 0..m |-> IF i = m THEN Added(f, a, b, m) ELSE f[i]]
    <2>3. \A i \in 0..m : i # 0 => g[i - 1] = f[i - 1]
      BY <2>1
    <2>4. ASSUME NEW i \in 0..m  PROVE  Added(g, a, b, i) = Added(f, a, b, i)
      <3> HIDE DEF g
      <3>1. CASE i = 0
        BY <3>1 DEF Added
      <3>2. CASE i # 0
        BY <2>3, <3>2 DEF Added
      <3> QED  BY <3>1, <3>2
    <2>5. ASSUME NEW i \in 0..m  PROVE  g[i] = Added(g, a, b, i)
      <3>1. CASE i = m
        BY <2>4, <3>1
      <3>2. CASE i # m
        <4>1. i \in 0..m - 1 /\ g[i] = f[i]
          BY <3>2, <2>1
        <4>2. f[i] = Added(f, a, b, i)
          BY <4>1, <2>2 DEF Sums
        <4> QED  BY <2>4, <4>1, <4>2
      <3> QED  BY <3>1, <3>2
    <2>6. Sums(g, a, b, m)
      <3>1. g = [i \in 0..m |-> g[i]]
        OBVIOUS
      <3> HIDE DEF g
      <3> QED  BY <3>1, <2>5 DEF Sums
    <2> HIDE DEF g
    <2> QED  BY <1>1, <2>6
  <1> QED  BY <1>2, <1>3

\* What the prime leaves of the limbs when the code is optimized for it.
LEMMA OptimizedRoom ==
    ASSUME FitsLimbs, ~cannotOptimize
    PROVE  2 * Prime <= Capacity
  <1> DEFINE w == Word
             v == WordTo[Limbs - 1]
             p == Prime
             q == p \div v
             r == p % v
             t == w - 1
             h == t \div 2
  <1>1. /\ w \in Nat \ {0, 1} /\ v \in Nat \ {0} /\ p \in Nat /\ Capacity = w * v
    <2>1. Limbs \in 1..Limbs /\ Limbs - 1 \in 0..Limbs
      BY Sizes
    <2> QED  BY <2>1, Sizes, WordToIs DEF Capacity
  <1>4. ~(q > h - 1)
    BY DEF cannotOptimize
  <1> HIDE DEF w, v, p
  <1>2. q \in Int /\ r \in 0..v - 1 /\ p = v * q + r
    <2>1. v \in Nat \ {0} /\ p \in Int
      BY <1>1
    <2> QED  BY <2>1, DivMod
  <1>3. h \in Int /\ t % 2 \in 0..1 /\ t = 2 * h + (t % 2) /\ t = w - 1
    <2>1. t \in Int
      BY <1>1
    <2> HIDE DEF t
    <2>2. t \div 2 \in Int /\ t % 2 \in 0..1 /\ t = 2 * (t \div 2) + (t % 2)
      BY <2>1
    <2> QED  BY <2>1, <2>2 DEF t
  <1> HIDE DEF q, r, h, t
  <1>5. q + 1 <= h /\ 2 * h <= w - 1
    BY <1>2, <1>3, <1>4, <1>1
  <1>6. p <= v * (q + 1)
    BY <1>1, <1>2
  <1>7. v * (q + 1) <= v * h
    BY <1>1, <1>2, <1>3, <1>5, FactorOrder
  <1>8. v * (2 * h) <= v * w
    BY <1>1, <1>3, <1>5, FactorOrder
  <1>9. v * (2 * h) = 2 * (v * h) /\ v * w = w * v /\ v * h \in Int /\ v * w \in Int /\ v * (q + 1) \in Int
    BY <1>1, <1>2, <1>3
  <1> QED  BY <1>1, <1>6, <1>7, <1>8, <1>9 DEF p

\* After step i: c is what is carried to the next limb.
StepDone(f, a, b, i) ==
    \E c \in Int, k \in Int :
        /\ f[i] \in Nat
        /\ Cleared(f[i]) = Word * c /\ Cleared(f[i]) \div Word = c
        /\ c \in 0..b + Prime - 1
        /\ WordTo[i + 1] * c = (a % WordTo[i + 1]) * b + Prime * k

\* A carry below twice the prime is kept.
LEMMA CarryKept ==
    ASSUME FitsLimbs, NEW b \in Element, NEW t \in Int, NEW c \in 0..b + Prime - 1,
           t = Word * c, t \div Word = c
    PROVE  Kept(t) = t /\ Kept(t) \div Word = c
  <1>1. CASE cannotOptimize
    BY <1>1 DEF Kept
  <1>2. CASE ~cannotOptimize
    <2>1. Prime \in Nat /\ Capacity \in Nat /\ Word \in Nat \ {0} /\ b \in 0..Prime - 1 /\ Wide = Capacity * Word
      BY Sizes
    <2>2. c < Capacity /\ c \in Nat
      BY <1>2, <2>1, OptimizedRoom
    <2>3. t \in 0..Wide - 1
      <3>1. Word * c < Word * Capacity /\ Word * c \in Nat /\ Word * Capacity = Capacity * Word
        BY <2>1, <2>2, FactorOrder
      <3> QED  BY <2>1, <3>1
    <2>4. t % Wide = t
      BY <2>3, Sizes, ModSmall
    <2> QED  BY <1>2, <2>4 DEF Kept
  <1> QED  BY <1>1, <1>2

\* The numbers below b * Word + Prime have a place in the sums.
LEMMA SumFits ==
    ASSUME FitsLimbs, HasRoom, NEW b \in Element, NEW t \in Nat, t <= b * Word + Prime - 1
    PROVE  t % Wide = t
  <1> DEFINE w == Word
             c == Capacity
             p == Prime
  <1>1. /\ w \in Nat \ {0} /\ c \in Nat /\ p \in Nat \ {0} /\ b \in 0..p - 1
        /\ Wide = c * w /\ (c - p + 1) * w >= p /\ Wide \in Nat \ {0}
    BY Sizes DEF HasRoom
  <1>2. t <= b * w + p - 1
    OBVIOUS
  <1> HIDE DEF w, c, p
  <1>3. w * b <= w * (p - 1)
    BY <1>1, FactorOrder
  <1>4. (c - p + 1) * w = c * w - w * (p - 1) /\ b * w = w * b /\ w * b \in Int /\ w * (p - 1) \in Int
    BY <1>1
  <1>5. t \in 0..Wide - 1
    BY <1>1, <1>2, <1>3, <1>4
  <1>6. Wide \in Nat \ {0} /\ t \in Int
    BY <1>1
  <1> QED  BY <1>5, <1>6, ModSmall

\* The invariant of the loop.
LEMMA StepsDone ==
    ASSUME FitsLimbs, HasRoom, NEW a \in Element, NEW b \in Element,
           NEW f, Sums(f, a, b, Limbs - 1), NEW i \in 0..Limbs - 1
    PROVE  StepDone(f, a, b, i)
  <1> DEFINE S == {j \in 0..Limbs - 1 : ~StepDone(f, a, b, j)}
  <1> SUFFICES ASSUME S # {}  PROVE  FALSE
    OBVIOUS
  <1>1. PICK n \in S : \A j \in S : n <= j
    <2>1. S \in SUBSET Nat
      OBVIOUS
    <2> HIDE DEF S
    <2> QED  BY <2>1, HasLeast
  <1>2. n \in 0..Limbs - 1 /\ n \in Nat /\ ~StepDone(f, a, b, n)
    BY <1>1
  <1>3. n # 0 => n - 1 \in 0..Limbs - 1 /\ StepDone(f, a, b, n - 1)
    <2>1. n # 0 => n - 1 \in 0..Limbs - 1 /\ n - 1 \notin S
      BY <1>1, <1>2, Sizes, SMTT(30)
    <2> QED  BY <2>1
  <1> HIDE DEF S
  <1> DEFINE w == Word
             p == Prime
             v == WordTo[n]
             l == Limb(a, n)
             x == a % WordTo[n]
  <1>4. /\ w \in Nat \ {0} /\ p \in Nat \ {0} /\ v \in Nat \ {0}
        /\ a \in 0..p - 1 /\ b \in 0..p - 1 /\ a \in Int
        /\ WordTo[n + 1] = w * v /\ (n = 0 => v = 1)
    <2>1. n \in 0..Limbs /\ n + 1 \in 1..Limbs /\ (n + 1) - 1 = n /\ Limbs \in Nat
      BY <1>2, Sizes
    <2> QED  BY <2>1, Sizes, WordToIs
  <1>5. l \in 0..w - 1 /\ a % WordTo[n + 1] = x + v * l /\ x \in Int /\ (n = 0 => x = 0)
    <2>1. l \in 0..w - 1 /\ a % WordTo[n + 1] = x + v * l /\ x \in Int
      BY <1>2, <1>4, LimbIs
    <2>2. n = 0 => x = 0
      <3>1. a % 1 = 0
        BY <1>4
      <3> QED  BY <1>4, <3>1
    <2> QED  BY <2>1, <2>2
  <1>6. f[n] = Added(f, a, b, n)
    BY <1>2 DEF Sums
  \* The sum of this step, with what was carried to it
  <1>7. \E c, k \in Int :
           /\ c \in 0..b + p - 1 /\ f[n] = b * l + c
           /\ v * c = x * b + p * k
    <2>1. CASE n = 0
      <3>1. f[n] = b * l + 0
        <4>1. f[n] = b * l
          BY <1>6, <2>1 DEF Added
        <4>2. b * l \in Int
          BY <1>4, <1>5
        <4> QED  BY <4>1, <4>2
      <3>2. v * 0 = x * b + p * 0 /\ 0 \in 0..b + p - 1
        <4>1. x = 0 /\ v = 1 /\ b \in Int /\ p \in Nat \ {0} /\ b >= 0
          BY <1>4, <1>5, <2>1
        <4> HIDE DEF x, v, p
        <4> QED  BY <4>1
      <3> QED  BY <3>1, <3>2
    <2>2. CASE n # 0
      <3> DEFINE t == Cleared(f[n - 1])
      <3>1. PICK c \in Int, k \in Int :
               /\ t = w * c /\ t \div w = c /\ c \in 0..b + p - 1
               /\ WordTo[(n - 1) + 1] * c = (a % WordTo[(n - 1) + 1]) * b + p * k
        BY <1>3, <2>2 DEF StepDone
      <3>2. (n - 1) + 1 = n
        BY <1>2
      <3>3. v * c = x * b + p * k
        BY <3>1, <3>2
      <3>4. t \in Int
        BY <1>4, <3>1
      <3>5. Kept(t) \div w = c
        BY <3>1, <3>4, CarryKept
      <3> DEFINE s == b * l + c
      <3>6. s \in Nat /\ s <= b * w + p - 1
        <4>1. b * l \in Nat /\ b * l <= b * (w - 1) /\ b * (w - 1) = b * w - b /\ b * w \in Int
          BY <1>4, <1>5
        <4> HIDE DEF w, p, l, v, x, t
        <4> QED  BY <1>4, <3>1, <4>1
      <3>7. s % Wide = s
        <4> HIDE DEF s
        <4> QED  BY <3>6, SumFits
      <3>8. f[n] = s
        BY <1>6, <2>2, <3>5, <3>7 DEF Added
      <3> QED  BY <3>1, <3>3, <3>8
    <2> QED  BY <2>1, <2>2
  <1>8. PICK c \in Int, k \in Int :
           /\ c \in 0..b + p - 1 /\ f[n] = b * l + c
           /\ v * c = x * b + p * k
    BY <1>7
  <1> DEFINE t == f[n]
  <1>9. t \in Nat
    <2>1. b * l \in Nat
      BY <1>4, <1>5
    <2> QED  BY <1>4, <1>8, <2>1
  <1>10. PICK m \in 0..Word - 1, d \in Int :
            Cleared(t) = t + Prime * m /\ Cleared(t) = Word * d /\ Cleared(t) \div Word = d
    BY <1>9, ClearedIs
  <1> HIDE DEF w, p, l, v, x, t
  <1>11. w * d = b * l + c + p * m /\ m \in 0..w - 1 /\ w * d \in Int
    BY <1>4, <1>8, <1>10 DEF w, p, t
  <1>12. d \in 0..b + p - 1
    <2>1. b * l \in Nat /\ b * l <= b * (w - 1) /\ b * (w - 1) = b * w - b
      BY <1>4, <1>5
    <2>2. p * m \in Nat /\ p * m <= p * (w - 1) /\ p * (w - 1) = p * w - p
      BY <1>4, <1>11
    <2>3. b * w \in Int /\ p * w \in Int /\ w * (b + p) = b * w + p * w
      BY <1>4
    <2>4. w * 0 <= w * d /\ w * d < w * (b + p)
      BY <1>4, <1>8, <1>11, <2>1, <2>2, <2>3
    <2>5. 0 <= d /\ d < b + p
      BY <1>4, <2>4, FactorOrder
    <2> QED  BY <1>4, <2>5
  <1>13. (w * v) * d = (x + v * l) * b + p * (k + v * m) /\ k + v * m \in Int
    <2>1. v * m \in Int /\ v * (b * l) \in Int /\ v * c \in Int /\ v * (p * m) \in Int /\ m \in Int
      BY <1>4, <1>5, <1>8, <1>11
    <2>2. (w * v) * d = v * (w * d)
      BY <1>4
    <2>3. v * (w * d) = v * (b * l) + v * c + v * (p * m)
      BY <1>4, <1>5, <1>8, <1>11
    <2>4. (x + v * l) * b = x * b + v * (b * l)
      BY <1>4, <1>5
    <2>5. p * (k + v * m) = p * k + v * (p * m)
      BY <1>4, <1>8, <2>1
    <2>6. x * b \in Int /\ p * k \in Int
      BY <1>4, <1>5
    <2> QED  BY <1>8, <2>1, <2>2, <2>3, <2>4, <2>5, <2>6
  <1>14. StepDone(f, a, b, n)
    <2>1. WordTo[n + 1] * d = (a % WordTo[n + 1]) * b + p * (k + v * m)
      BY <1>4, <1>5, <1>13
    <2>2. Cleared(f[n]) = Word * d /\ Cleared(f[n]) \div Word = d /\ f[n] \in Nat
      BY <1>9, <1>10 DEF t
    <2> QED  BY <1>12, <1>13, <2>1, <2>2 DEF StepDone, p
  <1> QED  BY <1>2, <1>14

\* The product of the limbs is the product divided by Capacity, in the field.
THEOREM MontgomeryProduct ==
    ASSUME FitsLimbs, HasRoom, NEW a \in Element, NEW b \in Element
    PROVE  /\ rawMMul(a, b) \in Element
           /\ (rawMMul(a, b) * Capacity) % Prime = (a * b) % Prime
  <1> DEFINE product[i \in 0..Limbs - 1] ==
                LET sum == b * Limb(a, i) + Kept(Cleared(product[i - 1])) \div Word
                IN  IF i = 0 THEN b * Limb(a, i)
                    ELSE IF cannotOptimize /\ i = Limbs - 1 THEN sum ELSE sum % Wide
             last == Kept(Cleared(product[Limbs - 1]))
  <1>s. Limbs - 1 \in Nat /\ Limbs - 1 \in 0..Limbs - 1 /\ (Limbs - 1) + 1 = Limbs
    BY Sizes
  <1>1. Sums(product, a, b, Limbs - 1)
    <2>1. \E f : Sums(f, a, b, Limbs - 1)
      BY <1>s, SumsExist
    <2> QED  BY <2>1, Zenon DEF Sums, Added
  <1>2. rawMMul(a, b) = LessPrime(last >= Wide, (last \div Word) % Capacity)
    BY DEF rawMMul
  <1> HIDE DEF product
  <1> DEFINE p == Prime
             cap == Capacity
  <1>3. PICK c \in Int, k \in Int :
           /\ Cleared(product[Limbs - 1]) = Word * c /\ Cleared(product[Limbs - 1]) \div Word = c
           /\ c \in 0..b + p - 1
           /\ WordTo[Limbs] * c = (a % WordTo[Limbs]) * b + p * k
    BY <1>s, <1>1, StepsDone DEF StepDone
  <1>4. /\ p \in Nat \ {0} /\ cap \in Nat \ {0} /\ p <= cap /\ a \in 0..p - 1 /\ b \in 0..p - 1
        /\ Word \in Nat \ {0} /\ Wide = cap * Word
    BY Sizes
  <1>5. last = Word * c /\ last \div Word = c
    <2> DEFINE t == Cleared(product[Limbs - 1])
    <2>1. t = Word * c /\ t \div Word = c /\ t \in Int
      BY <1>3, <1>4
    <2> HIDE DEF t
    <2>2. Kept(t) = t /\ Kept(t) \div Word = c
      BY <1>3, <2>1, CarryKept
    <2> QED  BY <2>1, <2>2 DEF t
  <1> HIDE DEF last
  <1>6. last >= Wide <=> c >= cap
    <2>1. Wide = Word * cap /\ Word * c \in Int /\ Word * cap \in Int
      BY <1>4
    <2> HIDE DEF cap
    <2>2. Word * cap <= Word * c <=> cap <= c
      BY <1>4, FactorOrder
    <2> QED  BY <1>4, <1>5, <2>1, <2>2
  <1>7. rawMMul(a, b) = LessPrime(c >= cap, c % cap)
    BY <1>2, <1>5, <1>6
  <1>8. rawMMul(a, b) \in Element /\ rawMMul(a, b) = c % p
    <2>1. c \in 0..2 * Prime - 1
      BY <1>3, <1>4
    <2> QED  BY <1>7, <2>1, LessPrimeIs
  <1>9. cap * c = a * b + p * k
    <2>1. a % cap = a
      BY <1>4, InLimbs
    <2> QED  BY <1>3, <2>1 DEF Capacity
  <1>10. ((c % p) * cap) % p = (a * b) % p
    <2> HIDE DEF p, cap
    <2>1. ((c % p) * cap) % p = (c * cap) % p
      <3>1. p \in Nat \ {0} /\ c \in Int /\ cap \in Int
        BY <1>4
      <3> QED  BY <3>1, ModTimes
    <2>2. c * cap \in Int /\ a * b \in Int /\ c * cap = a * b + p * k
      BY <1>4, <1>9
    <2>3. (c * cap) % p = (a * b) % p
      BY <1>4, <2>2, SameMod
    <2> QED  BY <2>1, <2>3
  <1> QED  BY <1>8, <1>10

\* A word has an inverse in the field, and so has every power of it.
LEMMA WordsInvertible ==
    ASSUME FitsLimbs, NEW i \in 0..Limbs
    PROVE  \E x, y \in Int : WordTo[i] * x = 1 + Prime * y
  <1> DEFINE S == {n \in 0..Limbs : ~ \E x, y \in Int : WordTo[n] * x = 1 + Prime * y}
  <1> SUFFICES ASSUME S # {}  PROVE  FALSE
    OBVIOUS
  <1>1. PICK n \in S : \A j \in S : n <= j
    <2>1. S \in SUBSET Nat
      OBVIOUS
    <2> HIDE DEF S
    <2> QED  BY <2>1, HasLeast
  <1>2. PICK j \in Int : np * Prime = Word * j + (Word - 1)
    <2> DEFINE m == np * Prime
    <2>1. m \in Int /\ Word \in Nat \ {0} /\ m % Word = Word - 1
      BY Sizes
    <2> HIDE DEF m
    <2>2. m \div Word \in Int /\ m = Word * (m \div Word) + (Word - 1)
      BY <2>1, DivMod
    <2> QED  BY <2>2 DEF m
  <1>3. Word * (j + 1) = 1 + Prime * np
    <2>1. np \in Int /\ Prime \in Nat /\ Word \in Nat
      BY Sizes
    <2> QED  BY <1>2, <2>1
  <1>4. n # 0
    <2>1. WordTo[0] * 1 = 1 + Prime * 0
      <3>1. WordTo[0] = 1 /\ Prime \in Nat
        BY Sizes, WordToIs
      <3> QED  BY <3>1
    <2> QED  BY <1>1, <2>1
  <1>5. n \in 1..Limbs /\ n - 1 \in 0..Limbs /\ n - 1 \notin S
    <2>1. Limbs \in Nat
      BY Sizes
    <2> QED  BY <1>1, <1>4, <2>1
  <1>6. PICK x \in Int, y \in Int : WordTo[n - 1] * x = 1 + Prime * y
    BY <1>5
  <1> DEFINE v == WordTo[n - 1]
             w == Word
             p == Prime
             d == j + 1
  <1>7. WordTo[n] = w * v /\ v \in Nat /\ w \in Nat /\ p \in Nat /\ np \in Int /\ d \in Int
    <2>1. WordTo[n] = w * v /\ v \in Nat
      BY <1>5, WordToIs
    <2>2. w \in Nat /\ p \in Nat /\ np \in Int
      BY Sizes
    <2> QED  BY <2>1, <2>2
  <1>8. v * x = 1 + p * y /\ w * d = 1 + p * np
    BY <1>3, <1>6
  <1> HIDE DEF v, w, p, d
  <1>9. (w * v) * (d * x) = (w * d) * (v * x)
    BY <1>7
  <1>10. (w * d) * (v * x) = 1 + p * (y + np * (1 + p * y))
    BY <1>7, <1>8
  <1>11. \E r, s \in Int : WordTo[n] * r = 1 + p * s
    <2>1. d * x \in Int /\ y + np * (1 + p * y) \in Int
      BY <1>7
    <2> QED  BY <1>7, <1>9, <1>10, <2>1
  <1> QED  BY <1>1, <1>11 DEF p

\* What a Montgomery number is divided by, and its inverse.
R    == Capacity % Prime
Rinv == CHOOSE x \in Element : Product(R, x) = 1

\* There is such an inverse.
LEMMA RInverse ==
    ASSUME FitsLimbs
    PROVE  R \in Element /\ Rinv \in Element /\ Product(R, Rinv) = 1
  <1> DEFINE p == Prime
             cap == Capacity
  <1>1. p \in Nat \ {0, 1} /\ cap \in Int /\ Element = 0..p - 1
    BY Sizes
  <1>2. PICK x \in Int, y \in Int : cap * x = 1 + p * y
    <2>1. Limbs \in 0..Limbs
      BY Sizes
    <2> QED  BY <2>1, WordsInvertible DEF Capacity
  <1> HIDE DEF p, cap
  <1>3. x % p \in Element /\ cap % p \in Element
    BY <1>1, DivMod
  <1>4. ((cap % p) * (x % p)) % p = 1
    <2>1. ((cap % p) * (x % p)) % p = (cap * (x % p)) % p
      <3>1. x % p \in Int
        BY <1>1, <1>3
      <3> QED  BY <1>1, <3>1, ModTimes
    <2>2. cap * (x % p) = (x % p) * cap /\ (x * cap) % p = ((x % p) * cap) % p
      <3>1. x % p \in Int /\ p \in Nat \ {0} /\ cap \in Int
        BY <1>1, <1>3
      <3>2. (x * cap) % p = ((x % p) * cap) % p
        BY <3>1, ModTimes
      <3> QED  BY <3>1, <3>2
    <2>3. (x * cap) % p = 1
      <3>1. 1 = x * cap + p * (-y) /\ x * cap \in Int /\ 1 \in 0..p - 1 /\ -y \in Int
        BY <1>1, <1>2
      <3> QED  BY <1>1, <3>1, ModOfSame
    <2> QED  BY <2>1, <2>2, <2>3
  <1>5. R = cap % p
    BY DEF R, cap, p
  <1>6. Product(R, x % p) = 1
    BY <1>4, <1>5 DEF Product, p
  <1> QED  BY <1>3, <1>5, <1>6 DEF Rinv

\* The factors R^2 and R^3 of the conversions.
LEMMA FactorsAre ==
    ASSUME FitsLimbs
    PROVE  R2 = Product(R, R) /\ R3 = Product(R2, R) /\ R2 \in Element /\ R3 \in Element
  <1> DEFINE p == Prime
             c == Capacity
             r == c % p
             s == (c * c) % p
  <1>1. p \in Nat \ {0} /\ c \in Int /\ Element = 0..p - 1
    BY Sizes
  <1>2. R = r /\ R2 = s /\ R3 = (c * c * c) % p
    BY DEF R, R2, R3
  <1>3. Product(R, R) = (r * r) % p /\ Product(R2, R) = (s * r) % p
    BY <1>2 DEF Product
  <1> HIDE DEF p, c
  <1>4. r \in Int /\ s \in Int /\ c * c \in Int /\ r \in Element /\ s \in Element
    BY <1>1, DivMod, c * c \in Int
  <1>5. (r * r) % p = (c * c) % p
    <2>1. (r * r) % p = (c * r) % p
      BY <1>1, <1>4, ModTimes
    <2>2. (r * c) % p = (c * c) % p
      BY <1>1, ModTimes
    <2>3. c * r = r * c
      <3> HIDE DEF r
      <3> QED  BY <1>1, <1>4
    <2> QED  BY <2>1, <2>2, <2>3
  <1>6. (s * r) % p = (c * c * c) % p
    <2>1. (s * r) % p = ((c * c) * r) % p
      BY <1>1, <1>4, ModTimes
    <2>2. (r * (c * c)) % p = (c * (c * c)) % p
      BY <1>1, <1>4, ModTimes
    <2>4. (c * c) * r = r * (c * c)
      <3> HIDE DEF r
      <3> QED  BY <1>1, <1>4
    <2>3. c * (c * c) = c * c * c /\ c * (c * c) \in Int
      BY <1>1
    <2> QED  BY <2>1, <2>2, <2>3, <2>4
  <1>7. (c * c * c) % p \in Element
    BY <1>1, DivMod, c * c * c \in Int
  <1> QED  BY <1>2, <1>3, <1>4, <1>5, <1>6, <1>7

\* Montgomery's product, with the operators of the field.
LEMMA MMulIs ==
    ASSUME FitsLimbs, HasRoom, NEW a \in Element, NEW b \in Element
    PROVE  rawMMul(a, b) \in Element /\ rawMMul(a, b) = Product(Product(a, b), Rinv)
  <1> DEFINE r == rawMMul(a, b)
             p == Prime
  <1>1. r \in Element /\ (r * Capacity) % p = (a * b) % p
    BY MontgomeryProduct
  <1> HIDE DEF r
  <1>2. Product(r, R) = Product(a, b)
    <2>1. r \in Int /\ p \in Nat \ {0} /\ Capacity \in Int /\ R \in Int
      BY <1>1, RInverse, Sizes
    <2>2. (R * r) % p = (Capacity * r) % p
      BY <2>1, ModTimes DEF R
    <2>3. R * r = r * R /\ Capacity * r = r * Capacity
      BY <2>1
    <2> QED  BY <1>1, <2>2, <2>3 DEF Product
  <1>3. Prime \in Nat \ {0, 1} /\ R \in Element /\ Rinv \in Element /\ Product(R, Rinv) = 1
    BY RInverse, Sizes
  <1>4. Product(Product(r, R), Rinv) = Product(r, Product(R, Rinv))
    BY <1>1, <1>3, ProductIs
  <1>5. Product(r, 1) = r
    BY <1>1, <1>3, ProductIs
  <1> QED  BY <1>1, <1>2, <1>3, <1>4, <1>5 DEF r

-----------------------------------------------------------------------------
(* Laws of the field *)

\* A factor may be reduced, and a product with a sum, a difference or a negative
\* is the sum, the difference or the negative of products.
LEMMA Distributes ==
    ASSUME Prime \in Nat \ {0, 1}, NEW x \in Int, NEW y \in Int, NEW z \in Int
    PROVE  /\ Product(x % Prime, z) = Product(x, z)
           /\ (Product(x, z) + Product(y, z)) % Prime = Product((x + y) % Prime, z)
           /\ (Product(x, z) - Product(y, z)) % Prime = Product((x - y) % Prime, z)
           /\ (-Product(x, z)) % Prime = Product((-x) % Prime, z)
  <1> DEFINE p == Prime
             u == (x * z) % p
             v == (y * z) % p
  <1>1. p \in Nat \ {0} /\ x * z \in Int /\ y * z \in Int
    OBVIOUS
  <1> HIDE DEF p
  <1>2. \A n \in Int : ((n % p) * z) % p = (n * z) % p
    BY <1>1, ModTimes
  <1>3. PICK i \in Int : u = x * z + p * i
    BY <1>1, ModDiffers
  <1>4. PICK j \in Int : v = y * z + p * j
    BY <1>1, ModDiffers
  <1> HIDE DEF u, v
  <1>5. u \in Int /\ v \in Int
    BY <1>1, <1>3, <1>4
  <1>6. (u + v) % p = ((x + y) * z) % p
    <2>1. u + v = (x + y) * z + p * (i + j)
      BY <1>1, <1>3, <1>4
    <2>2. u + v \in Int /\ (x + y) * z \in Int /\ i + j \in Int
      BY <1>5
    <2> QED  BY <1>1, <2>1, <2>2, SameMod
  <1>7. (u - v) % p = ((x - y) * z) % p
    <2>1. u - v = (x - y) * z + p * (i - j)
      BY <1>1, <1>3, <1>4
    <2>2. u - v \in Int /\ (x - y) * z \in Int /\ i - j \in Int
      BY <1>5
    <2> QED  BY <1>1, <2>1, <2>2, SameMod
  <1>8. (-u) % p = ((-x) * z) % p
    <2>1. -u = (-x) * z + p * (-i)
      BY <1>1, <1>3
    <2>2. -u \in Int /\ (-x) * z \in Int /\ -i \in Int
      BY <1>5
    <2> QED  BY <1>1, <2>1, <2>2, SameMod
  <1>9. x + y \in Int /\ x - y \in Int /\ -x \in Int
    OBVIOUS
  <1> QED  BY <1>2, <1>6, <1>7, <1>8, <1>9 DEF Product, p, u, v

\* Multiplying by R and by its inverse undo each other.
LEMMA Cancels ==
    ASSUME FitsLimbs, NEW x \in Element
    PROVE  /\ Product(Product(x, R), Rinv) = x /\ Product(x, R) \in Element
           /\ Product(Product(x, Rinv), R) = x /\ Product(x, Rinv) \in Element
  <1>1. Prime \in Nat \ {0, 1} /\ R \in Int /\ Rinv \in Int /\ x \in Int /\ Product(R, Rinv) = 1
    BY RInverse, Sizes
  <1>2. Product(Product(x, R), Rinv) = Product(x, Product(R, Rinv))
    BY <1>1, ProductIs
  <1>3. Product(Product(x, Rinv), R) = Product(x, Product(Rinv, R)) /\ Product(Rinv, R) = Product(R, Rinv)
    BY <1>1, ProductIs
  <1>4. Product(x, 1) = x
    BY <1>1, ProductIs
  <1>5. Product(x, R) \in Element /\ Product(x, Rinv) \in Element
    BY <1>1, ProductIs
  <1> QED  BY <1>1, <1>2, <1>3, <1>4, <1>5

-----------------------------------------------------------------------------
(* Representations *)

\* Besides its type, a constant has the same number in both representations.
Valid(e) ==
    /\ IsElement(e)
    /\ e.type = "shortMontgomery" => e.long = Product(e.short % Prime, R)

\* What is known of shorts.
LEMMA ShortsAre ==
    ASSUME FieldFits
    PROVE  /\ FitsLimbs /\ HasRoom
           /\ ShortSize \in Nat \ {0, 1} /\ 2 * ShortSize < Prime /\ 2 * ShortSize <= Word
           /\ Shorts = -ShortSize..ShortSize - 1
           /\ \A s, t \in Shorts : /\ s \in Int /\ t \in Int
                                   /\ s * t \in Int /\ -Prime < s * t /\ s * t < Prime
  <1> DEFINE m == ShortSize
             p == Prime
  <1>1. m \in Nat \ {0, 1} /\ m * m < p /\ p \in Nat /\ 2 * m <= Word /\ FitsLimbs /\ HasRoom
    <2>1. p \in Nat /\ p > 2 /\ FitsLimbs /\ HasRoom
      BY DEF FieldFits, FitsLimbs
    <2>2. ShortBits - 1 \in 1..qbits /\ m * m < p /\ 2 * m <= Word
      BY DEF FieldFits, ShortsFit
    <2>3. qbits \in 2..p - 1
      BY <2>1, QbitsIs
    <2>4. ShortBits - 1 \in 0..p /\ ShortBits - 1 >= 1
      <3> DEFINE k == ShortBits - 1
      <3>1. k \in 1..qbits
        BY <2>2
      <3> HIDE DEF k
      <3>2. k \in 0..p /\ k >= 1
        BY <2>1, <2>3, <3>1
      <3> QED  BY <3>2 DEF k
    <2>5. m \in Nat \ {0} /\ m > ShortBits - 1
      BY <2>1, <2>4, TwoToIs DEF ShortSize
    <2>6. m # 1
      BY <2>4, <2>5
    <2> QED  BY <2>1, <2>2, <2>5, <2>6
  <1> HIDE DEF p
  <1>2. Shorts = -m..m - 1
    BY DEF Shorts
  <1> HIDE DEF m
  <1>3. 2 * m <= m * m /\ m * m \in Int
    BY <1>1
  <1>4. ASSUME NEW s \in Shorts, NEW t \in Shorts
        PROVE  s \in Int /\ t \in Int /\ s * t \in Int /\ -p < s * t /\ s * t < p
    <2>1. s \in Int /\ t \in Int /\ -m <= s /\ s <= m /\ -m <= t /\ t <= m /\ s * t \in Int
      BY <1>1, <1>2
    <2>2. s * t <= m * m /\ -(m * m) <= s * t
      <3>1. CASE s >= 0
        <4>1. s * t <= s * m /\ s * m <= m * m /\ -(s * m) <= s * t
          BY <1>1, <2>1, <3>1
        <4>2. s * m \in Int
          BY <1>1, <2>1
        <4> QED  BY <1>3, <2>1, <4>1, <4>2
      <3>2. CASE s < 0
        <4> DEFINE n == -s
        <4>4. n \in Nat /\ n <= m /\ s = -n
          BY <1>1, <2>1, <3>2
        <4> HIDE DEF n
        <4>5. s * t = (-n) * t /\ (-n) * t = -(n * t)
          BY <2>1, <4>4
        <4>1. n \in Nat /\ n <= m /\ s * t = -(n * t)
          BY <4>4, <4>5
        <4>2. n * t <= n * m /\ n * m <= m * m /\ -(n * m) <= n * t
          BY <1>1, <2>1, <4>1
        <4>3. n * m \in Int /\ n * t \in Int
          BY <1>1, <2>1, <4>1
        <4> QED  BY <1>3, <2>1, <4>1, <4>2, <4>3
      <3> QED  BY <2>1, <3>1, <3>2
    <2> QED  BY <1>1, <1>3, <2>1, <2>2
  <1> QED  BY <1>1, <1>2, <1>3, <1>4 DEF m, p

\* A number becomes limbs: the negative ones as what is missing to the prime.
LEMMA CopyIs ==
    ASSUME FitsLimbs, NEW v \in Int, -Prime < v, v < Prime
    PROVE  rawCopyS2L(v) \in Element /\ rawCopyS2L(v) = v % Prime
  <1> DEFINE c == Capacity
             p == Prime
  <1>1. p \in Nat \ {0} /\ c \in Nat \ {0} /\ p <= c /\ v \in Int /\ -p < v /\ v < p
    BY Sizes
  <1> HIDE DEF p
  <1>2. /\ v \in 0..p - 1 => v % p = v
        /\ v \in -p..-1 => v % p = v + p
        /\ v % p \in 0..p - 1
    BY <1>1, ModSmall
  <1>3. CASE v < 0
    <2> DEFINE n == v + c + p
    <2>1. v % c = v + c
      BY <1>1, <1>3, InLimbs
    <2>2. n \in c..2 * c - 1 /\ n \in Int
      BY <1>1, <1>3
    <2>3. rawCopyS2L(v) = n % c
      BY <1>3, <2>1 DEF rawCopyS2L, p
    <2>4. n % c = n - c
      <3> HIDE DEF n
      <3> QED  BY <2>2, InLimbs
    <2>5. n - c = v + p
      BY <1>1
    <2> HIDE DEF n
    <2> QED  BY <1>1, <1>2, <1>3, <2>3, <2>4, <2>5 DEF p, Element
  <1>4. CASE v >= 0
    <2>1. rawCopyS2L(v) = v
      BY <1>1, <1>4 DEF rawCopyS2L
    <2> QED  BY <1>1, <1>2, <1>4, <2>1 DEF p, Element
  <1> QED  BY <1>1, <1>3, <1>4

\* The shorts that stand for the same number are equal.
LEMMA ShortValues ==
    ASSUME FieldFits, NEW s \in Shorts
    PROVE  /\ s % Prime \in Element /\ rawCopyS2L(s) = s % Prime
           /\ s >= 0 => s \in Element /\ s % Prime = s
           /\ s < 0 => -s \in Element /\ s % Prime = s + Prime /\ (-s) % Prime = -s
           /\ val(s % Prime) = s
           /\ s % Prime = 0 <=> s = 0
  <1> DEFINE m == ShortSize
             p == Prime
             n == -s
  <1>1. /\ m \in Nat /\ 2 * m < p /\ p \in Nat \ {0} /\ s \in -m..m - 1 /\ s \in Int
        /\ n \in Int /\ n = -s
    BY ShortsAre, Sizes
  <1>2. rawCopyS2L(s) \in Element /\ rawCopyS2L(s) = s % p
    <2>1. s \in Int /\ -Prime < s /\ s < Prime /\ FitsLimbs
      BY <1>1, ShortsAre
    <2> QED  BY <2>1, CopyIs
  <1>3. Top \in Int /\ 2 * Top <= p /\ p <= 2 * Top + 1
    <2>1. Top \in Int /\ p % 2 \in 0..1 /\ p = 2 * Top + (p % 2)
      BY <1>1, DivMod DEF Top
    <2> QED  BY <1>1, <2>1
  <1> HIDE DEF m, p, n
  <1>4. /\ s \in 0..p - 1 => s % p = s
        /\ s \in -p..-1 => s % p = s + p
        /\ n \in 0..p - 1 => n % p = n
    BY <1>1, ModSmall
  <1>5. /\ s >= 0 => s \in 0..p - 1 /\ s % p = s /\ s < Top + 1
        /\ s < 0 => n \in 0..p - 1 /\ s % p = s + p /\ n % p = n /\ s + p >= Top + 1
    BY <1>1, <1>3, <1>4
  <1>6. val(s % p) = s
    <2>1. val(s % p) = IF Top + 1 <= s % p THEN (s % p) - p ELSE s % p
      BY DEF val, p
    <2> HIDE DEF p
    <2>2. CASE s >= 0
      BY <1>1, <1>3, <1>5, <2>1, <2>2
    <2>3. CASE s < 0
      BY <1>1, <1>3, <1>5, <2>1, <2>3
    <2> QED  BY <1>1, <2>2, <2>3
  <1>7. s % p = 0 <=> s = 0
    <2>1. CASE s >= 0
      BY <1>1, <1>5, <2>1
    <2>2. CASE s < 0
      BY <1>1, <1>5, <2>2
    <2> QED  BY <1>1, <2>1, <2>2
  <1> QED  BY <1>2, <1>5, <1>6, <1>7 DEF Element, p, n

\* Limbs times a short.
LEMMA TimesShortIs ==
    ASSUME FieldFits, NEW r \in Element, NEW s \in Shorts
    PROVE  /\ TimesShort(r, s) \in Element
           /\ TimesShort(r, s) = Product(Product(s % Prime, r), Rinv)
  <1>1. /\ FitsLimbs /\ HasRoom /\ Prime \in Nat \ {0, 1} /\ s \in Int /\ r \in Int
        /\ Rinv \in Int /\ -s \in Int /\ Element \subseteq Int
    BY ShortsAre, Sizes, RInverse
  <1>2. Product(s % Prime, r) = Product(s, r)
    BY <1>1, Distributes
  <1>3. CASE s >= 0
    <2>1. s \in Element
      BY <1>3, ShortValues
    <2>2. TimesShort(r, s) = rawMMul(s, r)
      BY <1>1, <1>3 DEF TimesShort, rawMMul1
    <2> QED  BY <1>1, <1>2, <2>1, <2>2, MMulIs
  <1>4. CASE s < 0
    <2> DEFINE n == -s
               q == rawMMul(n, r)
    <2>1. n \in Element /\ n \in Int
      BY <1>1, <1>4, ShortValues
    <2>2. TimesShort(r, s) = rawNeg(q)
      BY <1>4 DEF TimesShort, rawMMul1
    <2> HIDE DEF n
    <2>3. q \in Element /\ q = Product(Product(n, r), Rinv)
      BY <1>1, <2>1, MMulIs
    <2>4. rawNeg(q) \in Element /\ rawNeg(q) = (-q) % Prime
      BY <1>1, <2>3, RawSubIs
    <2> HIDE DEF q
    <2> DEFINE u == Product(n, r)
    <2>5. u \in Int
      BY <1>1, <2>1, ProductIs
    <2> HIDE DEF u
    <2>6. (-Product(u, Rinv)) % Prime = Product((-u) % Prime, Rinv)
      BY <1>1, <2>5, Distributes
    <2>7. (-Product(n, r)) % Prime = Product((-n) % Prime, r)
      BY <1>1, <2>1, Distributes
    <2>8. -n = s
      BY <1>1 DEF n
    <2> QED  BY <2>2, <2>3, <2>4, <2>6, <2>7, <2>8 DEF u
  <1> QED  BY <1>1, <1>3, <1>4

\* The number that an element stands for, and its limbs.
LEMMA NumberIs ==
    ASSUME FieldFits, NEW e, Valid(e)
    PROVE  /\ toMpz(e) \in Element
           /\ IsShort(e) => e.short \in Shorts /\ toMpz(e) = e.short % Prime
           /\ e.type = "long" => e.long \in Element /\ toMpz(e) = e.long
           /\ IsMontgomery(e) => e.long = Product(toMpz(e), R)
           /\ toMontgomery(e) \in Element /\ toMontgomery(e) = Product(toMpz(e), R)
           /\ e.type \in {"short", "long", "shortMontgomery", "longMontgomery"}
           /\ e.long \in Element
  <1>1. /\ FitsLimbs /\ HasRoom /\ Prime \in Nat \ {0, 1} /\ R \in Element /\ Rinv \in Element
        /\ R2 \in Element /\ R2 = Product(R, R) /\ Product(R, Rinv) = 1 /\ Element \subseteq Int
    BY ShortsAre, Sizes, RInverse, FactorsAre
  <1>2. /\ e.type \in {"short", "long", "shortMontgomery", "longMontgomery"}
        /\ e.short \in Shorts /\ e.long \in Element
    BY DEF Valid, IsElement
  <1> DEFINE x == toMpz(e)
  \* A factor R^2 of Montgomery's product leaves R.
  <1>3. ASSUME NEW y \in Element  PROVE  Product(Product(y, R2), Rinv) = Product(y, R)
    <2>1. Product(y, R) \in Element /\ Product(y, R) \in Int /\ y \in Int /\ R \in Int
      BY <1>1, ProductIs
    <2>2. Product(y, R2) = Product(Product(y, R), R)
      BY <1>1, <2>1, ProductIs
    <2> QED  BY <1>1, <2>1, <2>2, Cancels
  <1>4. CASE e.type \in {"short", "shortMontgomery"}
    <2>1. IsShort(e) /\ x = e.short % Prime /\ x \in Element
      BY <1>2, <1>4, ShortValues DEF IsShort, toMpz, LongNormal
    <2>2. IsMontgomery(e) => e.type = "shortMontgomery"
      BY <1>4 DEF IsMontgomery
    <2>3. IsMontgomery(e) => e.long = Product(x, R)
      BY <2>1, <2>2 DEF Valid
    <2>4. toMontgomery(e) \in Element /\ toMontgomery(e) = Product(x, R)
      <3>1. CASE IsMontgomery(e)
        BY <1>2, <2>3, <3>1 DEF toMontgomery
      <3>2. CASE ~IsMontgomery(e)
        <4>1. toMontgomery(e) = TimesShort(R2, e.short)
          BY <2>1, <3>2 DEF toMontgomery
        <4>2. /\ TimesShort(R2, e.short) \in Element
              /\ TimesShort(R2, e.short) = Product(Product(x, R2), Rinv)
          BY <1>1, <1>2, <2>1, TimesShortIs
        <4> HIDE DEF x
        <4> QED  BY <1>3, <2>1, <4>1, <4>2
      <3> QED  BY <3>1, <3>2
    <2> QED  BY <1>2, <1>4, <2>1, <2>3, <2>4
  <1>5. CASE e.type = "long"
    <2>1. ~IsShort(e) /\ ~IsMontgomery(e) /\ x = e.long
      BY <1>5 DEF IsShort, IsMontgomery, toMpz, LongNormal
    <2>2. toMontgomery(e) = rawMMul(e.long, R2)
      BY <2>1 DEF toMontgomery
    <2>3. rawMMul(e.long, R2) \in Element /\ rawMMul(e.long, R2) = Product(Product(e.long, R2), Rinv)
      BY <1>1, <1>2, MMulIs
    <2> QED  BY <1>2, <1>3, <1>5, <2>1, <2>2, <2>3
  <1>6. CASE e.type = "longMontgomery"
    <2>1. ~IsShort(e) /\ IsMontgomery(e) /\ x = rawMMul(1, e.long)
      BY <1>6 DEF IsShort, IsMontgomery, toMpz, LongNormal, rawFromMontgomery
    <2>2. 1 \in Element /\ Product(1, e.long) = e.long
      BY <1>1, <1>2, ProductIs
    <2>3. x \in Element /\ x = Product(e.long, Rinv)
      <3>1. FitsLimbs /\ HasRoom /\ 1 \in Element /\ e.long \in Element
        BY <1>1, <1>2, <2>2
      <3>2. rawMMul(1, e.long) \in Element /\ rawMMul(1, e.long) = Product(Product(1, e.long), Rinv)
        BY <3>1, MMulIs
      <3> QED  BY <2>1, <2>2, <3>2
    <2>4. Product(x, R) = e.long
      BY <1>1, <1>2, <2>3, Cancels
    <2>5. toMontgomery(e) = e.long
      BY <2>1 DEF toMontgomery
    <2> QED  BY <1>2, <1>6, <2>1, <2>3, <2>4, <2>5
  <1> QED  BY <1>2, <1>4, <1>5, <1>6

\* The elements that the operations make, and the numbers they stand for.
LEMMA MadeIs ==
    ASSUME FieldFits
    PROVE  /\ \A s \in Shorts : Valid(Short(s)) /\ toMpz(Short(s)) = s % Prime
           /\ \A r \in Element : Valid(Long(r)) /\ toMpz(Long(r)) = r
           /\ \A x \in Element : /\ Valid(LongMontgomery(Product(x, R)))
                                 /\ toMpz(LongMontgomery(Product(x, R))) = x
  <1>1. 0 \in Shorts /\ 0 \in Element /\ FitsLimbs /\ HasRoom
    <2>1. FitsLimbs /\ HasRoom /\ ShortSize \in Nat \ {0, 1} /\ Shorts = -ShortSize..ShortSize - 1
      BY ShortsAre
    <2> QED  BY <2>1, Sizes
  <1>2. ASSUME NEW s \in Shorts
        PROVE  Valid(Short(s)) /\ toMpz(Short(s)) = s % Prime
    <2>1. Valid(Short(s)) /\ IsShort(Short(s))
      BY <1>1 DEF Valid, IsElement, Short, IsShort
    <2>2. Short(s).short = s
      BY DEF Short
    <2> QED  BY <2>1, <2>2, NumberIs
  <1>3. ASSUME NEW r \in Element
        PROVE  Valid(Long(r)) /\ toMpz(Long(r)) = r
    <2>1. Valid(Long(r))
      BY <1>1 DEF Valid, IsElement, Long
    <2>2. Long(r).long = r /\ Long(r).type = "long"
      BY DEF Long
    <2> QED  BY <2>1, <2>2, NumberIs
  <1>4. ASSUME NEW x \in Element
        PROVE  /\ Valid(LongMontgomery(Product(x, R)))
               /\ toMpz(LongMontgomery(Product(x, R))) = x
    <2> DEFINE e == LongMontgomery(Product(x, R))
    <2>1. Product(x, R) \in Element
      BY <1>1, Cancels
    <2>2. Valid(e) /\ e.long = Product(x, R) /\ IsMontgomery(e)
      BY <1>1, <2>1 DEF Valid, IsElement, LongMontgomery, IsMontgomery
    <2> HIDE DEF e
    <2>3. toMpz(e) \in Element /\ Product(toMpz(e), R) = Product(x, R)
      BY <2>2, NumberIs
    <2>4. toMpz(e) = x
      BY <1>1, <2>3, Cancels
    <2> QED  BY <2>2, <2>4 DEF e
  <1> QED  BY <1>2, <1>3, <1>4

\* Integers below the prime, and non-negative ones of any size, become elements.
LEMMA FromIntegerIs ==
    ASSUME FieldFits, NEW v \in Int, -Prime < v, v < Prime
    PROVE  /\ Valid(FromInteger(v)) /\ toMpz(FromInteger(v)) = v % Prime
           /\ Valid(Long(rawCopyS2L(v))) /\ toMpz(Long(rawCopyS2L(v))) = v % Prime
           /\ v \in Element => Valid(fromMpz(v)) /\ toMpz(fromMpz(v)) = v
  <1>1. rawCopyS2L(v) \in Element /\ rawCopyS2L(v) = v % Prime
    BY ShortsAre, CopyIs
  <1>2. Valid(Long(rawCopyS2L(v))) /\ toMpz(Long(rawCopyS2L(v))) = v % Prime
    BY <1>1, MadeIs
  <1>3. Valid(FromInteger(v)) /\ toMpz(FromInteger(v)) = v % Prime
    BY <1>2, MadeIs DEF FromInteger
  <1>4. ASSUME v \in Element  PROVE  Valid(fromMpz(v)) /\ toMpz(fromMpz(v)) = v
    <2>1. v % Prime = v
      <3>1. Prime \in Nat \ {0} /\ v \in 0..Prime - 1 /\ v \in Int
        BY <1>4, ShortsAre, Sizes
      <3> QED  BY <3>1, ModSmall
    <2> QED  BY <1>4, <2>1, MadeIs DEF fromMpz
  <1> QED  BY <1>2, <1>3, <1>4

\* The elements that inputs and constants become.
THEOREM LoadedElements ==
    ASSUME FieldFits, NEW x \in Element
    PROVE  /\ Valid(Input(x)) /\ toMpz(Input(x)) = x
           /\ Valid(Constant(x)) /\ toMpz(Constant(x)) = x
  <1>1. /\ FitsLimbs /\ Prime \in Nat \ {0, 1} /\ Element = 0..Prime - 1 /\ x \in Int
        /\ -Prime < x /\ x < Prime /\ x % Prime = x
    <2>1. Prime \in Nat \ {0, 1} /\ Element = 0..Prime - 1 /\ FitsLimbs
      BY ShortsAre, Sizes
    <2>2. Prime \in Nat \ {0} /\ x \in 0..Prime - 1 /\ x \in Int
      BY <2>1
    <2>3. x % Prime = x
      BY <2>2, ModSmall
    <2> QED  BY <2>1, <2>2, <2>3
  <1>2. Valid(Input(x)) /\ toMpz(Input(x)) = x
    BY <1>1, FromIntegerIs DEF Input
  <1> DEFINE montgomery == (x * (Capacity % Prime)) % Prime
             signed == IF x > half THEN x - Prime ELSE x
  <1>3. montgomery = Product(x, R)
    BY DEF Product, R
  <1>4. signed \in Int /\ signed % Prime = x
    <2>1. CASE x > half
      <3>1. x - Prime \in Int /\ x - Prime \in -Prime..-1 /\ Prime \in Nat \ {0}
            /\ (x - Prime) + Prime = x
        BY <1>1
      <3>2. (x - Prime) % Prime = (x - Prime) + Prime
        BY <3>1, ModSmall
      <3> QED  BY <2>1, <3>1, <3>2
    <2>2. CASE ~(x > half)
      BY <1>1, <2>2
    <2> QED  BY <2>1, <2>2
  <1> HIDE DEF montgomery, signed
  <1>5. CASE signed \in Shorts
    <2> DEFINE e == [type |-> "shortMontgomery", short |-> signed, long |-> montgomery]
    <2>1. Constant(x) = e
      BY <1>5 DEF Constant, montgomery, signed
    <2>2. montgomery \in Element
      BY <1>1, <1>3, Cancels
    <2>3. Valid(e) /\ IsShort(e) /\ e.short = signed
      BY <1>3, <1>4, <1>5, <2>2 DEF Valid, IsElement, IsShort
    <2> HIDE DEF e
    <2>4. toMpz(e) = x
      BY <1>4, <2>3, NumberIs
    <2> QED  BY <1>2, <2>1, <2>3, <2>4
  <1>6. CASE signed \notin Shorts
    <2>1. Constant(x) = LongMontgomery(Product(x, R))
      BY <1>3, <1>6 DEF Constant, montgomery, signed
    <2> QED  BY <1>2, <2>1, MadeIs
  <1> QED  BY <1>5, <1>6

-----------------------------------------------------------------------------
(* The arithmetic operators *)

\* Limbs plus, minus or subtracted from a short.
LEMMA ShortSums ==
    ASSUME FieldFits, NEW r \in Element, NEW s \in Shorts, NEW x \in Element, x = s % Prime
    PROVE  /\ PlusShort(r, s) \in Element /\ PlusShort(r, s) = (r + x) % Prime
           /\ MinusShort(r, s) \in Element /\ MinusShort(r, s) = (r - x) % Prime
           /\ ShortMinus(s, r) \in Element /\ ShortMinus(s, r) = (x - r) % Prime
  <1> DEFINE n == -s
             p == Prime
  <1>1. FitsLimbs /\ p \in Nat \ {0} /\ s \in Int /\ n \in Int /\ Element = 0..p - 1
    BY ShortsAre, Sizes
  <1>2. CASE s >= 0
    <2>1. s \in Element /\ x = s
      BY <1>2, ShortValues
    <2>2. /\ PlusShort(r, s) = rawAdd(r, s) /\ MinusShort(r, s) = rawSub(r, s)
          /\ ShortMinus(s, r) = rawSub(s, r)
      BY <1>1, <1>2 DEF PlusShort, MinusShort, ShortMinus
    <2>3. /\ rawSub(r, s) \in Element /\ rawSub(r, s) = (r - s) % p
          /\ rawAdd(r, s) \in Element /\ rawAdd(r, s) = (r + s) % p
          /\ rawSub(s, r) \in Element /\ rawSub(s, r) = (s - r) % p
      BY <1>1, <2>1, RawAddIs, RawSubIs
    <2> QED  BY <2>1, <2>2, <2>3
  <1>3. CASE s < 0
    <2>1. n \in Element /\ x = s + p /\ n # 0
      BY <1>1, <1>3, ShortValues
    <2>2. /\ PlusShort(r, s) = rawSub(r, n) /\ MinusShort(r, s) = rawAdd(r, n)
          /\ ShortMinus(s, r) = rawNegLS(r, n)
      BY <1>1, <1>3 DEF PlusShort, MinusShort, ShortMinus
    <2>3. /\ rawSub(r, n) \in Element /\ rawSub(r, n) = (r - n) % p
          /\ rawAdd(r, n) \in Element /\ rawAdd(r, n) = (r + n) % p
          /\ rawNegLS(r, n) \in Element /\ rawNegLS(r, n) = (-r - n) % p
      BY <1>1, <2>1, RawAddIs, RawSubIs, RawNegLSIs
    <2>4. /\ r - n \in Int /\ r + n \in Int /\ -r - n \in Int
          /\ r + x \in Int /\ r - x \in Int /\ x - r \in Int
          /\ r - n = (r + x) + p * (-1) /\ r + n = (r - x) + p * 1 /\ -r - n = (x - r) + p * (-1)
      BY <1>1, <2>1
    <2> HIDE DEF p, n
    <2>5. (r - n) % p = (r + x) % p
      <3> DEFINE u == r - n
                 v == r + x
      <3>1. u \in Int /\ v \in Int /\ -1 \in Int /\ p \in Nat \ {0} /\ u = v + p * (-1)
        BY <1>1, <2>4
      <3> HIDE DEF u, v
      <3>2. u % p = v % p
        BY <3>1, SameMod
      <3> QED  BY <3>2 DEF u, v
    <2>6. (r + n) % p = (r - x) % p
      <3> DEFINE u == r + n
                 v == r - x
      <3>1. u \in Int /\ v \in Int /\ 1 \in Int /\ p \in Nat \ {0} /\ u = v + p * (1)
        BY <1>1, <2>4
      <3> HIDE DEF u, v
      <3>2. u % p = v % p
        BY <3>1, SameMod
      <3> QED  BY <3>2 DEF u, v
    <2>7. (-r - n) % p = (x - r) % p
      <3> DEFINE u == -r - n
                 v == x - r
      <3>1. u \in Int /\ v \in Int /\ -1 \in Int /\ p \in Nat \ {0} /\ u = v + p * (-1)
        BY <1>1, <2>4
      <3> HIDE DEF u, v
      <3>2. u % p = v % p
        BY <3>1, SameMod
      <3> QED  BY <3>2 DEF u, v
    <2> QED  BY <2>2, <2>3, <2>5, <2>6, <2>7 DEF p
  <1> QED  BY <1>1, <1>2, <1>3

\* Sums and differences of shorts stay below the prime.
LEMMA ShortsAdd ==
    ASSUME FieldFits, NEW s \in Shorts, NEW t \in Shorts
    PROVE  /\ s + t \in Int /\ -Prime < s + t /\ s + t < Prime
           /\ s - t \in Int /\ -Prime < s - t /\ s - t < Prime
           /\ (s + t) % Prime = ((s % Prime) + (t % Prime)) % Prime
           /\ (s - t) % Prime = ((s % Prime) - (t % Prime)) % Prime
           /\ (s * t) % Prime = Product(s % Prime, t % Prime)
           /\ -s \in Int /\ -Prime < -s /\ -s < Prime /\ (-s) % Prime = (-(s % Prime)) % Prime
  <1> DEFINE p == Prime
             m == ShortSize
             x == s % p
             y == t % p
  <1>1. /\ p \in Nat \ {0} /\ m \in Nat /\ 2 * m < p /\ s \in -m..m - 1 /\ t \in -m..m - 1
        /\ s \in Int /\ t \in Int
    BY ShortsAre, Sizes
  <1> HIDE DEF p, m
  <1>2. /\ s + t \in Int /\ -p < s + t /\ s + t < p /\ s - t \in Int /\ -p < s - t /\ s - t < p
        /\ -s \in Int /\ -p < -s /\ -s < p
    BY <1>1
  <1>3. PICK i \in Int : x = s + p * i
    BY <1>1, ModDiffers
  <1>4. PICK j \in Int : y = t + p * j
    BY <1>1, ModDiffers
  <1>5. x \in Int /\ y \in Int
    BY <1>1, DivMod
  <1> HIDE DEF x, y
  <1>6. (x + y) % p = (s + t) % p
    <2>1. x + y = (s + t) + p * (i + j) /\ x + y \in Int /\ i + j \in Int
      BY <1>1, <1>3, <1>4, <1>5
    <2> QED  BY <1>1, <1>2, <2>1, SameMod
  <1>7. (x - y) % p = (s - t) % p
    <2>1. x - y = (s - t) + p * (i - j) /\ x - y \in Int /\ i - j \in Int
      BY <1>1, <1>3, <1>4, <1>5
    <2> QED  BY <1>1, <1>2, <2>1, SameMod
  <1>8. (-x) % p = (-s) % p
    <2>1. -x = (-s) + p * (-i) /\ -x \in Int /\ -i \in Int
      BY <1>1, <1>3, <1>5
    <2> QED  BY <1>1, <1>2, <2>1, SameMod
  <1>9. (x * y) % p = (s * t) % p
    <2>1. (s * t) % p = (x * t) % p
      BY <1>1, ModTimes DEF x
    <2>2. x * t = t * x /\ y * x = x * y
      BY <1>1, <1>5
    <2>3. (t * x) % p = (y * x) % p
      BY <1>1, <1>5, ModTimes DEF y
    <2> QED  BY <2>1, <2>2, <2>3
  <1> QED  BY <1>2, <1>6, <1>7, <1>8, <1>9 DEF p, x, y, Product

\* An element stands for a number.
StandsFor(e, x) == Valid(e) /\ toMpz(e) = x

\* The sum of two elements in any representation.
LEMMA AddIs ==
    ASSUME FieldFits, NEW a, NEW b, Valid(a), Valid(b)
    PROVE  StandsFor(add(a, b), (toMpz(a) + toMpz(b)) % Prime)
  <1> DEFINE x == toMpz(a)
             y == toMpz(b)
             z == (x + y) % Prime
  <1>1. /\ FitsLimbs /\ Prime \in Nat \ {0, 1} /\ x \in Element /\ y \in Element
        /\ x \in Int /\ y \in Int /\ R \in Int
    BY NumberIs, ShortsAre, Sizes, RInverse
  <1>2. z \in Element
    <2>1. rawAdd(x, y) \in Element /\ rawAdd(x, y) = z
      BY <1>1, RawAddIs
    <2> QED  BY <2>1
  <1>3. CASE BothShort(a, b)
    <2>1. a.short \in Shorts /\ b.short \in Shorts /\ x = a.short % Prime /\ y = b.short % Prime
      BY <1>3, NumberIs DEF BothShort
    <2>2. add(a, b) = FromInteger(a.short + b.short)
      BY <1>3 DEF add, add_s1s2
    <2> DEFINE v == a.short + b.short
    <2>3. v \in Int /\ -Prime < v /\ v < Prime /\ v % Prime = z
      BY <2>1, ShortsAdd
    <2> HIDE DEF v, z
    <2>4. Valid(FromInteger(v)) /\ toMpz(FromInteger(v)) = z
      BY <2>3, FromIntegerIs
    <2> QED  BY <2>2, <2>4 DEF StandsFor, v, z
  <1>4. CASE ~BothShort(a, b) /\ InMontgomery(a, b)
    <2> DEFINE u == toMontgomery(a)
               v == toMontgomery(b)
    <2>1. u \in Element /\ u = Product(x, R) /\ v \in Element /\ v = Product(y, R)
      BY NumberIs
    <2>2. add(a, b) = LongMontgomery(rawAdd(u, v))
      BY <1>4 DEF add
    <2> HIDE DEF u, v, x, y
    <2>3. rawAdd(u, v) = (u + v) % Prime
      BY <1>1, <2>1, RawAddIs
    <2>4. rawAdd(u, v) = Product(z, R)
      BY <1>1, <2>1, <2>3, Distributes
    <2>5. Valid(LongMontgomery(Product(z, R))) /\ toMpz(LongMontgomery(Product(z, R))) = z
      BY <1>2, MadeIs
    <2> QED  BY <2>2, <2>4, <2>5 DEF StandsFor, x, y
  <1>5. CASE ~BothShort(a, b) /\ ~InMontgomery(a, b)
    <2> DEFINE r == IF IsShort(a) THEN PlusShort(b.long, a.short)
                    ELSE IF IsShort(b) THEN PlusShort(a.long, b.short)
                    ELSE rawAdd(a.long, b.long)
    <2>1. add(a, b) = Long(r)
      BY <1>5 DEF add
    <2>2. /\ ~IsShort(a) => a.type = "long" /\ a.long = x
          /\ ~IsShort(b) => b.type = "long" /\ b.long = y
          /\ IsShort(a) => a.short \in Shorts /\ x = a.short % Prime
          /\ IsShort(b) => b.short \in Shorts /\ y = b.short % Prime
          /\ ~IsShort(a) \/ ~IsShort(b)
      BY <1>5, NumberIs DEF InMontgomery, IsShort, BothShort
    <2>3. r \in Element /\ r = z
      <3> HIDE DEF x, y
      <3>1. CASE IsShort(a)
        <4>1. b.long = y /\ a.short \in Shorts /\ x = a.short % Prime
          BY <2>2, <3>1
        <4>2. PlusShort(y, a.short) = (y + x) % Prime
          BY <1>1, <4>1, ShortSums
        <4>3. y + x = x + y
          BY <1>1
        <4> QED  BY <1>2, <3>1, <4>1, <4>2, <4>3
      <3>2. CASE ~IsShort(a) /\ IsShort(b)
        <4>1. a.long = x /\ b.short \in Shorts /\ y = b.short % Prime
          BY <2>2, <3>2
        <4>2. PlusShort(x, b.short) = (x + y) % Prime
          BY <1>1, <4>1, ShortSums
        <4> QED  BY <1>2, <3>2, <4>1, <4>2
      <3>3. CASE ~IsShort(a) /\ ~IsShort(b)
        <4>1. a.long = x /\ b.long = y
          BY <2>2, <3>3
        <4>2. rawAdd(x, y) = (x + y) % Prime
          BY <1>1, RawAddIs
        <4> QED  BY <1>2, <3>3, <4>1, <4>2
      <3> QED  BY <3>1, <3>2, <3>3
    <2> HIDE DEF r, z
    <2> QED  BY <2>1, <2>3, MadeIs DEF StandsFor, z
  <1> QED  BY <1>3, <1>4, <1>5

\* The difference of two elements in any representation.
LEMMA SubIs ==
    ASSUME FieldFits, NEW a, NEW b, Valid(a), Valid(b)
    PROVE  StandsFor(sub(a, b), (toMpz(a) - toMpz(b)) % Prime)
  <1> DEFINE x == toMpz(a)
             y == toMpz(b)
             z == (x - y) % Prime
  <1>1. /\ FitsLimbs /\ Prime \in Nat \ {0, 1} /\ x \in Element /\ y \in Element
        /\ x \in Int /\ y \in Int /\ R \in Int
    BY NumberIs, ShortsAre, Sizes, RInverse
  <1>2. z \in Element
    <2>1. rawSub(x, y) \in Element /\ rawSub(x, y) = z
      BY <1>1, RawSubIs
    <2> QED  BY <2>1
  <1>3. CASE BothShort(a, b)
    <2>1. a.short \in Shorts /\ b.short \in Shorts /\ x = a.short % Prime /\ y = b.short % Prime
      BY <1>3, NumberIs DEF BothShort
    <2>2. sub(a, b) = FromInteger(a.short - b.short)
      BY <1>3 DEF sub
    <2> DEFINE v == a.short - b.short
    <2>3. v \in Int /\ -Prime < v /\ v < Prime /\ v % Prime = z
      BY <2>1, ShortsAdd
    <2> HIDE DEF v, z
    <2>4. Valid(FromInteger(v)) /\ toMpz(FromInteger(v)) = z
      BY <2>3, FromIntegerIs
    <2> QED  BY <2>2, <2>4 DEF StandsFor, v, z
  <1>4. CASE ~BothShort(a, b) /\ InMontgomery(a, b)
    <2> DEFINE u == toMontgomery(a)
               v == toMontgomery(b)
    <2>1. u \in Element /\ u = Product(x, R) /\ v \in Element /\ v = Product(y, R)
      BY NumberIs
    <2>2. sub(a, b) = LongMontgomery(rawSub(u, v))
      BY <1>4 DEF sub
    <2> HIDE DEF u, v, x, y
    <2>3. rawSub(u, v) = (u - v) % Prime
      BY <1>1, <2>1, RawSubIs
    <2>4. rawSub(u, v) = Product(z, R)
      BY <1>1, <2>1, <2>3, Distributes
    <2>5. Valid(LongMontgomery(Product(z, R))) /\ toMpz(LongMontgomery(Product(z, R))) = z
      BY <1>2, MadeIs
    <2> QED  BY <2>2, <2>4, <2>5 DEF StandsFor, x, y
  <1>5. CASE ~BothShort(a, b) /\ ~InMontgomery(a, b)
    <2> DEFINE r == IF IsShort(a) THEN ShortMinus(a.short, b.long)
                    ELSE IF IsShort(b) THEN MinusShort(a.long, b.short)
                    ELSE rawSub(a.long, b.long)
    <2>1. sub(a, b) = Long(r)
      BY <1>5 DEF sub
    <2>2. /\ ~IsShort(a) => a.type = "long" /\ a.long = x
          /\ ~IsShort(b) => b.type = "long" /\ b.long = y
          /\ IsShort(a) => a.short \in Shorts /\ x = a.short % Prime
          /\ IsShort(b) => b.short \in Shorts /\ y = b.short % Prime
          /\ ~IsShort(a) \/ ~IsShort(b)
      BY <1>5, NumberIs DEF InMontgomery, IsShort, BothShort
    <2>3. r \in Element /\ r = z
      <3> HIDE DEF x, y
      <3>1. CASE IsShort(a)
        <4>1. b.long = y /\ a.short \in Shorts /\ x = a.short % Prime
          BY <2>2, <3>1
        <4>2. ShortMinus(a.short, y) = (x - y) % Prime
          BY <1>1, <4>1, ShortSums
        <4> QED  BY <1>2, <3>1, <4>1, <4>2
      <3>2. CASE ~IsShort(a) /\ IsShort(b)
        <4>1. a.long = x /\ b.short \in Shorts /\ y = b.short % Prime
          BY <2>2, <3>2
        <4>2. MinusShort(x, b.short) = (x - y) % Prime
          BY <1>1, <4>1, ShortSums
        <4> QED  BY <1>2, <3>2, <4>1, <4>2
      <3>3. CASE ~IsShort(a) /\ ~IsShort(b)
        <4>1. a.long = x /\ b.long = y
          BY <2>2, <3>3
        <4>2. rawSub(x, y) = (x - y) % Prime
          BY <1>1, RawSubIs
        <4> QED  BY <1>2, <3>3, <4>1, <4>2
      <3> QED  BY <3>1, <3>2, <3>3
    <2> HIDE DEF r, z
    <2> QED  BY <2>1, <2>3, MadeIs DEF StandsFor, z
  <1> QED  BY <1>3, <1>4, <1>5

\* The negative of an element in any representation.
LEMMA NegIs ==
    ASSUME FieldFits, NEW a, Valid(a)
    PROVE  StandsFor(neg(a), (-toMpz(a)) % Prime)
  <1> DEFINE x == toMpz(a)
             z == (-x) % Prime
  <1>1. /\ FitsLimbs /\ Prime \in Nat \ {0, 1} /\ x \in Element /\ x \in Int /\ R \in Int
    BY NumberIs, ShortsAre, Sizes, RInverse
  <1>2. z \in Element /\ rawNeg(x) = z
    <2>1. rawNeg(x) \in Element /\ rawNeg(x) = z
      BY <1>1, RawSubIs
    <2> QED  BY <2>1
  <1>3. CASE IsShort(a)
    <2>1. a.short \in Shorts /\ x = a.short % Prime
      BY <1>3, NumberIs
    <2>2. neg(a) = FromInteger(-a.short)
      BY <1>3 DEF neg
    <2> DEFINE v == -a.short
    <2>3. v \in Int /\ -Prime < v /\ v < Prime /\ v % Prime = z
      BY <2>1, ShortsAdd
    <2> HIDE DEF v, z
    <2>4. Valid(FromInteger(v)) /\ toMpz(FromInteger(v)) = z
      BY <2>3, FromIntegerIs
    <2> QED  BY <2>2, <2>4 DEF StandsFor, v, z
  <1>4. CASE ~IsShort(a)
    <2> DEFINE e == neg(a)
    <2>1. a.type \in {"long", "longMontgomery"}
      BY <1>4, NumberIs DEF IsShort
    <2>2. e = [a EXCEPT !.long = rawNeg(@)]
      BY <1>4 DEF neg
    <2>3. rawNeg(a.long) \in Element /\ rawNeg(a.long) = (-a.long) % Prime
      BY <1>1, NumberIs, RawSubIs
    <2>4. e.type = a.type /\ e.long = rawNeg(a.long) /\ Valid(e)
      BY <2>1, <2>2, <2>3 DEF Valid, IsElement
    <2> HIDE DEF e
    <2>5. CASE a.type = "long"
      <3>1. a.long = x
        BY <2>5, NumberIs
      <3>2. toMpz(e) = e.long
        BY <2>4, <2>5, NumberIs
      <3> QED  BY <2>3, <2>4, <3>1, <3>2 DEF StandsFor, e
    <2>6. CASE a.type = "longMontgomery"
      <3>1. a.long = Product(x, R)
        BY <2>6, NumberIs DEF IsMontgomery
      <3>2. toMpz(e) \in Element /\ e.long = Product(toMpz(e), R)
        BY <2>4, <2>6, NumberIs DEF IsMontgomery
      <3> HIDE DEF x
      <3>3. (-Product(x, R)) % Prime = Product(z, R)
        BY <1>1, Distributes
      <3>4. Product(toMpz(e), R) = Product(z, R)
        BY <2>3, <2>4, <3>1, <3>2, <3>3
      <3>5. toMpz(e) = z
        <4>1. z \in Element /\ FitsLimbs
          BY <1>1, <1>2
        <4> HIDE DEF z
        <4>2. Product(Product(z, R), Rinv) = z
          BY <4>1, Cancels
        <4>3. Product(Product(toMpz(e), R), Rinv) = toMpz(e)
          BY <3>2, <4>1, Cancels
        <4> QED  BY <3>4, <4>2, <4>3
      <3> QED  BY <2>4, <3>5 DEF StandsFor, e, x
    <2> QED  BY <2>1, <2>5, <2>6
  <1> QED  BY <1>3, <1>4

\* The limbs that stand for a factor: those of the number, or in Montgomery form
\* those of R times the number.
Factor(e) == IF IsMontgomery(e) THEN Product(toMpz(e), R) ELSE toMpz(e)

\* A product of limbs, with a short or with limbs, is divided by R.
LEMMA TimesIs ==
    ASSUME FieldFits, NEW a, NEW b, Valid(a), Valid(b), ~BothShort(a, b)
    PROVE  Times(a, b) = Product(Product(Factor(a), Factor(b)), Rinv)
  <1>1. /\ FitsLimbs /\ HasRoom /\ Prime \in Nat \ {0, 1}
        /\ Factor(a) \in Element /\ Factor(b) \in Element /\ Element \subseteq Int
    <2>1. FitsLimbs /\ HasRoom /\ Prime \in Nat \ {0, 1} /\ Element \subseteq Int
      BY ShortsAre, Sizes
    <2>2. toMpz(a) \in Element /\ toMpz(b) \in Element
      BY NumberIs
    <2>3. Product(toMpz(a), R) \in Element /\ Product(toMpz(b), R) \in Element
      BY <2>1, <2>2, Cancels
    <2> QED  BY <2>1, <2>2, <2>3 DEF Factor
  <1>2. /\ a.type = "short" => a.short \in Shorts /\ Factor(a) = a.short % Prime
        /\ b.type = "short" => b.short \in Shorts /\ Factor(b) = b.short % Prime
    BY NumberIs DEF Factor, IsShort, IsMontgomery
  <1>3. /\ a.type # "short" => Factor(a) = a.long
        /\ b.type # "short" => Factor(b) = b.long
    <2>1. /\ a.type = "long" \/ IsMontgomery(a) \/ a.type = "short"
          /\ b.type = "long" \/ IsMontgomery(b) \/ b.type = "short"
      BY NumberIs DEF IsMontgomery
    <2>2. a.type = "long" => ~IsMontgomery(a)
      BY DEF IsMontgomery
    <2>3. b.type = "long" => ~IsMontgomery(b)
      BY DEF IsMontgomery
    <2> QED  BY <2>1, <2>2, <2>3, NumberIs DEF Factor
  <1>4. CASE a.type = "short"
    <2>1. b.type # "short"
      BY <1>4 DEF BothShort, IsShort
    <2> DEFINE f == Factor(a)
               g == Factor(b)
    <2>2. Times(a, b) = TimesShort(g, a.short)
      BY <1>3, <1>4, <2>1 DEF Times
    <2>3. f = a.short % Prime /\ a.short \in Shorts /\ g \in Element
      BY <1>1, <1>2, <1>4
    <2> HIDE DEF f, g
    <2>4. Times(a, b) = Product(Product(f, g), Rinv)
      BY <2>2, <2>3, TimesShortIs
    <2> QED  BY <2>4 DEF f, g
  <1>5. CASE a.type # "short" /\ b.type = "short"
    <2> DEFINE f == Factor(a)
               g == Factor(b)
    <2>2. Times(a, b) = TimesShort(f, b.short)
      BY <1>3, <1>5 DEF Times
    <2>3. g = b.short % Prime /\ b.short \in Shorts /\ f \in Element /\ g \in Element
      BY <1>1, <1>2, <1>5
    <2> HIDE DEF f, g
    <2>4. Times(a, b) = Product(Product(g, f), Rinv)
      BY <2>2, <2>3, TimesShortIs
    <2>5. Product(g, f) = Product(f, g)
      BY <1>1, <2>3, ProductIs
    <2> QED  BY <2>4, <2>5 DEF f, g
  <1>6. CASE a.type # "short" /\ b.type # "short"
    <2> DEFINE f == Factor(a)
               g == Factor(b)
    <2>2. Times(a, b) = rawMMul(f, g)
      BY <1>3, <1>6 DEF Times
    <2> HIDE DEF f, g
    <2>3. rawMMul(f, g) = Product(Product(f, g), Rinv)
      BY <1>1, MMulIs DEF f, g
    <2> QED  BY <2>2, <2>3 DEF f, g
  <1> QED  BY <1>4, <1>5, <1>6

\* The product of two elements in any representation: one factor times R makes
\* up for the division by R, two leave R, and none is made up for by R^3.
LEMMA MulIs ==
    ASSUME FieldFits, NEW a, NEW b, Valid(a), Valid(b)
    PROVE  StandsFor(mul(a, b), Product(toMpz(a), toMpz(b)))
  <1> DEFINE x == toMpz(a)
             y == toMpz(b)
             z == Product(x, y)
  <1>1. /\ FitsLimbs /\ HasRoom /\ Prime \in Nat \ {0, 1} /\ x \in Element /\ y \in Element
        /\ R \in Element /\ Rinv \in Element /\ Product(R, Rinv) = 1
        /\ R2 = Product(R, R) /\ R3 = Product(R2, R) /\ R3 \in Element /\ R2 \in Element
        /\ Element \subseteq Int
    BY NumberIs, ShortsAre, Sizes, RInverse, FactorsAre
  <1>2. z \in Element
    BY <1>1, ProductIs
  <1>3. CASE BothShort(a, b)
    <2>1. a.short \in Shorts /\ b.short \in Shorts /\ x = a.short % Prime /\ y = b.short % Prime
      BY <1>3, NumberIs DEF BothShort
    <2>2. mul(a, b) = Long(rawCopyS2L(a.short * b.short))
      BY <1>3 DEF mul
    <2> DEFINE v == a.short * b.short
    <2>3. v \in Int /\ -Prime < v /\ v < Prime
      BY <2>1, ShortsAre
    <2>4. v % Prime = z
      BY <2>1, ShortsAdd
    <2> HIDE DEF v, z
    <2>5. Valid(Long(rawCopyS2L(v))) /\ toMpz(Long(rawCopyS2L(v))) = z
      BY <2>3, <2>4, FromIntegerIs
    <2> QED  BY <2>2, <2>5 DEF StandsFor, v, z
  <1>4. CASE ~BothShort(a, b)
    <2> DEFINE t == Times(a, b)
    <2>1. t = Product(Product(Factor(a), Factor(b)), Rinv)
      BY <1>4, TimesIs
    <2> HIDE DEF x, y, t
    <2>2. CASE IsMontgomery(a) /\ IsMontgomery(b)
      <3>1. Factor(a) = Product(x, R) /\ Factor(b) = Product(y, R)
        BY <2>2 DEF Factor, x, y
      <3>2. Product(x, R) \in Element /\ Product(y, R) \in Element
        BY <1>1, Cancels
      <3>3. Product(Product(Product(x, R), Product(y, R)), Rinv)
               = Product(Product(x, R), Product(Product(y, R), Rinv))
        <4> DEFINE u == Product(x, R)
                   v == Product(y, R)
        <4>1. u \in Int /\ v \in Int /\ Rinv \in Int
          BY <1>1, <3>2
        <4> HIDE DEF u, v
        <4>2. Product(Product(u, v), Rinv) = Product(u, Product(v, Rinv))
          BY <1>1, <4>1, ProductIs
        <4> QED  BY <4>2 DEF u, v
      <3>4. Product(Product(y, R), Rinv) = y
        BY <1>1, Cancels
      <3>5. Product(Product(x, R), y) = Product(z, R)
        <4>1. Product(Product(x, R), y) = Product(x, Product(R, y)) /\ Product(R, y) = Product(y, R)
          BY <1>1, ProductIs
        <4>2. Product(x, Product(y, R)) = Product(Product(x, y), R)
          BY <1>1, ProductIs
        <4> QED  BY <4>1, <4>2
      <3>6. mul(a, b) = LongMontgomery(Product(z, R))
        BY <1>4, <2>1, <2>2, <3>1, <3>3, <3>4, <3>5 DEF mul, t
      <3> QED  BY <1>2, <3>6, MadeIs DEF StandsFor, x, y
    <2>3. CASE ~IsMontgomery(a) /\ IsMontgomery(b)
      <3>1. Factor(a) = x /\ Factor(b) = Product(y, R)
        BY <2>3 DEF Factor, x, y
      <3>2. Product(y, R) \in Element
        BY <1>1, Cancels
      <3>3. Product(Product(x, Product(y, R)), Rinv) = Product(x, Product(Product(y, R), Rinv))
        <4> DEFINE u == Product(y, R)
        <4>1. u \in Int /\ x \in Int /\ Rinv \in Int
          BY <1>1, <3>2
        <4> HIDE DEF u
        <4>2. Product(Product(x, u), Rinv) = Product(x, Product(u, Rinv))
          BY <1>1, <4>1, ProductIs
        <4> QED  BY <4>2 DEF u
      <3>4. Product(Product(y, R), Rinv) = y
        BY <1>1, Cancels
      <3>5. mul(a, b) = Long(z)
        BY <1>4, <2>1, <2>3, <3>1, <3>3, <3>4 DEF mul, t
      <3> QED  BY <1>2, <3>5, MadeIs DEF StandsFor, x, y
    <2>4. CASE IsMontgomery(a) /\ ~IsMontgomery(b)
      <3>1. Factor(a) = Product(x, R) /\ Factor(b) = y
        BY <2>4 DEF Factor, x, y
      <3>2. Product(x, R) \in Element /\ Product(Product(x, R), y) = Product(y, Product(x, R))
        BY <1>1, Cancels, ProductIs
      <3>3. Product(Product(y, Product(x, R)), Rinv) = Product(y, Product(Product(x, R), Rinv))
        <4> DEFINE u == Product(x, R)
        <4>1. u \in Int /\ y \in Int /\ Rinv \in Int
          BY <1>1, <3>2
        <4> HIDE DEF u
        <4>2. Product(Product(y, u), Rinv) = Product(y, Product(u, Rinv))
          BY <1>1, <4>1, ProductIs
        <4> QED  BY <4>2 DEF u
      <3>4. Product(Product(x, R), Rinv) = x /\ Product(y, x) = z
        BY <1>1, Cancels, ProductIs
      <3>5. mul(a, b) = Long(z)
        BY <1>4, <2>1, <2>4, <3>1, <3>2, <3>3, <3>4 DEF mul, t
      <3> QED  BY <1>2, <3>5, MadeIs DEF StandsFor, x, y
    <2>5. CASE ~IsMontgomery(a) /\ ~IsMontgomery(b)
      <3>1. Factor(a) = x /\ Factor(b) = y
        BY <2>5 DEF Factor, x, y
      <3>2. t = Product(z, Rinv) /\ t \in Element
        BY <1>1, <1>2, <2>1, <3>1, Cancels
      <3>3. mul(a, b) = LongMontgomery(rawMMul(t, R3))
        BY <1>4, <2>5 DEF mul, t
      <3> HIDE DEF z
      <3>4. rawMMul(t, R3) = Product(Product(t, R3), Rinv)
        BY <1>1, <3>2, MMulIs
      <3>5. Product(t, R3) = Product(Product(z, R), R)
        <4>1. Product(R2, R) = Product(R, R2)
          BY <1>1, ProductIs
        <4>2. Product(t, Product(R, R2)) = Product(Product(t, R), R2)
          BY <1>1, <3>2, ProductIs
        <4>3. Product(t, R) = z
          BY <1>1, <1>2, <3>2, Cancels
        <4>4. Product(z, Product(R, R)) = Product(Product(z, R), R)
          BY <1>1, <1>2, ProductIs
        <4> QED  BY <1>1, <4>1, <4>2, <4>3, <4>4
      <3>6. Product(Product(Product(z, R), R), Rinv) = Product(z, R)
        <4>1. Product(z, R) \in Element
          BY <1>1, <1>2, Cancels
        <4> QED  BY <1>1, <4>1, Cancels
      <3> QED  BY <1>2, <3>3, <3>4, <3>5, <3>6, MadeIs DEF StandsFor, x, y, z
    <2> QED  BY <2>2, <2>3, <2>4, <2>5
  <1> QED  BY <1>3, <1>4

\* The operators that are not about the bits of a number.
Arithmetic == {"Add", "Sub", "Mul", "Div", "IntDiv", "Mod", "Pow", "PrefixSub"}
Comparison == {"Eq", "NotEq", "Lesser", "LesserEq", "Greater", "GreaterEq"}
Boolean    == {"BoolOr", "BoolAnd", "BoolNot"}

\* In every representation of its operands the generated program computes with
\* the arithmetic operators what the compiler computes.
THEOREM ArithmeticAgrees ==
    ASSUME FieldFits, IsPrime, NEW op \in Arithmetic, NEW a, NEW b, Valid(a), Valid(b),
           Defined(op, toMpz(b))
    PROVE  StandsFor(Apply(op, a, b), Result(op, toMpz(a), toMpz(b)))
  <1> DEFINE x == toMpz(a)
             y == toMpz(b)
  <1>1. /\ Prime \in Nat \ {0, 1} /\ x \in Element /\ y \in Element /\ Element = 0..Prime - 1
        /\ y \in Nat /\ x \in Nat
    BY NumberIs, ShortsAre, Sizes
  <1>2. ASSUME NEW v \in Element  PROVE  StandsFor(fromMpz(v), v)
    <2>1. v \in Int /\ -Prime < v /\ v < Prime
      BY <1>1
    <2> QED  BY <2>1, FromIntegerIs DEF StandsFor
  <1>3. CASE op = "Add"
    BY <1>3, AddIs DEF Apply, Result
  <1>4. CASE op = "Sub"
    BY <1>4, SubIs DEF Apply, Result
  <1>5. CASE op = "Mul"
    BY <1>5, MulIs DEF Apply, Result
  <1>6. CASE op = "Div"
    <2>1. y # 0
      BY <1>6 DEF Defined
    <2>2. mod_inverse(y) \in Element
      BY <1>1, <2>1, InverseIs
    <2>3. StandsFor(inv(b), mod_inverse(y))
      BY <1>2, <2>2 DEF inv
    <2>4. StandsFor(mul(a, inv(b)), Product(x, mod_inverse(y)))
      BY <2>3, MulIs DEF StandsFor
    <2> QED  BY <1>6, <2>4 DEF Apply, Result
  <1>7. CASE op \in {"IntDiv", "Mod"}
    <2>1. y # 0
      BY <1>7 DEF Defined
    <2>2. x \div y \in Element /\ x % y \in Element
      BY <1>1, <2>1, DivisionIs
    <2>3. StandsFor(fromMpz(x \div y), x \div y) /\ StandsFor(fromMpz(x % y), x % y)
      BY <1>2, <2>2
    <2> QED  BY <1>7, <2>3 DEF Apply, Result
  <1>8. CASE op = "Pow"
    <2>1. StandsFor(fromMpz(pow(x, y)), pow(x, y))
      BY <1>1, <1>2, PowInField
    <2> QED  BY <1>8, <2>1 DEF Apply, Result
  <1>9. CASE op = "PrefixSub"
    BY <1>9, NegIs DEF Apply, Result
  <1> QED  BY <1>3, <1>4, <1>5, <1>6, <1>7, <1>8, <1>9 DEF Arithmetic

-----------------------------------------------------------------------------
(* Comparisons, booleans and conversions to an int *)

\* Elements are equal if they stand for the same number.
LEMMA EqIs ==
    ASSUME FieldFits, NEW a, NEW b, Valid(a), Valid(b)
    PROVE  eq(a, b) <=> toMpz(a) = toMpz(b)
  <1>1. FitsLimbs /\ toMpz(a) \in Element /\ toMpz(b) \in Element
    BY NumberIs, ShortsAre
  <1>2. CASE BothShort(a, b)
    <2>1. /\ a.short \in Shorts /\ b.short \in Shorts
          /\ toMpz(a) = a.short % Prime /\ toMpz(b) = b.short % Prime
      BY <1>2, NumberIs DEF BothShort
    <2>2. a.short = val(a.short % Prime) /\ b.short = val(b.short % Prime)
      BY <2>1, ShortValues
    <2>3. eq(a, b) <=> a.short = b.short
      BY <1>2 DEF eq
    <2> QED  BY <2>1, <2>2, <2>3
  <1>3. CASE ~BothShort(a, b) /\ InMontgomery(a, b)
    <2>1. eq(a, b) <=> Product(toMpz(a), R) = Product(toMpz(b), R)
      <3>1. eq(a, b) <=> toMontgomery(a) = toMontgomery(b)
        BY <1>3 DEF eq
      <3> QED  BY <3>1, NumberIs
    <2>2. /\ Product(Product(toMpz(a), R), Rinv) = toMpz(a)
          /\ Product(Product(toMpz(b), R), Rinv) = toMpz(b)
      BY <1>1, Cancels
    <2> QED  BY <2>1, <2>2
  <1>4. CASE ~BothShort(a, b) /\ ~InMontgomery(a, b)
    BY <1>4 DEF eq, toMpz
  <1> QED  BY <1>2, <1>3, <1>4

\* Comparisons are those of the signed values.
LEMMA OrderIs ==
    ASSUME FieldFits, NEW a, NEW b, Valid(a), Valid(b)
    PROVE  /\ lt(a, b) <=> val(toMpz(a)) < val(toMpz(b))
           /\ gt(a, b) <=> val(toMpz(a)) > val(toMpz(b))
           /\ val(toMpz(a)) \in Int /\ val(toMpz(b)) \in Int
  <1> DEFINE x == toMpz(a)
             y == toMpz(b)
             p == Prime
             h == half
  <1>1. p \in Nat \ {0} /\ x \in 0..p - 1 /\ y \in 0..p - 1 /\ h \in Int /\ Top = h
    <2>1. p \in Nat \ {0} /\ x \in 0..p - 1 /\ y \in 0..p - 1
      BY NumberIs, ShortsAre, Sizes
    <2>2. h \in Int /\ Top = h
      BY <2>1, DivMod DEF half, Top
    <2> QED  BY <2>1, <2>2
  <1>2. /\ val(x) = IF h + 1 <= x THEN x - p ELSE x
        /\ val(y) = IF h + 1 <= y THEN y - p ELSE y
    BY <1>1 DEF val
  <1>3. CASE BothShort(a, b)
    <2>1. /\ a.short \in Shorts /\ b.short \in Shorts
          /\ x = a.short % Prime /\ y = b.short % Prime
      BY <1>3, NumberIs DEF BothShort
    <2>2. val(x) = a.short /\ val(y) = b.short
      BY <2>1, ShortValues
    <2>3. (lt(a, b) <=> a.short < b.short) /\ (gt(a, b) <=> a.short > b.short)
      BY <1>3 DEF lt, gt
    <2>4. a.short \in Int /\ b.short \in Int
      BY <2>1, ShortsAre
    <2> QED  BY <2>2, <2>3, <2>4
  <1>4. CASE ~BothShort(a, b)
    <2>1. /\ lt(a, b) <=> LessRaw(x, y)
          /\ gt(a, b) <=> GreaterRaw(x, y)
      BY <1>4, Zenon DEF lt, gt, toMpz
    <2>2. /\ LessRaw(x, y) <=> IF h < x THEN h < y => x < y ELSE ~(h < y) /\ x < y
          /\ GreaterRaw(x, y) <=> IF h < x THEN h < y /\ x > y ELSE h < y \/ x > y
      BY Zenon DEF LessRaw, GreaterRaw
    <2> HIDE DEF x, y, p, h
    <2>3. CASE h < x /\ h < y
      BY <1>1, <1>2, <2>1, <2>2, <2>3 DEF x, y
    <2>4. CASE h < x /\ ~(h < y)
      BY <1>1, <1>2, <2>1, <2>2, <2>4 DEF x, y
    <2>5. CASE ~(h < x) /\ h < y
      BY <1>1, <1>2, <2>1, <2>2, <2>5 DEF x, y
    <2>6. CASE ~(h < x) /\ ~(h < y)
      BY <1>1, <1>2, <2>1, <2>2, <2>6 DEF x, y
    <2> QED  BY <2>3, <2>4, <2>5, <2>6
  <1> QED  BY <1>3, <1>4

\* An element is true unless it stands for 0.
LEMMA IsTrueIs ==
    ASSUME FieldFits, NEW a, Valid(a)
    PROVE  isTrue(a) <=> toMpz(a) # 0
  <1> DEFINE x == toMpz(a)
  <1>1. FitsLimbs /\ x \in Element /\ Prime \in Nat \ {0, 1} /\ R \in Int /\ Rinv \in Int
    BY NumberIs, ShortsAre, Sizes, RInverse
  <1>2. CASE IsShort(a)
    <2>1. a.short \in Shorts /\ x = a.short % Prime
      BY <1>2, NumberIs
    <2>2. x = 0 <=> a.short = 0
      BY <2>1, ShortValues
    <2>3. isTrue(a) <=> a.short # 0
      BY <1>2 DEF isTrue
    <2> QED  BY <2>2, <2>3
  <1>3. CASE ~IsShort(a) /\ a.type = "long"
    BY <1>3, NumberIs DEF isTrue
  <1>4. CASE ~IsShort(a) /\ a.type # "long"
    <2>1. a.long = Product(x, R) /\ (isTrue(a) <=> a.long # 0)
      BY <1>4, NumberIs DEF isTrue, IsShort, IsMontgomery
    <2>2. \A z \in Int : Product(0, z) = 0
      <3>1. ASSUME NEW z \in Int  PROVE  0 * z = 0
        OBVIOUS
      <3>2. 0 % Prime = 0
        BY <1>1, ModSmall
      <3> QED  BY <3>1, <3>2 DEF Product
    <2>3. Product(0, R) = 0 /\ Product(0, Rinv) = 0
      BY <1>1, <2>2
    <2>4. Product(Product(x, R), Rinv) = x
      BY <1>1, Cancels
    <2> QED  BY <2>1, <2>3, <2>4
  <1> QED  BY <1>2, <1>3, <1>4

\* A truth value is the element 0 or 1.
LEMMA TruthIs ==
    ASSUME FieldFits, NEW p
    PROVE  StandsFor(Truth(p), TruthValue(p))
  <1> DEFINE t == TruthValue(p)
  <1>1. t \in {0, 1}
    BY DEF TruthValue
  <1> HIDE DEF t
  <1>2. t \in Shorts /\ t >= 0
    BY <1>1, ShortsAre
  <1>3. t % Prime = t
    BY <1>2, ShortValues
  <1>4. Valid(Short(t)) /\ toMpz(Short(t)) = t
    BY <1>2, <1>3, MadeIs
  <1> QED  BY <1>4 DEF StandsFor, Truth, t

\* In every representation a program compares elements as the compiler does.
THEOREM ComparisonsAgree ==
    ASSUME FieldFits, NEW op \in Comparison, NEW a, NEW b, Valid(a), Valid(b)
    PROVE  StandsFor(Apply(op, a, b), Result(op, toMpz(a), toMpz(b)))
  <1> DEFINE x == toMpz(a)
             y == toMpz(b)
  <1>1. /\ eq(a, b) <=> x = y
        /\ lt(a, b) <=> val(x) < val(y)
        /\ gt(a, b) <=> val(x) > val(y)
        /\ val(x) \in Int /\ val(y) \in Int
    BY EqIs, OrderIs
  <1> HIDE DEF x, y
  <1>2. (~gt(a, b) <=> val(x) <= val(y)) /\ (~lt(a, b) <=> val(x) >= val(y))
    BY <1>1
  <1>3. CASE op = "Eq"
    <2>1. Apply(op, a, b) = Truth(eq(a, b)) /\ Result(op, x, y) = TruthValue(x = y)
      BY <1>3 DEF Apply, Result
    <2>2. TruthValue(eq(a, b)) = TruthValue(x = y)
      BY <1>1 DEF TruthValue
    <2> QED  BY <2>1, <2>2, TruthIs DEF x, y
  <1>4. CASE op = "NotEq"
    <2>1. Apply(op, a, b) = Truth(~eq(a, b)) /\ Result(op, x, y) = TruthValue(x # y)
      BY <1>4 DEF Apply, Result
    <2>2. TruthValue(~eq(a, b)) = TruthValue(x # y)
      BY <1>1 DEF TruthValue
    <2> QED  BY <2>1, <2>2, TruthIs DEF x, y
  <1>5. CASE op = "Lesser"
    <2>1. Apply(op, a, b) = Truth(lt(a, b)) /\ Result(op, x, y) = TruthValue(val(x) < val(y))
      BY <1>5 DEF Apply, Result
    <2>2. TruthValue(lt(a, b)) = TruthValue(val(x) < val(y))
      BY <1>1 DEF TruthValue
    <2> QED  BY <2>1, <2>2, TruthIs DEF x, y
  <1>6. CASE op = "LesserEq"
    <2>1. Apply(op, a, b) = Truth(~gt(a, b)) /\ Result(op, x, y) = TruthValue(val(x) <= val(y))
      BY <1>6 DEF Apply, Result
    <2>2. TruthValue(~gt(a, b)) = TruthValue(val(x) <= val(y))
      BY <1>2 DEF TruthValue
    <2> QED  BY <2>1, <2>2, TruthIs DEF x, y
  <1>7. CASE op = "Greater"
    <2>1. Apply(op, a, b) = Truth(gt(a, b)) /\ Result(op, x, y) = TruthValue(val(x) > val(y))
      BY <1>7 DEF Apply, Result
    <2>2. TruthValue(gt(a, b)) = TruthValue(val(x) > val(y))
      BY <1>1 DEF TruthValue
    <2> QED  BY <2>1, <2>2, TruthIs DEF x, y
  <1>8. CASE op = "GreaterEq"
    <2>1. Apply(op, a, b) = Truth(~lt(a, b)) /\ Result(op, x, y) = TruthValue(val(x) >= val(y))
      BY <1>8 DEF Apply, Result
    <2>2. TruthValue(~lt(a, b)) = TruthValue(val(x) >= val(y))
      BY <1>2 DEF TruthValue
    <2> QED  BY <2>1, <2>2, TruthIs DEF x, y
  <1> QED  BY <1>3, <1>4, <1>5, <1>6, <1>7, <1>8 DEF Comparison

\* In every representation a program takes the elements as true that the
\* compiler takes as true.
THEOREM BooleansAgree ==
    ASSUME FieldFits, NEW op \in Boolean, NEW a, NEW b, Valid(a), Valid(b)
    PROVE  StandsFor(Apply(op, a, b), Result(op, toMpz(a), toMpz(b)))
  <1> DEFINE x == toMpz(a)
             y == toMpz(b)
  <1>1. (isTrue(a) <=> x # 0) /\ (isTrue(b) <=> y # 0)
    BY IsTrueIs
  <1> HIDE DEF x, y
  <1>2. CASE op = "BoolOr"
    <2>1. /\ Apply(op, a, b) = Truth(isTrue(a) \/ isTrue(b))
          /\ Result(op, x, y) = TruthValue(x # 0 \/ y # 0)
      BY <1>2 DEF Apply, Result
    <2>2. TruthValue(isTrue(a) \/ isTrue(b)) = TruthValue(x # 0 \/ y # 0)
      BY <1>1 DEF TruthValue
    <2> QED  BY <2>1, <2>2, TruthIs DEF x, y
  <1>3. CASE op = "BoolAnd"
    <2>1. /\ Apply(op, a, b) = Truth(isTrue(a) /\ isTrue(b))
          /\ Result(op, x, y) = TruthValue(x # 0 /\ y # 0)
      BY <1>3 DEF Apply, Result
    <2>2. TruthValue(isTrue(a) /\ isTrue(b)) = TruthValue(x # 0 /\ y # 0)
      BY <1>1 DEF TruthValue
    <2> QED  BY <2>1, <2>2, TruthIs DEF x, y
  <1>4. CASE op = "BoolNot"
    <2>1. Apply(op, a, b) = Truth(~isTrue(a)) /\ Result(op, x, y) = TruthValue(x = 0)
      BY <1>4 DEF Apply, Result
    <2>2. TruthValue(~isTrue(a)) = TruthValue(x = 0)
      BY <1>1 DEF TruthValue
    <2> QED  BY <2>1, <2>2, TruthIs DEF x, y
  <1> QED  BY <1>2, <1>3, <1>4 DEF Boolean

\* An element that stands for a small number becomes that int, from whatever
\* representation, when it is used as an index.
THEOREM IntsAgree ==
    ASSUME FieldFits, NEW e, Valid(e),
           val(toMpz(e)) \in -ShortSize + 1..ShortSize - 1
    PROVE  toInt(e) = val(toMpz(e))
  <1> DEFINE r == toMpz(e)
             n == val(r)
             p == Prime
             w == Word
             m == ShortSize
  <1>1. /\ p \in Nat \ {0} /\ w \in Nat \ {0, 1} /\ m \in Nat \ {0, 1} /\ 2 * m < p /\ 2 * m <= w
        /\ r \in 0..p - 1 /\ Shorts = -m..m - 1
    BY NumberIs, ShortsAre, Sizes
  <1>2. Top \in Int /\ n = IF Top + 1 <= r THEN r - p ELSE r
    BY <1>1, DivMod DEF val, Top
  <1>3. CASE IsShort(e)
    <2>1. toInt(e) = e.short
      BY <1>3 DEF toInt
    <2>2. e.short \in Shorts /\ r = e.short % p
      BY <1>3, NumberIs
    <2>3. n = e.short
      BY <2>2, ShortValues
    <2> QED  BY <2>1, <2>3
  <1>4. CASE ~IsShort(e)
    <2>1. toInt(e) = IF r % w < m /\ r < w THEN r ELSE longNeg(r)
      BY <1>4 DEF toInt, toMpz
    <2>2. longNeg(r) = IF r < p /\ LowDifference(r) < 0 /\ LowDifference(r) \in Shorts
                       THEN LowDifference(r) ELSE Refused
      BY DEF longNeg
    <2> DEFINE d == ((r % w) - (p % w)) % w
               v == w \div 2
    <2>3. LowDifference(r) = IF d >= v THEN d - w ELSE d
      BY DEF LowDifference
    <2>n. n \in -m + 1..m - 1
      OBVIOUS
    <2> HIDE DEF r, n, p, w, m
    <2>4. r < w => r % w = r
      <3>1. w \in Nat \ {0} /\ r \in Int /\ r >= 0
        BY <1>1
      <3> QED  BY <3>1, ModSmall
    <2>5. CASE n >= 0
      <3>1. r = n
        BY <1>1, <1>2, <2>5
      <3> QED  BY <1>1, <2>1, <2>4, <2>n, <3>1 DEF n, r
    <2>6. CASE n < 0
      <3>1. r = n + p
        BY <1>1, <1>2, <2>6
      <3>2. ~(r % w < m /\ r < w)
        BY <1>1, <2>4, <2>n, <3>1
      <3>3. d = n + w
        <4>n. w \in Nat \ {0} /\ r \in Int /\ p \in Int
          BY <1>1
        <4>1. PICK i \in Int : r % w = r + w * i
          BY <4>n, ModDiffers
        <4>2. PICK j \in Int : p % w = p + w * j
          BY <4>n, ModDiffers
        <4> DEFINE u == (r % w) - (p % w)
        <4>3. u = n + w * (i - j) /\ u \in Int /\ i - j \in Int /\ n \in Int
          BY <1>1, <2>n, <3>1, <4>1, <4>2
        <4> HIDE DEF u
        <4>4. u % w = n % w
          BY <1>1, <4>3, SameMod
        <4>5. n \in -w..-1
          BY <1>1, <2>6, <2>n
        <4>6. n % w = n + w
          BY <1>1, <4>3, <4>5, ModSmall
        <4> QED  BY <4>4, <4>6 DEF u
      <3> HIDE DEF d
      <3>4. v \in Int /\ 2 * v <= w
        <4>1. w \in Int /\ 2 \in Nat \ {0}
          BY <1>1
        <4>2. v \in Int /\ w % 2 \in 0..2 - 1 /\ w = 2 * v + (w % 2)
          BY <4>1, DivMod
        <4> QED  BY <4>2
      <3> HIDE DEF v
      <3>5. d >= v /\ d - w = n /\ n \in Shorts /\ r < p
        BY <1>1, <2>6, <2>n, <3>1, <3>3, <3>4
      <3>6. LowDifference(r) = n
        BY <2>3, <3>5
      <3>7. longNeg(r) = n
        BY <2>2, <2>6, <3>5, <3>6
      <3> QED  BY <2>1, <3>2, <3>7 DEF n, r
    <2> QED  BY <1>1, <2>5, <2>6, <2>n
  <1> QED  BY <1>3, <1>4

-----------------------------------------------------------------------------
(* Bits *)

\* Clearing the bits above those of the prime leaves at most one prime to subtract.
LEMMA MaskedIs ==
    ASSUME FitsLimbs, NEW r \in Nat
    PROVE  /\ Masked(r) = (r % TwoTo[qbits]) % Prime
           /\ Masked(r) \in Element
  <1> DEFINE t == TwoTo[qbits]
             n == r % t
             p == Prime
  <1>1. /\ p \in Nat \ {0} /\ Capacity \in Nat \ {0} /\ p <= Capacity /\ Element = 0..p - 1
        /\ p \in Nat /\ p > 2
    BY Sizes DEF FitsLimbs
  <1>2. t \in Nat \ {0} /\ t <= 2 * p
    BY <1>1, QbitsIs
  <1>3. n \in 0..t - 1
    <2>1. r \in Int
      OBVIOUS
    <2> HIDE DEF t
    <2> QED  BY <1>2, <2>1, DivMod
  <1>4. Masked(r) = IF n >= p THEN (n - p) % Capacity ELSE n
    BY DEF Masked, LessPrime
  <1> HIDE DEF t, n, p
  <1>5. CASE n >= p
    <2>1. n - p \in 0..p - 1 /\ n - p \in 0..Capacity - 1 /\ n - p \in Int /\ n \in Int /\ n \in p..2 * p - 1
      BY <1>1, <1>2, <1>3, <1>5
    <2>2. (n - p) % Capacity = n - p
      BY <1>1, <2>1, ModSmall
    <2>3. n % p = n - p
      BY <1>1, <2>1, ModSmall
    <2> QED  BY <1>1, <1>4, <1>5, <2>1, <2>2, <2>3 DEF n, t, p
  <1>6. CASE ~(n >= p)
    <2>1. n \in 0..p - 1 /\ n \in Int
      BY <1>1, <1>2, <1>3, <1>6
    <2>2. n % p = n
      BY <1>1, <2>1, ModSmall
    <2> QED  BY <1>1, <1>4, <1>6, <2>1, <2>2 DEF n, t, p
  <1> QED  BY <1>5, <1>6

\* A number with bits of two elements has no bit too many; with bits of two
\* shorts it is a short.
LEMMA BitwiseIs ==
    ASSUME FieldFits, NEW x \in Element, NEW y \in Element, NEW S, S \subseteq Bits(x) \cup Bits(y)
    PROVE  /\ Masked(Number(S)) = Number(S) % Prime
           /\ Masked(Number(S)) \in Element
           /\ x < ShortSize /\ y < ShortSize => Number(S) \in Shorts
  <1>1. /\ FitsLimbs /\ Prime \in Nat /\ Prime > 2 /\ Element = 0..Prime - 1 /\ x \in Nat /\ y \in Nat
        /\ ShortSize \in Nat /\ Shorts = -ShortSize..ShortSize - 1
    BY Sizes, ShortsAre DEF FitsLimbs
  <1>2. Prime < TwoTo[qbits] /\ TwoTo[qbits] \in Nat \ {0} /\ qbits \in 2..Prime - 1
    BY <1>1, QbitsIs
  <1>3. Number(S) \in Nat /\ Masked(Number(S)) \in Element
        /\ Masked(Number(S)) = (Number(S) % TwoTo[qbits]) % Prime
    <2>1. Number(S) \in Nat
      <3>1. Number(S) \in 0..2 * TwoTo[qbits] - 1
        BY <1>1, NumberSize
      <3> QED  BY <1>2, <3>1
    <2> QED  BY <1>1, <2>1, MaskedIs
  <1>4. ASSUME NEW k \in 0..qbits, x < TwoTo[k], y < TwoTo[k]
        PROVE  Number(S) \in 0..TwoTo[k] - 1
    <2>0. TwoTo[k] \in Nat
      BY <1>1, <1>2, TwoToIs
    <2>1. Bits(x) \cap (k..qbits) = {}
      <3>1. x \in 0..TwoTo[k] - 1
        BY <1>1, <1>4, <2>0
      <3> QED  BY <1>1, <3>1, BitsBelow
    <2>2. Bits(y) \cap (k..qbits) = {}
      <3>1. y \in 0..TwoTo[k] - 1
        BY <1>1, <1>4, <2>0
      <3> QED  BY <1>1, <3>1, BitsBelow
    <2>3. S \cap (k..qbits) = {}
      BY <2>1, <2>2
    <2> QED  BY <1>1, <2>3, NumberSize
  <1>5. Number(S) % TwoTo[qbits] = Number(S)
    <2>1. qbits \in 0..qbits /\ x < TwoTo[qbits] /\ y < TwoTo[qbits]
      BY <1>1, <1>2
    <2>2. Number(S) \in 0..TwoTo[qbits] - 1
      BY <1>4, <2>1
    <2>3. Number(S) \in Int
      BY <1>3
    <2> QED  BY <1>2, <2>2, <2>3, ModSmall
  <1>6. ASSUME x < ShortSize, y < ShortSize
        PROVE  Number(S) \in Shorts
    <2>1. ShortBits - 1 \in 0..qbits /\ ShortSize = TwoTo[ShortBits - 1]
      BY <1>2 DEF FieldFits, ShortsFit, ShortSize
    <2>2. Number(S) \in 0..ShortSize - 1
      BY <1>4, <1>6, <2>1
    <2> QED  BY <1>1, <2>2
  <1> QED  BY <1>3, <1>5, <1>6

\* The operations on bits, in the representation that they choose.
LEMMA BitsOfElements ==
    ASSUME FieldFits, NEW a, NEW b, Valid(a), Valid(b), NEW S,
           S \subseteq Bits(toMpz(a)) \cup Bits(toMpz(b))
    PROVE  /\ StandsFor(Long(Masked(Number(S))), Number(S) % Prime)
           /\ IsShort(a) /\ IsShort(b) /\ Natural(a, b) =>
                 /\ a.short = toMpz(a) /\ b.short = toMpz(b)
                 /\ StandsFor(Short(Number(S)), Number(S) % Prime)
  <1> DEFINE x == toMpz(a)
             y == toMpz(b)
             r == Masked(Number(S))
  <1>1. x \in Element /\ y \in Element
    BY NumberIs
  <1>2. r = Number(S) % Prime /\ r \in Element
    BY <1>1, BitwiseIs
  <1>3. StandsFor(Long(r), r)
    BY <1>2, MadeIs DEF StandsFor
  <1>4. ASSUME IsShort(a), IsShort(b), Natural(a, b)
        PROVE  /\ a.short = x /\ b.short = y
               /\ StandsFor(Short(Number(S)), Number(S) % Prime)
    <2>1. /\ a.short \in Shorts /\ b.short \in Shorts /\ a.short >= 0 /\ b.short >= 0
          /\ x = a.short % Prime /\ y = b.short % Prime
      BY <1>4, NumberIs DEF Natural
    <2>2. a.short = x /\ b.short = y
      BY <2>1, ShortValues
    <2>3. x < ShortSize /\ y < ShortSize
      BY <2>1, <2>2, ShortsAre
    <2>4. Number(S) \in Shorts
      BY <1>1, <2>3, BitwiseIs
    <2> QED  BY <2>2, <2>4, MadeIs DEF StandsFor
  <1> QED  BY <1>2, <1>3, <1>4

Bitwise == {"BitOr", "BitAnd", "BitXor", "Complement"}

\* The operations on bits agree with the compiler's.
THEOREM BitsAgree ==
    ASSUME FieldFits, NEW op \in Bitwise, NEW a, NEW b, Valid(a), Valid(b)
    PROVE  StandsFor(Apply(op, a, b), Result(op, toMpz(a), toMpz(b)))
  <1> DEFINE x == toMpz(a)
             y == toMpz(b)
  <1>1. x = LongNormal(a) /\ y = LongNormal(b)
    BY DEF toMpz
  <1>2. CASE op = "BitAnd"
    <2> DEFINE S == Bits(x) \cap Bits(y)
    <2>1. /\ StandsFor(Long(Masked(Number(S))), Number(S) % Prime)
          /\ IsShort(a) /\ IsShort(b) /\ Natural(a, b) =>
                 /\ a.short = x /\ b.short = y
                 /\ StandsFor(Short(Number(S)), Number(S) % Prime)
      BY BitsOfElements
    <2>2. Result(op, x, y) = Number(S) % Prime /\ Apply(op, a, b) = band(a, b)
      BY <1>2 DEF Result, bit_and, Apply
    <2>3. \/ band(a, b) = Long(Masked(Number(S)))
          \/ IsShort(a) /\ IsShort(b) /\ Natural(a, b) /\ band(a, b) = Short(AndBits(a.short, b.short))
      BY <1>1 DEF band, and_s1s2, rawAnd, AndBits, BothShort
    <2> QED  BY <2>1, <2>2, <2>3 DEF AndBits
  <1>3. CASE op = "BitOr"
    <2> DEFINE S == Bits(x) \cup Bits(y)
    <2>1. /\ StandsFor(Long(Masked(Number(S))), Number(S) % Prime)
          /\ IsShort(a) /\ IsShort(b) /\ Natural(a, b) =>
                 /\ a.short = x /\ b.short = y
                 /\ StandsFor(Short(Number(S)), Number(S) % Prime)
      BY BitsOfElements
    <2>2. Result(op, x, y) = Number(S) % Prime /\ Apply(op, a, b) = bor(a, b)
      BY <1>3 DEF Result, bit_or, Apply
    <2>3. \/ bor(a, b) = Long(Masked(Number(S)))
          \/ IsShort(a) /\ IsShort(b) /\ Natural(a, b) /\ bor(a, b) = Short(OrBits(a.short, b.short))
      BY <1>1 DEF bor, or_s1s2, rawOr, OrBits, BothShort
    <2> QED  BY <2>1, <2>2, <2>3 DEF OrBits
  <1>4. CASE op = "BitXor"
    <2> DEFINE S == Xor(Bits(x), Bits(y))
    <2>1. /\ StandsFor(Long(Masked(Number(S))), Number(S) % Prime)
          /\ IsShort(a) /\ IsShort(b) /\ Natural(a, b) =>
                 /\ a.short = x /\ b.short = y
                 /\ StandsFor(Short(Number(S)), Number(S) % Prime)
      <3>1. S \subseteq Bits(x) \cup Bits(y)
        BY DEF Xor
      <3> HIDE DEF S
      <3> QED  BY <3>1, BitsOfElements
    <2>2. Result(op, x, y) = Number(S) % Prime /\ Apply(op, a, b) = bxor(a, b)
      BY <1>4 DEF Result, bit_xor, Apply
    <2>3. \/ bxor(a, b) = Long(Masked(Number(S)))
          \/ IsShort(a) /\ IsShort(b) /\ Natural(a, b) /\ bxor(a, b) = Short(XorBits(a.short, b.short))
      BY <1>1 DEF bxor, xor_s1s2, rawXor, XorBits, BothShort
    <2> QED  BY <2>1, <2>2, <2>3 DEF XorBits
  <1>5. CASE op = "Complement"
    <2> DEFINE S == (0..qbits) \ Bits(x)
               T == (0..qbits - 1) \ Bits(x)
    <2>0. /\ FitsLimbs /\ Prime \in Nat /\ Prime > 2 /\ qbits \in Nat /\ TwoTo[qbits] \in Nat
      <3>1. FitsLimbs /\ Prime \in Nat /\ Prime > 2
        BY DEF FieldFits, FitsLimbs
      <3> QED  BY <3>1, QbitsIs
    <2>1. Number(S) % TwoTo[qbits] = Number(T) /\ Number(S) \in Nat
      <3>1. S \ {qbits} = T
        BY <2>0
      <3> HIDE DEF S, T
      <3> QED  BY <2>0, <3>1, NumberSize
    <2> HIDE DEF S
    <2>2. Masked(Number(S)) = Number(T) % Prime /\ Masked(Number(S)) \in Element
      BY <2>0, <2>1, MaskedIs
    <2>3. Result(op, x, y) = Number(T) % Prime /\ Apply(op, a, b) = Long(Masked(Number(S)))
      BY <1>1, <1>5 DEF Result, complement, Apply, bnot, rawNot, S
    <2> HIDE DEF T
    <2> QED  BY <2>2, <2>3, MadeIs DEF StandsFor
  <1> QED  BY <1>2, <1>3, <1>4, <1>5 DEF Bitwise

-----------------------------------------------------------------------------
(* Shifts *)

\* A shift to the left by less bits than the prime has.
LEMMA ShlIs ==
    ASSUME FieldFits, NEW a, Valid(a), NEW n \in 0..qbits - 1
    PROVE  StandsFor(do_shl(a, n), ShiftedLeft(toMpz(a), n))
  <1> DEFINE x == toMpz(a)
             t == TwoTo[n]
             u == TwoTo[qbits]
             p == Prime
             v == x * t
  <1>1. /\ FitsLimbs /\ p \in Nat /\ p > 2 /\ p \in Nat \ {0} /\ Element = 0..p - 1
        /\ ShortSize \in Nat /\ Shorts = -ShortSize..ShortSize - 1 /\ 2 * ShortSize < p
    BY Sizes, ShortsAre DEF FitsLimbs
  <1>2. qbits \in 2..p - 1 /\ u \in Nat \ {0} /\ p < u
    BY <1>1, QbitsIs
  <1>3. t \in Nat \ {0} /\ (n = 0 => t = 1)
    BY <1>1, <1>2, TwoToIs
  <1>4. x \in Element /\ x \in Nat /\ x = LongNormal(a)
    BY <1>1, NumberIs DEF toMpz
  <1>5. ShiftedLeft(x, n) = (v % u) % p
    BY <1>2 DEF ShiftedLeft
  <1>6. v \in Nat
    <2> HIDE DEF x, t
    <2> QED  BY <1>3, <1>4
  <1>7. v < p => (v % u) % p = v
    <2> SUFFICES ASSUME v < p  PROVE  (v % u) % p = v
      OBVIOUS
    <2> HIDE DEF v, u, p
    <2>1. v \in 0..u - 1 /\ v \in 0..p - 1 /\ v \in Int
      BY <1>1, <1>2, <1>6
    <2>2. v % u = v /\ v % p = v
      BY <1>1, <1>2, <2>1, ModSmall
    <2> QED  BY <2>2
  <1>8. StandsFor(Long(rawShl(x, n)), (v % u) % p)
    <2>1. rawShl(x, n) = (v % u) % p /\ rawShl(x, n) \in Element
      <3>1. CASE n = 0
        <4>1. rawShl(x, n) = x
          BY <1>2, <3>1 DEF rawShl
        <4>2. v = x /\ v < p
          <5> HIDE DEF x, t
          <5> QED  BY <1>1, <1>3, <1>4, <3>1
        <4> QED  BY <1>4, <1>7, <4>1, <4>2
      <3>2. CASE n # 0
        <4>1. rawShl(x, n) = Masked(v)
          BY <1>2, <3>2 DEF rawShl
        <4> HIDE DEF v
        <4> QED  BY <1>1, <1>6, <4>1, MaskedIs
      <3> QED  BY <3>1, <3>2
    <2> QED  BY <2>1, MadeIs DEF StandsFor
  <1>9. CASE IsShort(a) /\ a.short = 0
    <2>1. do_shl(a, n) = Short(0)
      BY <1>9 DEF do_shl
    <2>2. x = 0 /\ 0 \in Shorts
      BY <1>9, NumberIs, ShortValues
    <2>3. v = 0 /\ v < p
      <3> HIDE DEF x, t
      <3> QED  BY <1>1, <1>3, <2>2
    <2>4. 0 % Prime = 0
      BY <1>1, ModSmall
    <2> QED  BY <1>5, <1>7, <2>1, <2>2, <2>3, <2>4, MadeIs DEF StandsFor
  <1>10. CASE IsShort(a) /\ a.short > 0 /\ a.short * TwoTo[n] \in Shorts
    <2>1. a.short \in Shorts /\ x = a.short % p
      BY <1>10, NumberIs
    <2>2. x = a.short
      <3>1. a.short >= 0
        BY <1>1, <1>10, <2>1
      <3> QED  BY <2>1, <3>1, ShortValues
    <2>3. v \in Shorts /\ v < p
      BY <1>1, <1>6, <1>10, <2>2
    <2>4. v % p = v
      BY <2>3, <1>6, ShortValues
    <2>5. StandsFor(Short(v), v)
      BY <2>3, <2>4, MadeIs DEF StandsFor
    <2>6. do_shl(a, n) = Short(v) \/ do_shl(a, n) = Long(rawShl(x, n))
      BY <1>4, <1>10, <2>2 DEF do_shl
    <2> HIDE DEF v, x
    <2> QED  BY <1>5, <1>7, <1>8, <2>3, <2>5, <2>6 DEF x
  <1>11. CASE /\ ~(IsShort(a) /\ a.short = 0)
              /\ ~(IsShort(a) /\ a.short > 0 /\ a.short * TwoTo[n] \in Shorts)
    <2>1. do_shl(a, n) = Long(rawShl(x, n))
      BY <1>4, <1>11 DEF do_shl
    <2> QED  BY <1>5, <1>8, <2>1
  <1> QED  BY <1>9, <1>10, <1>11

\* A shift to the right by less bits than the prime has.
LEMMA ShrIs ==
    ASSUME FieldFits, NEW a, Valid(a), NEW n \in 0..qbits - 1
    PROVE  StandsFor(do_shr(a, n), ShiftedRight(toMpz(a), n))
  <1> DEFINE x == toMpz(a)
             t == TwoTo[n]
             v == x \div t
  <1>1. /\ Prime \in Nat /\ Prime > 2 /\ Element = 0..Prime - 1
        /\ ShortSize \in Nat /\ Shorts = -ShortSize..ShortSize - 1
        /\ ShortBits - 1 \in 1..qbits /\ ShortSize = TwoTo[ShortBits - 1]
    BY Sizes, ShortsAre DEF FieldFits, FitsLimbs, ShortsFit, ShortSize
  <1>2. qbits \in 2..Prime - 1
    BY <1>1, QbitsIs
  <1>3. t \in Nat \ {0}
    BY <1>1, <1>2, TwoToIs
  <1>4. x \in Element /\ x \in Nat /\ x = LongNormal(a)
    BY <1>1, NumberIs DEF toMpz
  <1>5. ShiftedRight(x, n) = v /\ rawShr(x, n) = v
    BY <1>2 DEF ShiftedRight, rawShr
  <1>6. v \in 0..x /\ (x < t => v = 0)
    <2> HIDE DEF x, t
    <2> QED  BY <1>3, <1>4, DivSmall
  <1>7. v \in Element
    <2> HIDE DEF v, x
    <2> QED  BY <1>1, <1>4, <1>6
  <1>8. CASE ~IsShort(a) \/ a.short < 0
    <2>1. do_shr(a, n) = Long(v)
      BY <1>4, <1>5, <1>8 DEF do_shr
    <2> QED  BY <1>5, <1>7, <2>1, MadeIs DEF StandsFor
  <1>9. CASE IsShort(a) /\ ~(a.short < 0)
    <2>1. a.short \in Shorts /\ x = a.short % Prime
      BY <1>9, NumberIs
    <2>2. x = a.short /\ x < ShortSize
      <3>1. a.short >= 0 /\ a.short < ShortSize
        BY <1>1, <1>9, <2>1
      <3>2. x = a.short
        BY <2>1, <3>1, ShortValues
      <3> QED  BY <3>1, <3>2
    <2>3. v \in Shorts
      <3> HIDE DEF v, x
      <3> QED  BY <1>1, <1>4, <1>6, <2>2
    <2>4. v % Prime = v
      BY <2>3, <1>6, <1>4, ShortValues
    <2>5. StandsFor(Short(v), v)
      BY <2>3, <2>4, MadeIs DEF StandsFor
    <2>6. n >= ShortBits - 1 => v = 0
      <3> SUFFICES ASSUME n >= ShortBits - 1  PROVE  v = 0
        OBVIOUS
      <3> DEFINE k == ShortBits - 1
      <3>1. k \in 1..qbits /\ n >= k /\ ShortSize = TwoTo[k]
        BY <1>1
      <3> HIDE DEF k
      <3>2. n \in 0..Prime /\ k \in 0..n
        <4>1. n \in 0..qbits - 1
          OBVIOUS
        <4> QED  BY <1>1, <1>2, <3>1, <4>1
      <3>3. TwoTo[k] <= t /\ TwoTo[k] \in Nat
        BY <1>1, <3>1, <3>2, TwoToGrows
      <3> HIDE DEF x, t, v
      <3> QED  BY <1>3, <1>4, <1>6, <2>2, <3>1, <3>3
    <2>7. do_shr(a, n) = Short(IF n >= ShortBits - 1 THEN 0 ELSE v)
      BY <1>9, <2>2 DEF do_shr
    <2> HIDE DEF v, x
    <2> QED  BY <1>5, <2>5, <2>6, <2>7 DEF x
  <1> QED  BY <1>8, <1>9

\* By how much is shifted: if the amount does not have the sign that the compiler
\* gives it, then both are too large.
LEMMA AmountIs ==
    ASSUME FieldFits, IsPrime, NEW b, Valid(b)
    PROVE  /\ Amount(b) \in Int
           /\ toMpz(b) <= Top =>
                 \/ Amount(b) = toMpz(b)
                 \/ -Amount(b) >= qbits /\ toMpz(b) >= qbits
           /\ toMpz(b) > Top => Amount(b) = -(Prime - toMpz(b))
  <1> DEFINE y == toMpz(b)
             p == Prime
             q == qbits
             m == ShortSize
  <1>1. /\ p \in Nat /\ p > 2 /\ Element = 0..p - 1
        /\ m \in Nat /\ Shorts = -m..m - 1 /\ 2 * m < p
    BY Sizes, ShortsAre DEF FieldFits, FitsLimbs
  <1>2. q \in Nat /\ q <= Top + 1
    BY <1>1, QbitsIs
  <1>3. Top \in Int /\ p = 2 * Top + 1
    <2>1. 2 \in Nat \ {0} /\ p \in Int
      BY <1>1
    <2>2. p \div 2 \in Int /\ p % 2 \in 0..2 - 1 /\ p = 2 * (p \div 2) + (p % 2)
      BY <2>1, DivMod
    <2>3. p % 2 # 0
      <3>1. 2 \in 2..p - 1
        BY <1>1
      <3> QED  BY <3>1 DEF IsPrime
    <2> QED  BY <2>2, <2>3 DEF Top
  <1>4. y \in 0..p - 1 /\ y = LongNormal(b)
    BY <1>1, NumberIs DEF toMpz
  <1>5. CASE IsShort(b)
    <2>1. b.short \in Shorts /\ y = b.short % p /\ Amount(b) = b.short
      BY <1>5, NumberIs DEF Amount
    <2>2. (b.short >= 0 => y = b.short) /\ (b.short < 0 => y = b.short + p)
      BY <2>1, ShortValues
    <2> HIDE DEF y, p, q, m
    <2> QED  BY <1>1, <1>2, <1>3, <1>4, <2>1, <2>2 DEF y, p, q
  <1>6. CASE ~IsShort(b)
    <2>1. Amount(b) = IF y < q THEN y ELSE y - p
      BY <1>4, <1>6 DEF Amount
    <2> HIDE DEF y, p, q
    <2> QED  BY <1>1, <1>2, <1>3, <1>4, <2>1 DEF y, p, q
  <1> QED  BY <1>5, <1>6

Shifts == {"ShiftL", "ShiftR"}

\* The shifts, to either side and by any amount, agree with the compiler's.
THEOREM ShiftsAgree ==
    ASSUME FieldFits, IsPrime, NEW op \in Shifts, NEW a, NEW b, Valid(a), Valid(b)
    PROVE  StandsFor(Apply(op, a, b), Result(op, toMpz(a), toMpz(b)))
  <1> DEFINE x == toMpz(a)
             y == toMpz(b)
             n == Amount(b)
             q == qbits
  <1>1. /\ Prime \in Nat /\ Prime > 2 /\ y \in 0..Prime - 1
    BY NumberIs DEF FieldFits, FitsLimbs, Element
  <1>2. /\ q \in Nat /\ q <= Top + 1
        /\ Top \in Int
    <2>1. 2 \in Nat \ {0} /\ Prime \in Int
      BY <1>1
    <2>2. Top \in Int
      BY <2>1, DivMod DEF Top
    <2> QED  BY <1>1, <2>2, QbitsIs
  <1>3. /\ n \in Int
        /\ y <= Top => n = y \/ (-n >= q /\ y >= q)
        /\ y > Top => n = -(Prime - y)
    BY AmountIs
  <1>4. StandsFor(Short(0), 0)
    <2>1. 0 \in Shorts
      BY ShortsAre
    <2>2. 0 % Prime = 0
      <3>1. Prime \in Nat \ {0} /\ 0 \in 0..Prime - 1
        BY <1>1
      <3> QED  BY <3>1, ModSmall
    <2> QED  BY <2>1, <2>2, MadeIs DEF StandsFor
  <1>5. \A i \in 0..q - 1 : /\ StandsFor(do_shl(a, i), ShiftedLeft(x, i))
                            /\ StandsFor(do_shr(a, i), ShiftedRight(x, i))
    BY ShlIs, ShrIs
  <1>6. \A i \in Int : i >= q => ShiftedLeft(x, i) = 0 /\ ShiftedRight(x, i) = 0
    BY DEF ShiftedLeft, ShiftedRight
  <1>7. /\ shl(a, b) = IF n >= q \/ -n >= q THEN Short(0)
                       ELSE IF n < 0 THEN do_shr(a, -n) ELSE do_shl(a, n)
        /\ shr(a, b) = IF n >= q \/ -n >= q THEN Short(0)
                       ELSE IF n < 0 THEN do_shl(a, -n) ELSE do_shr(a, n)
    BY DEF shl, shr
  <1>8. /\ op = "ShiftL" => Apply(op, a, b) = shl(a, b) /\ Result(op, x, y) = shift_l(x, y)
        /\ op = "ShiftR" => Apply(op, a, b) = shr(a, b) /\ Result(op, x, y) = shift_r(x, y)
    BY DEF Apply, Result
  <1>9. /\ shift_l(x, y) = IF y <= Top THEN ShiftedLeft(x, y) ELSE ShiftedRight(x, Prime - y)
        /\ shift_r(x, y) = IF y <= Top THEN ShiftedRight(x, y) ELSE ShiftedLeft(x, Prime - y)
    BY DEF shift_l, shift_r
  <1> HIDE DEF x, y, n, q
  <1>10. CASE y <= Top /\ n = y
    <2>1. CASE n >= q
      <3>1. shl(a, b) = Short(0) /\ shr(a, b) = Short(0)
        BY <1>7, <2>1
      <3>2. shift_l(x, y) = 0 /\ shift_r(x, y) = 0
        BY <1>3, <1>6, <1>9, <1>10, <2>1
      <3> QED  BY <1>4, <1>8, <3>1, <3>2 DEF Shifts, x, y
    <2>2. CASE n < q
      <3>1. n \in 0..q - 1 /\ ~(n >= q \/ -n >= q) /\ ~(n < 0)
        BY <1>1, <1>2, <1>3, <1>10, <2>2
      <3>2. shl(a, b) = do_shl(a, n) /\ shr(a, b) = do_shr(a, n)
        BY <1>7, <3>1
      <3> QED  BY <1>5, <1>8, <1>9, <1>10, <3>1, <3>2 DEF Shifts, x, y
    <2> QED  BY <1>2, <1>3, <2>1, <2>2
  <1>11. CASE y <= Top /\ -n >= q /\ y >= q
    <2>1. shl(a, b) = Short(0) /\ shr(a, b) = Short(0)
      BY <1>7, <1>11
    <2>2. shift_l(x, y) = 0 /\ shift_r(x, y) = 0
      BY <1>1, <1>6, <1>9, <1>11
    <2> QED  BY <1>4, <1>8, <2>1, <2>2 DEF Shifts, x, y
  <1>12. CASE y > Top
    <2> DEFINE i == Prime - y
    <2>1. i \in Nat \ {0} /\ n = -i /\ -n = i /\ ~(y <= Top)
      BY <1>1, <1>2, <1>3, <1>12
    <2>2. CASE i >= q
      <3>1. shl(a, b) = Short(0) /\ shr(a, b) = Short(0)
        BY <1>7, <2>1, <2>2
      <3>2. shift_l(x, y) = 0 /\ shift_r(x, y) = 0
        BY <1>6, <1>9, <2>1, <2>2
      <3> QED  BY <1>4, <1>8, <3>1, <3>2 DEF Shifts, x, y
    <2>3. CASE i < q
      <3>1. i \in 0..q - 1 /\ ~(n >= q \/ -n >= q) /\ n < 0
        BY <1>2, <2>1, <2>3
      <3>2. shl(a, b) = do_shr(a, i) /\ shr(a, b) = do_shl(a, i)
        BY <1>7, <2>1, <3>1
      <3> QED  BY <1>5, <1>8, <1>9, <2>1, <3>1, <3>2 DEF Shifts, x, y
    <2> QED  BY <1>2, <2>1, <2>2, <2>3
  <1> QED  BY <1>1, <1>2, <1>3, <1>10, <1>11, <1>12

\* Every operator of the language, on elements in any representation, leaves an
\* element that stands for the number that the compiler computes.
THEOREM OperationsAgree ==
    ASSUME FieldFits, IsPrime, NEW op \in Operators, NEW a, NEW b, Valid(a), Valid(b),
           Defined(op, toMpz(b))
    PROVE  StandsFor(Apply(op, a, b), Result(op, toMpz(a), toMpz(b)))
  <1>1. op \in Arithmetic \cup Comparison \cup Boolean \cup Bitwise \cup Shifts
    BY DEF Operators, Unary, Arithmetic, Comparison, Boolean, Bitwise, Shifts
  <1> QED  BY <1>1, ArithmeticAgrees, ComparisonsAgree, BooleansAgree, BitsAgree, ShiftsAgree
=============================================================================
