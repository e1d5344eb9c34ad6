----------------------- MODULE FieldArithmetic_proofs -----------------------
(***************************************************************************)
(* Proofs about the arithmetic of the compiler, for every prime: inverses  *)
(* exist, and powers obey the laws that a faster algorithm relies on; and  *)
(* before them facts about division, remainders and least numbers that     *)
(* these proofs and others rest on.                                        *)
(***************************************************************************)
EXTENDS FieldArithmetic, FiniteSetTheorems, TLAPS

-----------------------------------------------------------------------------
(* Remainders *)

\* What a division by a positive number returns.
LEMMA DivMod ==
    ASSUME NEW m \in Nat \ {0}, NEW n \in Int
    PROVE  /\ n \div m \in Int /\ n % m \in 0..m - 1
           /\ n = m * (n \div m) + (n % m)
  OBVIOUS

\* A positive multiple of a number is not below it.
LEMMA AtLeast ==
    ASSUME NEW m \in Nat \ {0}, NEW x \in Int, x > 0
    PROVE  m * x >= m
  OBVIOUS

\* Quotient and remainder are unique.
LEMMA ModUnique ==
    ASSUME NEW m \in Nat \ {0}, NEW q \in Int, NEW r \in 0..m - 1
    PROVE  (m * q + r) % m = r /\ (m * q + r) \div m = q
  <1> DEFINE n == m * q + r
             p == n \div m
             s == n % m
  <1>1. n \in Int /\ p \in Int /\ s \in 0..m - 1 /\ n = m * p + s
    BY DivMod
  <1>2. m * (q - p) = s - r /\ m * (p - q) = r - s
    BY <1>1
  <1>3. q - p > 0 => m * (q - p) >= m
    BY <1>1, AtLeast
  <1>4. p - q > 0 => m * (p - q) >= m
    BY <1>1, AtLeast
  <1> HIDE DEF p, s, n
  <1>5. p = q
    BY <1>1, <1>2, <1>3, <1>4
  <1>6. s = r
    BY <1>1, <1>2, <1>5
  <1> QED  BY <1>5, <1>6 DEF p, s, n

\* Two numbers that differ by a multiple leave the same remainder.
LEMMA SameMod ==
    ASSUME NEW m \in Nat \ {0}, NEW x \in Int, NEW y \in Int, NEW k \in Int, x = y + m * k
    PROVE  x % m = y % m
  <1> DEFINE q == y \div m
             r == y % m
  <1>1. q \in Int /\ r \in 0..m - 1 /\ y = m * q + r
    BY DivMod
  <1> HIDE DEF q, r
  <1>2. x = m * (q + k) + r /\ q + k \in Int
    BY <1>1
  <1>3. x % m = r
    BY <1>1, <1>2, ModUnique
  <1> QED  BY <1>3 DEF r

\* Two numbers with the same remainder differ by a multiple.
LEMMA DifferBy ==
    ASSUME NEW m \in Nat \ {0}, NEW x \in Int, NEW y \in Int, x % m = y % m
    PROVE  \E k \in Int : x = y + m * k
  <1> DEFINE k == (x \div m) - (y \div m)
  <1>1. /\ x \div m \in Int /\ y \div m \in Int
        /\ x = m * (x \div m) + (x % m) /\ y = m * (y \div m) + (y % m)
        /\ x % m \in Int
    BY DivMod
  <1>2. x = y + m * k /\ k \in Int
    BY <1>1
  <1> QED  BY <1>2

\* The remainder of a number differs from it by a multiple.
LEMMA ModDiffers ==
    ASSUME NEW m \in Nat \ {0}, NEW x \in Int
    PROVE  \E k \in Int : x % m = x + m * k
  <1> DEFINE k == -(x \div m)
  <1>1. x \div m \in Int /\ x = m * (x \div m) + (x % m) /\ x % m \in Int
    BY DivMod
  <1>2. x % m = x + m * k /\ k \in Int
    BY <1>1
  <1> QED  BY <1>2

\* A remainder is one of the numbers that have it.
LEMMA ModOfSame ==
    ASSUME NEW m \in Nat \ {0}, NEW x \in Int, NEW r \in 0..m - 1, NEW k \in Int, r = x + m * k
    PROVE  x % m = r
  <1>1. x = m * (-k) + r /\ -k \in Int
    OBVIOUS
  <1> QED  BY <1>1, ModUnique

\* Remainders of small numbers.
LEMMA ModSmall ==
    ASSUME NEW m \in Nat \ {0}, NEW x \in Int
    PROVE  /\ x \in 0..m - 1 => x % m = x
           /\ x \in m..2 * m - 1 => x % m = x - m
           /\ x \in -m..-1 => x % m = x + m
           /\ x % m \in 0..m - 1
  <1>1. ASSUME x \in 0..m - 1  PROVE  x % m = x
    <2>1. x = m * 0 + x
      BY <1>1
    <2> QED  BY <1>1, <2>1, ModUnique
  <1>2. ASSUME x \in m..2 * m - 1  PROVE  x % m = x - m
    <2>1. x = m * 1 + (x - m) /\ x - m \in 0..m - 1
      BY <1>2
    <2> QED  BY <2>1, ModUnique
  <1>3. ASSUME x \in -m..-1  PROVE  x % m = x + m
    <2>1. x = m * (-1) + (x + m) /\ x + m \in 0..m - 1
      BY <1>3
    <2> QED  BY <2>1, ModUnique
  <1> QED  BY <1>1, <1>2, <1>3, DivMod

\* A factor may be replaced by its remainder.
LEMMA ModTimes ==
    ASSUME NEW m \in Nat \ {0}, NEW x \in Int, NEW y \in Int
    PROVE  ((x % m) * y) % m = (x * y) % m
  <1> DEFINE q == x \div m
             r == x % m
  <1>1. q \in Int /\ r \in Int /\ x = m * q + r
    BY DivMod
  <1> HIDE DEF q, r
  <1>2. r * y = x * y + m * (-(q * y)) /\ r * y \in Int /\ x * y \in Int /\ -(q * y) \in Int
    BY <1>1
  <1>3. (r * y) % m = (x * y) % m
    BY <1>2, SameMod
  <1> QED  BY <1>3 DEF r

\* Division makes a number smaller, and a small one 0.
LEMMA DivSmall ==
    ASSUME NEW m \in Nat \ {0}, NEW x \in Nat
    PROVE  x \div m \in 0..x /\ (x < m => x \div m = 0)
  <1> DEFINE q == x \div m
             r == x % m
  <1>1. q \in Int /\ r \in 0..m - 1 /\ x = m * q + r
    BY DivMod
  <1> HIDE DEF q, r
  <1>2. q >= 0
    <2> SUFFICES ASSUME q < 0  PROVE  FALSE
      BY <1>1
    <2>1. -q \in Int /\ -q > 0 /\ m * (-q) = -(m * q) /\ m * q \in Int
      BY <1>1
    <2>2. m * (-q) >= m
      BY <2>1, AtLeast
    <2> QED  BY <1>1, <2>1, <2>2
  <1>3. m * q >= q /\ m * q \in Int
    BY <1>1, <1>2
  <1>4. q > 0 => m * q >= m
    BY <1>1, AtLeast
  <1> QED  BY <1>1, <1>2, <1>3, <1>4 DEF q

-----------------------------------------------------------------------------
(* Least numbers and induction *)

\* A set of naturals that is not empty has a least element: with it a fact
\* about every natural is proved by looking at the least one it fails for.
LEMMA HasLeast ==
    ASSUME NEW S \in SUBSET Nat, S # {}
    PROVE  \E n \in S : \A j \in S : n <= j
  <1> DEFINE T == {0..y : y \in S}
  <1>1. T \subseteq FiniteSubsetsOf(Nat)
    <2>1. \A y \in S : IsFiniteSet(0..y) /\ 0..y \in SUBSET Nat
      BY FS_Interval
    <2> QED  BY <2>1 DEF FiniteSubsetsOf
  <1>2. PICK X \in T : \A Y \in T : <<Y, X>> \notin StrictSubsetOrdering(Nat)
    <2>1. T # {}
      OBVIOUS
    <2> HIDE DEF T
    <2> QED  BY <1>1, <2>1, FS_StrictSubsetOrderingWellFounded, WFMin
  <1>3. PICK x \in S : X = 0..x
    BY <1>2
  <1>4. ASSUME NEW y \in S  PROVE  x <= y
    <2> SUFFICES ASSUME y < x  PROVE  FALSE
      OBVIOUS
    <2>1. 0..y \subseteq 0..x /\ 0..y # 0..x
      BY <1>3
    <2>2. 0..y \in SUBSET Nat /\ 0..x \in SUBSET Nat
      OBVIOUS
    <2>3. <<0..y, 0..x>> \in StrictSubsetOrdering(Nat)
      BY <2>1, <2>2 DEF StrictSubsetOrdering
    <2> QED  BY <1>2, <1>3, <2>3
  <1> QED  BY <1>4

\* A set of naturals that has 0 and with a number the next one has them all.
LEMMA NatsInduct ==
    ASSUME NEW Q, 0 \in Q, \A n \in Nat : n \in Q => n + 1 \in Q
    PROVE  Nat \subseteq Q
  <1> DEFINE S == Nat \ Q
  <1> SUFFICES ASSUME S # {}  PROVE  FALSE
    OBVIOUS
  <1>1. PICK n \in S : \A j \in S : n <= j
    <2> S \in SUBSET Nat
      OBVIOUS
    <2> HIDE DEF S
    <2> QED  BY HasLeast
  <1>2. n # 0 /\ n - 1 \in Nat /\ n - 1 \notin S
    BY <1>1
  <1> QED  BY <1>1, <1>2

\* The same for the numbers up to a bound.
LEMMA UpToInduct ==
    ASSUME NEW k \in Nat, NEW Q, 0 \in Q, \A n \in 0..k - 1 : n \in Q => n + 1 \in Q
    PROVE  \A n \in 0..k : n \in Q
  <1> DEFINE R == {n \in Nat : n <= k => n \in Q}
  <1>1. 0 \in R /\ \A n \in Nat : n \in R => n + 1 \in R
    OBVIOUS
  <1> HIDE DEF R
  <1>2. Nat \subseteq R
    BY <1>1, NatsInduct
  <1> QED  BY <1>2 DEF R

\* A set of subsets of a finite set that has every subset whose parts with one
\* element less it has, has the whole set.
LEMMA SubsetsInduct ==
    ASSUME NEW S, IsFiniteSet(S), NEW Q,
           \A T \in SUBSET S : (\A x \in T : T \ {x} \in Q) => T \in Q
    PROVE  \A T \in SUBSET S : T \in Q
  <1> DEFINE R == {n \in Nat : \A T \in SUBSET S : Cardinality(T) = n => T \in Q}
  <1>1. \A T \in SUBSET S : IsFiniteSet(T) /\ Cardinality(T) \in Nat
    BY FS_Subset, FS_CardinalityType
  <1>2. 0 \in R
    <2> SUFFICES ASSUME NEW T \in SUBSET S, Cardinality(T) = 0  PROVE  T \in Q
      OBVIOUS
    <2>1. T = {}
      BY <1>1, FS_EmptySet
    <2> QED  BY <2>1
  <1>3. ASSUME NEW n \in Nat, n \in R  PROVE  n + 1 \in R
    <2> SUFFICES ASSUME NEW T \in SUBSET S, Cardinality(T) = n + 1  PROVE  T \in Q
      OBVIOUS
    <2>1. ASSUME NEW x \in T  PROVE  T \ {x} \in Q
      <3>1. Cardinality(T \ {x}) = Cardinality(T) - 1
        BY <1>1, FS_RemoveElement
      <3>2. Cardinality(T \ {x}) = n /\ T \ {x} \in SUBSET S
        BY <3>1
      <3> QED  BY <3>2, <1>3
    <2> QED  BY <2>1
  <1> HIDE DEF R
  <1>4. Nat \subseteq R
    BY <1>2, <1>3, NatsInduct
  <1> QED  BY <1>1, <1>4 DEF R

-----------------------------------------------------------------------------
(* Powers *)

\* W is the table of the powers of a number, up to the n-th.
PowerTable(b, W, n) == W = [i \in 0..n |-> IF i = 0 THEN 1 ELSE b * W[i - 1]]

\* The recursion that defines the powers has a solution.
LEMMA PowerTableExists ==
    ASSUME NEW b, NEW n \in Nat
    PROVE  \E W : PowerTable(b, W, n)
  <1> DEFINE S == {m \in Nat : ~ \E W : PowerTable(b, W, m)}
  <1> SUFFICES ASSUME S # {}  PROVE  FALSE
    OBVIOUS
  <1>1. PICK m \in S : \A j \in S : m <= j
    BY HasLeast
  <1>2. CASE m = 0
    <2> DEFINE W == [i \in 0..m |-> 1]
    <2>1. \A i \in 0..m : i = 0
      BY <1>2
    <2>2. PowerTable(b, W, m)
      BY <2>1 DEF PowerTable
    <2> QED  BY <1>1, <2>2
  <1>3. CASE m # 0
    <2>1. m \in Nat /\ m - 1 \in Nat /\ m - 1 \notin S
      BY <1>1, <1>3
    <2>2. PICK f : PowerTable(b, f, m - 1)
      BY <2>1
    <2> DEFINE g == [i \in 0..m |-> IF i = m THEN b * f[m - 1] ELSE f[i]]
    <2>3. ASSUME NEW i \in 0..m
          PROVE  g[i] = IF i = 0 THEN 1 ELSE b * g[i - 1]
      <3>1. CASE i = m
        <4>1. g[m - 1] = f[m - 1]
          BY <2>1, <1>3
        <4> QED  BY <3>1, <4>1, <2>1, <1>3
      <3>2. CASE i # m
        <4>1. i \in 0..m - 1 /\ (i # 0 => i - 1 \in 0..m /\ i - 1 # m)
          BY <3>2, <2>1
        <4>2. f[i] = IF i = 0 THEN 1 ELSE b * f[i - 1]
          BY <4>1, <2>2 DEF PowerTable
        <4>3. g[i] = f[i] /\ (i # 0 => g[i - 1] = f[i - 1])
          BY <3>2, <4>1
        <4> QED  BY <4>2, <4>3
      <3> QED  BY <3>1, <3>2
    <2>4. PowerTable(b, g, m)
      <3>1. g = [i \in 0..m |-> g[i]]
        OBVIOUS
      <3> HIDE DEF g
      <3> QED  BY <3>1, <2>3 DEF PowerTable
    <2> HIDE DEF g
    <2> QED  BY <1>1, <2>4
  <1> QED  BY <1>2, <1>3

\* The equations of the powers.
LEMMA PowerTableIs ==
    ASSUME NEW b \in Nat \ {0}, NEW n \in Nat, NEW W, PowerTable(b, W, n)
    PROVE  /\ W[0] = 1
           /\ \A i \in 1..n : W[i] = b * W[i - 1]
           /\ \A i \in 0..n : W[i] \in Nat \ {0}
  <1>1. \A i \in 0..n : W[i] = IF i = 0 THEN 1 ELSE b * W[i - 1]
    BY DEF PowerTable
  <1>2. W[0] = 1 /\ \A i \in 1..n : W[i] = b * W[i - 1]
    BY <1>1
  <1> DEFINE S == {i \in 0..n : W[i] \notin Nat \ {0}}
  <1>3. S = {}
    <2> SUFFICES ASSUME S # {}  PROVE  FALSE
      OBVIOUS
    <2>1. PICK i \in S : \A j \in S : i <= j
      <3>1. S \in SUBSET Nat
        OBVIOUS
      <3> HIDE DEF S
      <3> QED  BY <3>1, HasLeast
    <2>2. i # 0
      BY <2>1, <1>2
    <2>3. i \in 1..n /\ i - 1 \in 0..n /\ i - 1 \notin S
      BY <2>1, <2>2
    <2>4. W[i - 1] \in Nat \ {0} /\ W[i] = b * W[i - 1]
      BY <2>3, <1>2
    <2>5. W[i] \in Nat \ {0}
      <3> DEFINE w == W[i - 1]
      <3>1. w \in Nat \ {0} /\ W[i] = b * w
        BY <2>4
      <3> HIDE DEF w
      <3> QED  BY <3>1
    <2> QED  BY <2>1, <2>5
  <1> QED  BY <1>2, <1>3

-----------------------------------------------------------------------------
(* Inverses *)

\* The extended algorithm of Euclid always finds an inverse: the least multiple
\* of the element modulo the prime, but for 0, divides the prime.
LEMMA InverseIs ==
    ASSUME IsPrime, NEW e \in Element, e # 0
    PROVE  mod_inverse(e) \in Element /\ Product(mod_inverse(e), e) = 1
  <1>p. Prime \in Nat \ {0} /\ Prime > 1 /\ e \in 1..Prime - 1 /\ e \in Int
    BY DEF IsPrime, Element
  <1> DEFINE S == {n \in 1..Prime - 1 : \E k, j \in Int : n = k * e + Prime * j}
  <1>1. PICK n \in S : \A j \in S : n <= j
    <2>1. e \in S
      <3>1. e = 1 * e + Prime * 0
        BY <1>p
      <3> QED  BY <1>p, <3>1
    <2>2. S \in SUBSET Nat
      OBVIOUS
    <2> HIDE DEF S
    <2> QED  BY <2>1, <2>2, HasLeast
  <1>2. PICK k \in Int, j \in Int : n = k * e + Prime * j
    BY <1>1
  <1>3. n = 1
    <2> SUFFICES ASSUME n # 1  PROVE  FALSE
      OBVIOUS
    <2>0. n \in 1..Prime - 1
      OBVIOUS
    <2>1. n \in 2..Prime - 1 /\ n \in Nat \ {0}
      <3> HIDE DEF S
      <3> QED  BY <1>p, <2>0
    <2> DEFINE q == Prime \div n
               r == Prime % n
    <2>2. q \in Int /\ r \in 0..n - 1 /\ Prime = n * q + r
      BY <2>1, <1>p, DivMod
    <2>3. r # 0
      BY <2>1 DEF IsPrime
    <2> HIDE DEF q, r, S
    <2>4. r = (-(q * k)) * e + Prime * (1 - q * j) /\ -(q * k) \in Int /\ 1 - q * j \in Int
      BY <1>p, <1>2, <2>1, <2>2
    <2>5. \E x, y \in Int : r = x * e + Prime * y
      BY <2>4
    <2>6. r \in 1..Prime - 1
      BY <1>p, <2>1, <2>2, <2>3
    <2>7. r \in S
      BY <2>5, <2>6 DEF S
    <2> QED  BY <1>1, <2>1, <2>2, <2>7
  <1> DEFINE i == k % Prime
  <1>4. i \in Element
    BY <1>p, DivMod DEF Element
  <1>5. Product(i, e) = 1
    <2>1. (i * e) % Prime = (k * e) % Prime
      BY <1>p, ModTimes
    <2>2. (k * e) % Prime = 1
      <3>1. k * e \in Int /\ 1 \in 0..Prime - 1 /\ 1 = k * e + Prime * j
        BY <1>p, <1>2, <1>3
      <3> HIDE DEF S
      <3> QED  BY <1>p, <3>1, ModOfSame
    <2> QED  BY <2>1, <2>2 DEF Product
  <1> HIDE DEF i, S
  <1> QED  BY <1>4, <1>5 DEF mod_inverse

-----------------------------------------------------------------------------
(* Division of numbers *)

\* Integer division keeps to the field.
LEMMA DivisionIs ==
    ASSUME Prime \in Nat \ {0}, NEW a \in Element, NEW b \in Element, b # 0
    PROVE  a \div b \in Element /\ a % b \in Element
  <1> DEFINE q == a \div b
             r == a % b
  <1>1. /\ Prime \in Nat \ {0} /\ a \in Nat /\ b \in Nat \ {0} /\ a < Prime /\ b < Prime
    BY DEF Element
  <1>2. q \in Int /\ r \in 0..b - 1 /\ a = b * q + r
    BY <1>1, DivMod
  <1> HIDE DEF q, r
  <1>3. q >= 0
    <2> SUFFICES ASSUME q <= -1  PROVE  FALSE
      BY <1>2
    <2>1. b * q <= b * (-1) /\ b * q \in Int
      BY <1>1, <1>2
    <2> QED  BY <1>1, <1>2, <2>1
  <1>4. q <= b * q /\ b * q \in Int
    BY <1>1, <1>2, <1>3
  <1>5. q \in 0..Prime - 1 /\ r \in 0..Prime - 1
    BY <1>1, <1>2, <1>3, <1>4
  <1> QED  BY <1>5 DEF Element, q, r

-----------------------------------------------------------------------------
(* Products *)

\* The product is closed, commutative and associative, with a unit.
LEMMA ProductIs ==
    ASSUME Prime \in Nat \ {0, 1}
    PROVE  /\ \A x, y \in Int : Product(x, y) \in Element /\ Product(x, y) = Product(y, x)
           /\ \A x \in Element : Product(x, 1) = x /\ Product(1, x) = x
           /\ \A x, y, z \in Int : Product(Product(x, y), z) = Product(x, Product(y, z))
           /\ 1 \in Element /\ Element \subseteq Int
  <1>p. Prime \in Nat \ {0} /\ 1 \in Element /\ Element \subseteq Int
    BY DEF Element
  <1>1. ASSUME NEW x \in Int, NEW y \in Int
        PROVE  Product(x, y) \in Element /\ Product(x, y) = Product(y, x)
    <2>1. x * y \in Int /\ x * y = y * x
      OBVIOUS
    <2> QED  BY <1>p, <2>1, DivMod DEF Product, Element
  <1>2. ASSUME NEW x \in Element  PROVE  Product(x, 1) = x
    <2>1. x * 1 = x
      BY <1>p
    <2> QED  BY <1>p, <2>1, ModSmall DEF Product, Element
  <1>3. ASSUME NEW x \in Int, NEW y \in Int, NEW z \in Int
        PROVE  Product(Product(x, y), z) = Product(x, Product(y, z))
    <2>1. x * y \in Int /\ y * z \in Int /\ (x * y) * z = (y * z) * x
      OBVIOUS
    <2>2. Product(Product(x, y), z) = ((x * y) * z) % Prime
      BY <1>p, <2>1, ModTimes DEF Product
    <2>3. Product(Product(y, z), x) = ((y * z) * x) % Prime
      BY <1>p, <2>1, ModTimes DEF Product
    <2>4. Product(y, z) \in Int
      BY <1>1, <1>p
    <2> QED  BY <2>1, <2>2, <2>3, <2>4, <1>1
  <1>4. \A x \in Element : Product(1, x) = x
    BY <1>1, <1>2, <1>p
  <1> QED  BY <1>1, <1>2, <1>3, <1>4, <1>p

-----------------------------------------------------------------------------
(* Powers *)

\* f holds the powers of l up to the r-th.
PowersOf(f, l, r) ==
    f = [e \in 0..r |-> IF e = 0 THEN 1 ELSE Product(f[e - 1], l)]

\* The recursion that defines the powers has a solution.
LEMMA PowersExist ==
    ASSUME NEW l, NEW r \in Nat
    PROVE  \E f : PowersOf(f, l, r)
  <1> DEFINE S == {n \in Nat : ~ \E f : PowersOf(f, l, n)}
  <1> SUFFICES ASSUME S # {}  PROVE  FALSE
    OBVIOUS
  <1>1. PICK n \in S : \A j \in S : n <= j
    BY HasLeast
  <1>2. CASE n = 0
    <2> DEFINE f == [e \in 0..n |-> 1]
    <2>1. \A e \in 0..n : e = 0
      BY <1>2
    <2>2. PowersOf(f, l, n)
      BY <2>1 DEF PowersOf
    <2> QED  BY <1>1, <2>2
  <1>3. CASE n # 0
    <2>1. n - 1 \in Nat /\ n - 1 \notin S
      BY <1>1, <1>3
    <2>2. PICK f : PowersOf(f, l, n - 1)
      BY <2>1
    <2> DEFINE g == [e \in 0..n |-> IF e = n THEN Product(f[n - 1], l) ELSE f[e]]
    <2>3. ASSUME NEW e \in 0..n
          PROVE  g[e] = IF e = 0 THEN 1 ELSE Product(g[e - 1], l)
      <3>1. CASE e = n
        <4>1. g[n - 1] = f[n - 1]
          BY <1>1, <1>3
        <4> QED  BY <3>1, <4>1, <1>1, <1>3
      <3>2. CASE e # n
        <4>1. e \in 0..n - 1 /\ (e # 0 => e - 1 \in 0..n /\ e - 1 # n)
          BY <3>2, <1>1
        <4>2. f[e] = IF e = 0 THEN 1 ELSE Product(f[e - 1], l)
          BY <4>1, <2>2 DEF PowersOf
        <4>3. g[e] = f[e] /\ (e # 0 => g[e - 1] = f[e - 1])
          BY <3>2, <4>1
        <4> QED  BY <4>2, <4>3
      <3> QED  BY <3>1, <3>2
    <2>4. PowersOf(g, l, n)
      <3>1. g = [e \in 0..n |-> g[e]]
        OBVIOUS
      <3> HIDE DEF g
      <3> QED  BY <3>1, <2>3 DEF PowersOf
    <2> HIDE DEF g
    <2> QED  BY <1>1, <2>4
  <1> QED  BY <1>2, <1>3

\* The powers do not depend on how far they are computed.
LEMMA PowersAgree ==
    ASSUME NEW l, NEW r \in Nat, NEW s \in Nat, NEW f, NEW g,
           PowersOf(f, l, r), PowersOf(g, l, s), NEW n \in 0..r, n <= s
    PROVE  f[n] = g[n]
  <1> DEFINE S == {m \in 0..r : m <= s /\ f[m] # g[m]}
  <1> SUFFICES ASSUME S # {}  PROVE  FALSE
    OBVIOUS
  <1>1. PICK m \in S : \A j \in S : m <= j
    <2>1. S \in SUBSET Nat
      OBVIOUS
    <2> HIDE DEF S
    <2> QED  BY <2>1, HasLeast
  <1>2. /\ f[m] = IF m = 0 THEN 1 ELSE Product(f[m - 1], l)
        /\ g[m] = IF m = 0 THEN 1 ELSE Product(g[m - 1], l)
    <2>1. m \in 0..r /\ m \in 0..s
      BY <1>1
    <2> HIDE DEF S
    <2> QED  BY <2>1 DEF PowersOf
  <1>3. m # 0 => f[m - 1] = g[m - 1]
    BY <1>1
  <1> QED  BY <1>1, <1>2, <1>3

\* The function that pow computes.
LEMMA PowOf ==
    ASSUME NEW l, NEW r \in Nat
    PROVE  \E f : PowersOf(f, l, r) /\ pow(l, r) = f[r]
  <1> DEFINE power[e \in 0..r] == IF e = 0 THEN 1 ELSE Product(power[e - 1], l)
  <1>1. PowersOf(power, l, r)
    BY PowersExist DEF PowersOf
  <1> HIDE DEF power
  <1>2. pow(l, r) = power[r]
    BY DEF pow, power
  <1> QED  BY <1>1, <1>2

\* The two equations of powers.
LEMMA PowIs ==
    ASSUME NEW l, NEW r \in Nat
    PROVE  /\ pow(l, 0) = 1
           /\ pow(l, r + 1) = Product(pow(l, r), l)
  <1>1. pow(l, 0) = 1
    <2>1. PICK f : PowersOf(f, l, 0) /\ pow(l, 0) = f[0]
      BY PowOf
    <2> QED  BY <2>1 DEF PowersOf
  <1>2. pow(l, r + 1) = Product(pow(l, r), l)
    <2>1. r + 1 \in Nat /\ r + 1 \in 0..r + 1 /\ r \in 0..r /\ r <= r + 1
      OBVIOUS
    <2>2. PICK f : PowersOf(f, l, r) /\ pow(l, r) = f[r]
      BY PowOf
    <2>3. PICK g : PowersOf(g, l, r + 1) /\ pow(l, r + 1) = g[r + 1]
      BY <2>1, PowOf
    <2>4. g[r + 1] = Product(g[r], l)
      <3>1. g[r + 1] = Product(g[r + 1 - 1], l)
        BY <2>1, <2>3 DEF PowersOf
      <3> QED  BY <3>1
    <2>5. f[r] = g[r]
      BY <2>1, <2>2, <2>3, PowersAgree
    <2> QED  BY <2>2, <2>3, <2>4, <2>5
  <1> QED  BY <1>1, <1>2

\* Powers of elements are elements.
LEMMA PowInField ==
    ASSUME Prime \in Nat \ {0, 1}, NEW l \in Element, NEW r \in Nat
    PROVE  pow(l, r) \in Element
  <1> DEFINE S == {n \in Nat : pow(l, n) \notin Element}
  <1> SUFFICES ASSUME S # {}  PROVE  FALSE
    OBVIOUS
  <1>1. PICK n \in S : \A j \in S : n <= j
    BY HasLeast
  <1>2. CASE n = 0
    BY <1>1, <1>2, PowIs, ProductIs
  <1>3. CASE n # 0
    <2>1. n - 1 \in Nat /\ n = (n - 1) + 1 /\ pow(l, n - 1) \in Element
      BY <1>1, <1>3
    <2>2. pow(l, n) = Product(pow(l, n - 1), l)
      BY <2>1, PowIs
    <2> QED  BY <1>1, <2>1, <2>2, ProductIs
  <1> QED  BY <1>2, <1>3

\* Squaring the base halves the exponent.
LEMMA PowOfSquare ==
    ASSUME Prime \in Nat \ {0, 1}, NEW l \in Element, NEW r \in Nat
    PROVE  pow(Product(l, l), r) = pow(l, 2 * r)
  <1> DEFINE q == Product(l, l)
             S == {n \in Nat : pow(q, n) # pow(l, 2 * n)}
  <1> SUFFICES ASSUME S # {}  PROVE  FALSE
    OBVIOUS
  <1>1. PICK n \in S : \A j \in S : n <= j
    BY HasLeast
  <1>2. CASE n = 0
    BY <1>1, <1>2, PowIs
  <1>3. CASE n # 0
    <2> DEFINE m == n - 1
    <2>1. m \in Nat /\ n = m + 1 /\ pow(q, m) = pow(l, 2 * m)
      BY <1>1, <1>3
    <2> HIDE DEF m
    <2>2. pow(q, n) = Product(pow(q, m), q)
      BY <2>1, PowIs
    <2>3. pow(l, 2 * n) = Product(Product(pow(l, 2 * m), l), l)
      <3>1. 2 * n = (2 * m + 1) + 1 /\ 2 * m \in Nat /\ 2 * m + 1 \in Nat
        BY <2>1
      <3> QED  BY <3>1, PowIs
    <2>4. pow(l, 2 * m) \in Int /\ l \in Int
      BY <2>1, PowInField, ProductIs, 2 * m \in Nat
    <2>5. Product(Product(pow(l, 2 * m), l), l) = Product(pow(l, 2 * m), q)
      BY <2>4, ProductIs
    <2> QED  BY <1>1, <2>1, <2>2, <2>3, <2>5
  <1> QED  BY <1>2, <1>3

-----------------------------------------------------------------------------
(* Powers of two *)

\* The equations of the powers of two, and how they grow.
LEMMA TwoToIs ==
    ASSUME Prime \in Nat
    PROVE  /\ TwoTo[0] = 1
           /\ \A i \in 1..Prime : TwoTo[i] = 2 * TwoTo[i - 1]
           /\ \A i \in 0..Prime : TwoTo[i] \in Nat \ {0} /\ TwoTo[i] > i
  <1>1. PowerTable(2, TwoTo, Prime)
    BY PowerTableExists DEF PowerTable, TwoTo
  <1>2. /\ TwoTo[0] = 1
        /\ \A i \in 1..Prime : TwoTo[i] = 2 * TwoTo[i - 1]
        /\ \A i \in 0..Prime : TwoTo[i] \in Nat \ {0}
    BY <1>1, PowerTableIs
  <1> DEFINE S == {i \in 0..Prime : ~(TwoTo[i] > i)}
  <1>3. S = {}
    <2> SUFFICES ASSUME S # {}  PROVE  FALSE
      OBVIOUS
    <2>1. PICK i \in S : \A j \in S : i <= j
      <3>1. S \in SUBSET Nat
        OBVIOUS
      <3> HIDE DEF S
      <3> QED  BY <3>1, HasLeast
    <2>2. i # 0
      BY <2>1, <1>2
    <2>3. i \in 1..Prime /\ i - 1 \in 0..Prime /\ i - 1 \notin S
      BY <2>1, <2>2
    <2>4. TwoTo[i - 1] > i - 1 /\ TwoTo[i] = 2 * TwoTo[i - 1] /\ TwoTo[i - 1] \in Nat
      BY <2>3, <1>2
    <2> QED  BY <2>1, <2>3, <2>4
  <1> QED  BY <1>2, <1>3

\* A power of two is a multiple of the smaller ones.
LEMMA TwoToDivides ==
    ASSUME Prime \in Nat, NEW i \in 0..Prime, NEW j \in 0..i
    PROVE  \E k \in Nat \ {0} : TwoTo[i] = TwoTo[j] * k
  <1> DEFINE S == {n \in 0..Prime : j <= n /\ ~ \E k \in Nat \ {0} : TwoTo[n] = TwoTo[j] * k}
  <1> SUFFICES ASSUME S # {}  PROVE  FALSE
    OBVIOUS
  <1>1. PICK n \in S : \A m \in S : n <= m
    <2>1. S \in SUBSET Nat
      OBVIOUS
    <2> HIDE DEF S
    <2> QED  BY <2>1, HasLeast
  <1>2. CASE n = j
    <2>1. TwoTo[j] \in Nat
      BY TwoToIs
    <2>2. TwoTo[n] = TwoTo[j] * 1
      BY <1>2, <2>1
    <2> QED  BY <1>1, <2>2
  <1>3. CASE n # j
    <2>1. n \in 1..Prime /\ n - 1 \in 0..Prime /\ j <= n - 1 /\ n - 1 \notin S
      BY <1>1, <1>3
    <2>2. PICK k \in Nat \ {0} : TwoTo[n - 1] = TwoTo[j] * k
      BY <2>1
    <2>3. TwoTo[n] = 2 * (TwoTo[j] * k) /\ TwoTo[j] \in Nat
      BY <2>1, <2>2, TwoToIs
    <2>4. TwoTo[n] = TwoTo[j] * (2 * k) /\ 2 * k \in Nat \ {0}
      BY <2>3
    <2> QED  BY <1>1, <2>4
  <1> QED  BY <1>2, <1>3

\* The powers of two grow.
LEMMA TwoToGrows ==
    ASSUME Prime \in Nat, NEW i \in 0..Prime, NEW j \in 0..i
    PROVE  TwoTo[j] <= TwoTo[i] /\ (j < i => 2 * TwoTo[j] <= TwoTo[i])
  <1> DEFINE t == TwoTo[j]
  <1>0. t \in Nat \ {0}
    BY TwoToIs
  <1>1. PICK k \in Nat \ {0} : TwoTo[i] = t * k
    BY TwoToDivides
  <1>2. t * k >= t
    BY <1>0, AtLeast
  <1>3. ASSUME j < i  PROVE  2 * TwoTo[j] <= TwoTo[i]
    <2>1. i - 1 \in 0..Prime /\ j \in 0..i - 1 /\ i \in 1..Prime
      BY <1>3
    <2>2. PICK l \in Nat \ {0} : TwoTo[i - 1] = t * l
      BY <2>1, TwoToDivides
    <2>3. TwoTo[i] = 2 * TwoTo[i - 1]
      BY <2>1, TwoToIs
    <2>4. t * l >= t /\ t * l \in Nat
      BY <1>0, AtLeast
    <2> QED  BY <1>0, <2>2, <2>3, <2>4
  <1> HIDE DEF t
  <1>4. t <= TwoTo[i]
    BY <1>0, <1>1, <1>2
  <1> QED  BY <1>3, <1>4 DEF t

\* The number of bits of the prime.
LEMMA QbitsIs ==
    ASSUME Prime \in Nat, Prime > 2
    PROVE  /\ qbits \in 2..Prime - 1 /\ qbits \in Nat \ {0}
           /\ TwoTo[qbits - 1] <= Prime /\ Prime < TwoTo[qbits] /\ TwoTo[qbits] <= 2 * Prime
           /\ TwoTo[qbits] = 2 * TwoTo[qbits - 1] /\ TwoTo[qbits] \in Nat \ {0}
           /\ qbits <= Top + 1
  <1> DEFINE S == {n \in 1..Prime : Prime < TwoTo[n]}
  <1>1. TwoTo[Prime] > Prime /\ TwoTo[0] = 1 /\ TwoTo[1] = 2 * TwoTo[0]
    BY TwoToIs
  <1>2. PICK n \in S : \A m \in S : n <= m
    <2>1. Prime \in S /\ S \in SUBSET Nat
      BY <1>1
    <2> HIDE DEF S
    <2> QED  BY <2>1, HasLeast
  <1>3. TwoTo[n - 1] <= Prime
    <2>1. n # 1
      BY <1>1, <1>2
    <2>2. n - 1 \in 1..Prime /\ n - 1 \notin S
      BY <1>2, <2>1
    <2>3. TwoTo[n - 1] \in Nat
      BY <2>2, TwoToIs
    <2> QED  BY <2>2, <2>3
  <1>4. qbits \in 1..Prime /\ Prime < TwoTo[qbits] /\ TwoTo[qbits - 1] <= Prime
    BY <1>2, <1>3 DEF qbits
  <1> DEFINE q == qbits
  <1> HIDE DEF q
  <1>5. q \in 1..Prime /\ Prime < TwoTo[q] /\ TwoTo[q - 1] <= Prime
    BY <1>4 DEF q
  <1>6. q # 1
    BY <1>1, <1>5
  <1>7. q - 1 \in 1..Prime /\ q - 2 \in 0..Prime /\ q - 1 - 1 = q - 2
    BY <1>5, <1>6
  <1>8. /\ TwoTo[q] = 2 * TwoTo[q - 1] /\ TwoTo[q - 1] = 2 * TwoTo[q - 2]
        /\ TwoTo[q - 1] > q - 1 /\ TwoTo[q - 2] > q - 2
        /\ TwoTo[q] \in Nat \ {0} /\ TwoTo[q - 1] \in Nat /\ TwoTo[q - 2] \in Nat
    BY <1>5, <1>7, TwoToIs
  <1>9. q <= Top + 1 /\ Top \in Int
    <2>1. Top \in Int /\ Prime % 2 \in 0..1 /\ Prime = 2 * Top + (Prime % 2)
      <3>1. 2 \in Nat \ {0} /\ Prime \in Int
        OBVIOUS
      <3>2. Prime \div 2 \in Int /\ Prime % 2 \in 0..2 - 1 /\ Prime = 2 * (Prime \div 2) + (Prime % 2)
        BY <3>1, DivMod
      <3> QED  BY <3>2 DEF Top
    <2>2. 2 * (q - 1) <= Prime
      BY <1>5, <1>7, <1>8
    <2> QED  BY <1>5, <2>1, <2>2
  <1>10. q <= Prime - 1
    BY <1>5, <1>7, <1>8
  <1> QED  BY <1>5, <1>6, <1>8, <1>9, <1>10 DEF q

-----------------------------------------------------------------------------
(* Numbers and their bits *)

\* f sums the bits up to each place, as far as n.
BitSums(f, bits, n) ==
    f = [i \in 0..n |-> (IF i = 0 THEN 0 ELSE f[i - 1]) + (IF i \in bits THEN TwoTo[i] ELSE 0)]

\* The recursion that defines the sum of the bits has a solution.
LEMMA BitSumsExist ==
    ASSUME NEW bits, NEW n \in Nat
    PROVE  \E f : BitSums(f, bits, n)
  <1> DEFINE B(i) == IF i \in bits THEN TwoTo[i] ELSE 0
             S == {m \in Nat : ~ \E f : BitSums(f, bits, m)}
  <1> SUFFICES ASSUME S # {}  PROVE  FALSE
    OBVIOUS
  <1>1. PICK m \in S : \A j \in S : m <= j
    BY HasLeast
  <1>2. CASE m = 0
    <2> DEFINE f == [i \in 0..m |-> 0 + B(0)]
    <2>1. \A i \in 0..m : i = 0
      BY <1>2
    <2>2. BitSums(f, bits, m)
      BY <2>1 DEF BitSums
    <2> QED  BY <1>1, <2>2
  <1>3. CASE m # 0
    <2>1. m \in Nat /\ m - 1 \in Nat /\ m - 1 \notin S
      BY <1>1, <1>3
    <2>2. PICK f : BitSums(f, bits, m - 1)
      BY <2>1
    <2> DEFINE g == [i \in 0..m |-> IF i = m THEN f[m - 1] + B(m) ELSE f[i]]
    <2>3. ASSUME NEW i \in 0..m
          PROVE  g[i] = (IF i = 0 THEN 0 ELSE g[i - 1]) + B(i)
      <3>1. CASE i = m
        <4>1. g[m - 1] = f[m - 1]
          BY <2>1, <1>3
        <4> QED  BY <3>1, <4>1, <2>1, <1>3
      <3>2. CASE i # m
        <4>1. i \in 0..m - 1 /\ (i # 0 => i - 1 \in 0..m /\ i - 1 # m)
          BY <3>2, <2>1
        <4>2. f[i] = (IF i = 0 THEN 0 ELSE f[i - 1]) + B(i)
          BY <4>1, <2>2 DEF BitSums
        <4>3. g[i] = f[i] /\ (i # 0 => g[i - 1] = f[i - 1])
          BY <3>2, <4>1
        <4> QED  BY <4>2, <4>3
      <3> QED  BY <3>1, <3>2
    <2>4. BitSums(g, bits, m)
      <3>1. g = [i \in 0..m |-> g[i]]
        OBVIOUS
      <3> HIDE DEF g
      <3> QED  BY <3>1, <2>3 DEF BitSums
    <2> HIDE DEF g
    <2> QED  BY <1>1, <2>4
  <1> QED  BY <1>2, <1>3

\* The function that Number computes.
LEMMA NumberOf ==
    ASSUME qbits \in Nat, NEW bits
    PROVE  \E f : BitSums(f, bits, qbits) /\ Number(bits) = f[qbits]
  <1> DEFINE f == CHOOSE f : BitSums(f, bits, qbits)
  <1>1. BitSums(f, bits, qbits)
    BY BitSumsExist
  <1>2. Number(bits) = f[qbits]
    BY DEF Number, BitSums
  <1> QED  BY <1>1, <1>2

\* The equations of the sums, and how large they are.
LEMMA BitSumsAre ==
    ASSUME Prime \in Nat, Prime > 2, NEW bits, NEW f, BitSums(f, bits, qbits)
    PROVE  /\ f[0] = IF 0 \in bits THEN TwoTo[0] ELSE 0
           /\ \A i \in 1..qbits : f[i] = f[i - 1] + IF i \in bits THEN TwoTo[i] ELSE 0
           /\ \A i \in 0..qbits : f[i] \in 0..2 * TwoTo[i] - 1
  <1> DEFINE q == qbits
             B(i) == IF i \in bits THEN TwoTo[i] ELSE 0
  <1>1. q \in 2..Prime - 1 /\ \A i \in 0..q : TwoTo[i] \in Nat \ {0} /\ B(i) \in {0, TwoTo[i]}
    BY QbitsIs, TwoToIs
  <1>2. \A i \in 0..q : f[i] = (IF i = 0 THEN 0 ELSE f[i - 1]) + B(i)
    BY DEF BitSums
  <1> HIDE DEF q, B
  <1>3. f[0] = B(0) /\ \A i \in 1..q : f[i] = f[i - 1] + B(i)
    BY <1>1, <1>2
  <1> DEFINE S == {i \in 0..q : f[i] \notin 0..2 * TwoTo[i] - 1}
  <1>4. S = {}
    <2> SUFFICES ASSUME S # {}  PROVE  FALSE
      OBVIOUS
    <2>1. PICK i \in S : \A j \in S : i <= j
      <3>1. S \in SUBSET Nat
        BY <1>1
      <3> HIDE DEF S
      <3> QED  BY <3>1, HasLeast
    <2>2. i # 0
      BY <1>1, <1>3, <2>1
    <2>3. i \in 1..q /\ i \in 1..Prime /\ i - 1 \in 0..q /\ i - 1 \notin S
      BY <1>1, <2>1, <2>2
    <2>4. f[i - 1] \in 0..2 * TwoTo[i - 1] - 1 /\ f[i] = f[i - 1] + B(i) /\ TwoTo[i] = 2 * TwoTo[i - 1]
      BY <1>3, <2>3, TwoToIs
    <2> QED  BY <1>1, <2>1, <2>3, <2>4
  <1> QED  BY <1>3, <1>4 DEF q, B

\* More bits make a larger number.
LEMMA BitSumsGrow ==
    ASSUME Prime \in Nat, Prime > 2, NEW S, NEW T, NEW f, NEW g,
           BitSums(f, S, qbits), BitSums(g, T, qbits), NEW n \in 0..qbits, S \cap (0..n) \subseteq T
    PROVE  f[n] <= g[n]
  <1> DEFINE q == qbits
             B(i) == IF i \in S THEN TwoTo[i] ELSE 0
             C(i) == IF i \in T THEN TwoTo[i] ELSE 0
             U == {i \in 0..n : ~(f[i] <= g[i])}
  <1>1. /\ q \in 2..Prime - 1
        /\ \A i \in 0..q : f[i] \in Int /\ g[i] \in Int /\ TwoTo[i] \in Nat
    <2>1. q \in 2..Prime - 1 /\ \A i \in 0..q : TwoTo[i] \in Nat
      BY QbitsIs, TwoToIs
    <2>2. \A i \in 0..q : f[i] \in 0..2 * TwoTo[i] - 1
      BY BitSumsAre
    <2>3. \A i \in 0..q : g[i] \in 0..2 * TwoTo[i] - 1
      BY BitSumsAre
    <2> QED  BY <2>1, <2>2, <2>3
  <1>2. \A i \in 0..n : B(i) \in Nat /\ C(i) \in Nat /\ B(i) <= C(i)
    BY <1>1
  <1>3. /\ f[0] = B(0) /\ g[0] = C(0)
        /\ \A i \in 1..q : f[i] = f[i - 1] + B(i) /\ g[i] = g[i - 1] + C(i)
    BY BitSumsAre
  <1> HIDE DEF q, B, C
  <1> SUFFICES ASSUME U # {}  PROVE  FALSE
    BY <1>1
  <1>4. PICK i \in U : \A j \in U : i <= j
    <2>1. U \in SUBSET Nat
      BY <1>1
    <2> HIDE DEF U
    <2> QED  BY <2>1, HasLeast
  <1>n. n \in 0..q
    BY DEF q
  <1>5. i # 0
    BY <1>1, <1>2, <1>3, <1>4, <1>n
  <1>6. i \in 1..q /\ i \in 0..n /\ i - 1 \in 0..n /\ i - 1 \in 0..q /\ i - 1 \notin U
    BY <1>1, <1>4, <1>5, <1>n
  <1>7. f[i - 1] <= g[i - 1] /\ f[i] = f[i - 1] + B(i) /\ g[i] = g[i - 1] + C(i)
    BY <1>3, <1>6
  <1> QED  BY <1>1, <1>2, <1>4, <1>6, <1>7

\* A number with more bits is larger.
LEMMA NumberGrows ==
    ASSUME Prime \in Nat, Prime > 2, NEW S, NEW T, S \subseteq T
    PROVE  Number(S) <= Number(T)
  <1>1. qbits \in Nat
    BY QbitsIs
  <1>2. PICK f : BitSums(f, S, qbits) /\ Number(S) = f[qbits]
    BY <1>1, NumberOf
  <1>3. PICK g : BitSums(g, T, qbits) /\ Number(T) = g[qbits]
    BY <1>1, NumberOf
  <1> QED  BY <1>1, <1>2, <1>3, BitSumsGrow

\* The size of a number that has no bit from place k on, and what is left of a
\* number without its last bit.
LEMMA NumberSize ==
    ASSUME Prime \in Nat, Prime > 2, NEW S
    PROVE  /\ Number(S) \in 0..2 * TwoTo[qbits] - 1
           /\ \A k \in 0..qbits : S \cap (k..qbits) = {} => Number(S) \in 0..TwoTo[k] - 1
           /\ Number(S) % TwoTo[qbits] = Number(S \ {qbits})
  <1> DEFINE q == qbits
             T == S \ {q}
             t == TwoTo[q]
  <1>1. q \in 2..Prime - 1 /\ q \in Nat
    BY QbitsIs
  <1>2. PICK f : BitSums(f, S, q) /\ Number(S) = f[q]
    BY <1>1, NumberOf
  <1>3. PICK g : BitSums(g, T, q) /\ Number(T) = g[q]
    BY <1>1, NumberOf
  <1>4. /\ f[0] = IF 0 \in S THEN TwoTo[0] ELSE 0
        /\ \A i \in 1..q : f[i] = f[i - 1] + IF i \in S THEN TwoTo[i] ELSE 0
        /\ \A i \in 0..q : f[i] \in 0..2 * TwoTo[i] - 1
    BY <1>2, BitSumsAre
  <1>5. /\ \A i \in 1..q : g[i] = g[i - 1] + IF i \in T THEN TwoTo[i] ELSE 0
        /\ \A i \in 0..q : g[i] \in 0..2 * TwoTo[i] - 1
    BY <1>3, BitSumsAre
  <1>6. f[q - 1] = g[q - 1]
    <2>1. q - 1 \in 0..q /\ S \cap (0..q - 1) \subseteq T /\ T \cap (0..q - 1) \subseteq S
      BY <1>1
    <2> HIDE DEF T
    <2>2. f[q - 1] <= g[q - 1] /\ g[q - 1] <= f[q - 1]
      BY <1>2, <1>3, <2>1, BitSumsGrow
    <2>3. f[q - 1] \in Int /\ g[q - 1] \in Int
      <3>1. \A i \in 0..q : TwoTo[i] \in Nat
        BY <1>1, TwoToIs
      <3> QED  BY <1>4, <1>5, <2>1, <3>1
    <2> QED  BY <2>2, <2>3
  <1>7. t \in Nat \ {0} /\ t = 2 * TwoTo[q - 1]
    BY QbitsIs
  <1>8. Number(S) % t = Number(T)
    <2>1. q \in 1..q /\ q - 1 \in 0..q
      BY <1>1
    <2>2. f[q] = g[q - 1] + (IF q \in S THEN t ELSE 0) /\ g[q] = g[q - 1] + 0
      BY <1>4, <1>5, <1>6, <2>1
    <2>3. g[q - 1] \in 0..t - 1
      BY <1>5, <1>7, <2>1
    <2> HIDE DEF q, t, T
    <2>4. g[q] \in 0..t - 1 /\ (f[q] = t * 0 + g[q] \/ f[q] = t * 1 + g[q])
      BY <1>7, <2>2, <2>3
    <2>5. f[q] % t = g[q]
      BY <1>7, <2>4, ModUnique
    <2> QED  BY <1>2, <1>3, <2>5
  <1>9. ASSUME NEW k \in 0..q, S \cap (k..q) = {}
        PROVE  Number(S) \in 0..TwoTo[k] - 1
    <2> DEFINE U == {i \in 0..q : ~(f[i] <= TwoTo[k] - 1)}
               m == TwoTo[k]
    <2>0. m \in Nat \ {0} /\ \A i \in 0..q : TwoTo[i] \in Nat
      BY <1>1, TwoToIs
    <2>1. U = {}
      <3> SUFFICES ASSUME U # {}  PROVE  FALSE
        OBVIOUS
      <3>1. PICK i \in U : \A j \in U : i <= j
        <4>1. U \in SUBSET Nat
          BY <1>1
        <4> HIDE DEF U
        <4> QED  BY <4>1, HasLeast
      <3>2. CASE i < k
        <4>1. k \in 0..Prime /\ i \in 0..k
          BY <1>1, <3>1, <3>2
        <4>2. 2 * TwoTo[i] <= TwoTo[k]
          BY <3>2, <4>1, TwoToGrows
        <4> QED  BY <1>4, <2>0, <3>1, <4>2
      <3>3. CASE i >= k /\ i # 0
        <4>0. i \in k..q /\ i \in Nat /\ i # 0
          BY <1>1, <3>1, <3>3
        <4>1. i \in 1..q /\ i - 1 \in 0..q /\ i - 1 \notin U /\ i \notin S
          BY <1>1, <1>9, <3>1, <4>0
        <4>2. f[i] = f[i - 1] + 0 /\ f[i - 1] \in Int
          BY <1>4, <2>0, <4>1
        <4> QED  BY <3>1, <4>1, <4>2
      <3>4. CASE i >= k /\ i = 0
        <4>1. 0 \in k..q /\ 0 \notin S
          BY <1>1, <1>9, <3>4
        <4> QED  BY <1>4, <2>0, <3>1, <3>4, <4>1
      <3> QED  BY <1>1, <3>1, <3>2, <3>3, <3>4
    <2>2. f[q] <= m - 1 /\ f[q] >= 0 /\ f[q] \in Int
      BY <1>1, <1>4, <2>0, <2>1
    <2> QED  BY <1>2, <2>0, <2>2
  <1>10. Number(S) \in 0..2 * t - 1
    BY <1>1, <1>2, <1>4
  <1> QED  BY <1>8, <1>9, <1>10

\* The bits of a number that is less than a power of two are below it.
LEMMA BitsBelow ==
    ASSUME Prime \in Nat, Prime > 2, NEW k \in 0..qbits, NEW a \in 0..TwoTo[k] - 1
    PROVE  Bits(a) \subseteq 0..k - 1 /\ Bits(a) \cap (k..qbits) = {}
  <1>1. qbits \in 2..Prime - 1 /\ TwoTo[k] \in Nat
    BY QbitsIs, TwoToIs
  <1>2. ASSUME NEW i \in 0..qbits, i >= k
        PROVE  i \notin Bits(a)
    <2>1. i \in 0..Prime /\ k \in 0..i
      BY <1>1, <1>2
    <2>2. TwoTo[k] <= TwoTo[i] /\ TwoTo[i] \in Nat \ {0}
      BY <2>1, TwoToGrows, TwoToIs
    <2> DEFINE m == TwoTo[i]
    <2>3. m \in Nat \ {0} /\ a \in 0..m - 1
      BY <1>1, <2>2
    <2> HIDE DEF m
    <2>4. a = m * 0 + a
      BY <2>3
    <2>5. a \div m = 0
      BY <2>3, <2>4, ModUnique
    <2>6. 0 % 2 = 0
      BY ModSmall
    <2> QED  BY <2>5, <2>6 DEF Bits, m
  <1>3. Bits(a) \subseteq 0..qbits
    BY DEF Bits
  <1> QED  BY <1>1, <1>2, <1>3

\* A number is the sum of its bits.
LEMMA BitsOfNumber ==
    ASSUME Prime \in Nat, Prime > 2, NEW a \in 0..TwoTo[qbits] - 1
    PROVE  Number(Bits(a)) = a
  <1> DEFINE q == qbits
  <1>1. q \in 2..Prime - 1 /\ q \in Nat
    BY QbitsIs
  <1>2. PICK f : BitSums(f, Bits(a), q) /\ Number(Bits(a)) = f[q]
    BY <1>1, NumberOf
  <1>3. /\ f[0] = IF 0 \in Bits(a) THEN TwoTo[0] ELSE 0
        /\ \A i \in 1..q : f[i] = f[i - 1] + IF i \in Bits(a) THEN TwoTo[i] ELSE 0
    BY <1>2, BitSumsAre
  <1>4. TwoTo[q] \in Nat /\ a \in Nat
    BY QbitsIs
  <1> DEFINE U == {i \in 0..q : f[i] # a % (2 * TwoTo[i])}
  <1>5. U = {}
    <2> SUFFICES ASSUME U # {}  PROVE  FALSE
      OBVIOUS
    <2>1. PICK i \in U : \A j \in U : i <= j
      <3>1. U \in SUBSET Nat
        BY <1>1
      <3> HIDE DEF U
      <3> QED  BY <3>1, HasLeast
    <2> DEFINE t == TwoTo[i]
               d == a \div t
               b == IF i \in Bits(a) THEN t ELSE 0
    <2>2. t \in Nat \ {0} /\ 2 * t \in Nat \ {0}
      BY <1>1, <2>1, TwoToIs
    <2>3. d \in Int /\ a % t \in 0..t - 1 /\ a = t * d + (a % t)
      <3>1. a \in Int
        BY <1>4
      <3> QED  BY <2>2, <3>1, DivMod
    <2>4. i \in Bits(a) <=> d % 2 = 1
      BY <2>1 DEF Bits
    <2> HIDE DEF t, d
    <2>5. a % (2 * t) = (a % t) + b
      <3> DEFINE e == d \div 2
      <3>1. 2 \in Nat \ {0}
        OBVIOUS
      <3>2. e \in Int /\ d % 2 \in 0..1 /\ d = 2 * e + (d % 2)
        <4>1. e \in Int /\ d % 2 \in 0..2 - 1 /\ d = 2 * e + (d % 2)
          BY <2>3, <3>1, DivMod
        <4> QED  BY <4>1
      <3> DEFINE r == (a % t) + b
                 m == 2 * t
      <3> HIDE DEF e
      <3>3. b = t * (d % 2)
        BY <2>2, <2>4, <3>2
      <3>4. a = t * (2 * e + (d % 2)) + (a % t)
        BY <2>3, <3>2
      <3>5. t * (2 * e + (d % 2)) = (2 * t) * e + t * (d % 2)
        BY <2>2, <3>2
      <3>6. t * (d % 2) \in Int /\ (2 * t) * e \in Int
        BY <2>2, <3>2
      <3>7. a = (2 * t) * e + ((a % t) + b)
        BY <2>3, <3>3, <3>4, <3>5, <3>6
      <3>8. r \in 0..m - 1 /\ m \in Nat \ {0} /\ a = m * e + r
        BY <2>2, <2>3, <3>7
      <3> HIDE DEF r, m
      <3>9. a % m = r
        BY <3>2, <3>8, ModUnique
      <3> QED  BY <3>9 DEF r, m
    <2>6. f[i] = (a % t) + b
      <3>1. CASE i = 0
        <4>1. t = 1
          BY <3>1, TwoToIs DEF t
        <4>2. a % t = 0
          BY <2>3, <4>1
        <4>3. f[i] = b
          BY <1>3, <3>1 DEF t
        <4> QED  BY <2>2, <4>2, <4>3
      <3>2. CASE i # 0
        <4>1. i \in 1..q /\ i \in 1..Prime /\ i - 1 \in 0..q /\ i - 1 \notin U
          BY <1>1, <2>1, <3>2
        <4>2. f[i - 1] = a % (2 * TwoTo[i - 1]) /\ t = 2 * TwoTo[i - 1]
          BY <4>1, TwoToIs DEF t
        <4>3. f[i] = f[i - 1] + b
          BY <1>3, <4>1 DEF t
        <4> QED  BY <4>2, <4>3
      <3> QED  BY <3>1, <3>2
    <2> QED  BY <2>1, <2>5, <2>6 DEF t
  <1>6. a % (2 * TwoTo[q]) = a
    <2> DEFINE m == 2 * TwoTo[q]
    <2>1. m \in Nat \ {0} /\ a \in 0..m - 1 /\ a \in Int
      BY <1>4, QbitsIs
    <2> HIDE DEF m
    <2>2. a % m = a
      BY <2>1, ModSmall
    <2> QED  BY <2>2 DEF m
  <1> QED  BY <1>1, <1>2, <1>5, <1>6

\* A number and the one with the other bits make the number of ones only.
LEMMA OtherBits ==
    ASSUME Prime \in Nat, Prime > 2, NEW a \in 0..TwoTo[qbits] - 1
    PROVE  Number((0..qbits - 1) \ Bits(a)) = TwoTo[qbits] - 1 - a
  <1> DEFINE q == qbits
             S == Bits(a)
             T == (0..q - 1) \ S
  <1>1. q \in 2..Prime - 1 /\ q \in Nat
    BY QbitsIs
  <1>2. PICK f : BitSums(f, S, q) /\ Number(S) = f[q]
    BY <1>1, NumberOf
  <1>3. PICK g : BitSums(g, T, q) /\ Number(T) = g[q]
    BY <1>1, NumberOf
  <1>4. /\ f[0] = IF 0 \in S THEN TwoTo[0] ELSE 0
        /\ \A i \in 1..q : f[i] = f[i - 1] + IF i \in S THEN TwoTo[i] ELSE 0
        /\ \A i \in 0..q : f[i] \in 0..2 * TwoTo[i] - 1
    BY <1>2, BitSumsAre
  <1>5. /\ g[0] = IF 0 \in T THEN TwoTo[0] ELSE 0
        /\ \A i \in 1..q : g[i] = g[i - 1] + IF i \in T THEN TwoTo[i] ELSE 0
        /\ \A i \in 0..q : g[i] \in 0..2 * TwoTo[i] - 1
    BY <1>3, BitSumsAre
  <1>6. \A i \in 0..q : TwoTo[i] \in Nat
    BY <1>1, TwoToIs
  <1>7. S \subseteq 0..q - 1
    <2>1. q \in 0..qbits
      BY <1>1
    <2> QED  BY <2>1, BitsBelow
  <1>8. q \notin S /\ q \notin T /\ \A i \in 0..q - 1 : i \in T <=> i \notin S
    BY <1>1, <1>7
  <1> HIDE DEF S, T, q
  <1> DEFINE U == {i \in 0..q - 1 : f[i] + g[i] # 2 * TwoTo[i] - 1}
  <1>9. U = {}
    <2> SUFFICES ASSUME U # {}  PROVE  FALSE
      OBVIOUS
    <2>1. PICK i \in U : \A j \in U : i <= j
      <3>1. U \in SUBSET Nat
        BY <1>1
      <3> HIDE DEF U
      <3> QED  BY <3>1, HasLeast
    <2>2. CASE i = 0
      <3>1. TwoTo[0] = 1 /\ 0 \in 0..q - 1
        BY <1>1, TwoToIs
      <3> QED  BY <1>4, <1>5, <1>8, <2>1, <2>2, <3>1
    <2>3. CASE i # 0
      <3>1. i \in 1..q /\ i \in 1..Prime /\ i - 1 \in 0..q - 1 /\ i - 1 \notin U /\ i \in 0..q
        BY <1>1, <2>1, <2>3
      <3>2. f[i - 1] + g[i - 1] = 2 * TwoTo[i - 1] - 1 /\ TwoTo[i] = 2 * TwoTo[i - 1]
        BY <3>1, TwoToIs
      <3>3. f[i] + g[i] = f[i - 1] + g[i - 1] + TwoTo[i]
        <4>1. /\ f[i] = f[i - 1] + IF i \in S THEN TwoTo[i] ELSE 0
              /\ g[i] = g[i - 1] + IF i \in T THEN TwoTo[i] ELSE 0
          BY <1>4, <1>5, <3>1
        <4>2. f[i - 1] \in Int /\ g[i - 1] \in Int /\ TwoTo[i] \in Int
          <5>1. i - 1 \in 0..q
            BY <1>1, <3>1
          <5> QED  BY <1>4, <1>5, <1>6, <3>1, <5>1
        <4>3. i \in T <=> i \notin S
          BY <1>8, <2>1
        <4> QED  BY <4>1, <4>2, <4>3
      <3>4. TwoTo[i] \in Nat /\ TwoTo[i - 1] \in Nat
        BY <1>1, <1>6, <3>1
      <3> QED  BY <2>1, <3>2, <3>3, <3>4
    <2> QED  BY <2>2, <2>3
  <1>10. q \in 1..q /\ q - 1 \in 0..q - 1 /\ q - 1 \in 0..q
    BY <1>1
  <1>11. f[q] = f[q - 1] + 0 /\ g[q] = g[q - 1] + 0
    BY <1>4, <1>5, <1>8, <1>10
  <1>12. TwoTo[q] = 2 * TwoTo[q - 1]
    BY QbitsIs DEF q
  <1>13. f[q] + g[q] = TwoTo[q] - 1 /\ f[q] \in Int /\ g[q] \in Int
    BY <1>4, <1>5, <1>6, <1>9, <1>10, <1>11, <1>12
  <1>14. Number(S) = a
    BY BitsOfNumber DEF S
  <1> QED  BY <1>1, <1>2, <1>3, <1>6, <1>13, <1>14 DEF T, S, q
=============================================================================
