----------------- MODULE ConstraintSimplification_proofs -----------------
(***************************************************************************)
(* What the simplification of the constraints promises, for every prime,   *)
(* every circuit and every way of simplifying it.                          *)
(*                                                                         *)
(* The invariant IInv says at each stage what the lists of constraints,    *)
(* the substitutions and the log mean: a valuation of all signals          *)
(* satisfies the constraints of the program exactly if it satisfies those  *)
(* that are left in the lists and obeys the log.  It also says that the    *)
(* removed signals are in no list that is still to be read, and that the   *)
(* log can be satisfied by a choice of the removed signals, whatever the   *)
(* others are.  The three together give the statement of the circuit over  *)
(* the signals that are left.                                              *)
(*                                                                         *)
(* The module goes from the bottom up: folds over signals; expressions     *)
(* and their values; constraints, substitutions and definitions; clusters; *)
(* the rounds over the storage and the layout of the witness; and then the *)
(* invariant, with a lemma for each action.                                *)
(***************************************************************************)
EXTENDS ConstraintSimplification, FiniteSetTheorems, SequenceTheorems, TLAPS

\* the arithmetic of the field
F == INSTANCE FieldArithmetic_proofs WITH Prime <- P

-----------------------------------------------------------------------------
(* Induction over sets, and least and greatest signals *)

\* A set of subsets of a finite set that has every subset whose parts with one
\* element less it has, has the whole set.
LEMMA SubsetsInduct ==
    ASSUME NEW S, IsFiniteSet(S), NEW Q,
           \A T \in SUBSET S : (\A x \in T : T \ {x} \in Q) => T \in Q
    PROVE  \A T \in SUBSET S : T \in Q
  <1>1. F!IsFiniteSet(S)
    BY DEF F!IsFiniteSet, IsFiniteSet
  <1> QED  BY <1>1, F!SubsetsInduct, Zenon

\* Every set of signals is finite, and has a least and a greatest one.
LEMMA Bounds ==
    ASSUME NEW n \in Nat, NEW S \in SUBSET (0..n), S # {}
    PROVE  /\ IsFiniteSet(S)
           /\ Min(S) \in S /\ \A s \in S : Min(S) <= s
           /\ Max(S) \in S /\ \A s \in S : s <= Max(S)
  <1>1. IsFiniteSet(S)
    <2>1. IsFiniteSet(0..n)
      BY FS_Interval
    <2> QED  BY <2>1, FS_Subset
  <1>2. \E m \in S : \A s \in S : m <= s
    BY F!HasLeast
  <1> DEFINE R == {n - s : s \in S}
  <1>3. PICK r \in R : \A j \in R : r <= j
    <2>1. \A s \in S : n - s \in Nat
      OBVIOUS
    <2>2. R \in SUBSET Nat /\ R # {}
      BY <2>1
    <2> HIDE DEF R
    <2> QED  BY <2>2, F!HasLeast
  <1>4. PICK m \in S : r = n - m
    BY <1>3
  <1>5. \A s \in S : m >= s
    <2> SUFFICES ASSUME NEW s \in S  PROVE  m >= s
      OBVIOUS
    <2>1. n - s \in R
      OBVIOUS
    <2> HIDE DEF R
    <2> QED  BY <1>3, <1>4, <2>1
  <1>6. Min(S) \in S /\ \A s \in S : Min(S) <= s
    BY <1>2 DEF Min
  <1>7. Max(S) \in S /\ \A s \in S : Max(S) >= s
    BY <1>5 DEF Max
  <1> QED  BY <1>1, <1>6, <1>7

-----------------------------------------------------------------------------
(* Folds *)

\* W solves the equation of a fold of op over the subsets of S that takes the
\* elements as pick says.
FoldTable(S, base, op, pick, W) ==
    \A T \in SUBSET S : W[T] = IF T = {} THEN base ELSE op[<<pick[T], W[T \ {pick[T]}]>>]
HasFold(S, D, base, op, pick) == \E W \in [SUBSET S -> D] : FoldTable(S, base, op, pick, W)

\* The equation of a fold over the subsets of S has a solution, when op maps
\* an element and a result of D to a result of D, and pick takes an element.
LEMMA FoldExists ==
    ASSUME NEW S, IsFiniteSet(S), NEW D, NEW base \in D, NEW op \in [S \X D -> D], NEW pick,
           \A T \in SUBSET S : T # {} => pick[T] \in T
    PROVE  HasFold(S, D, base, op, pick)
  <1> DEFINE Good(W, T) == \A U \in SUBSET T : W[U] = IF U = {} THEN base
                                                 ELSE op[<<pick[U], W[U \ {pick[U]}]>>]
             Q == {T \in SUBSET S : \E W \in [SUBSET S -> D] : Good(W, T)}
  <1>1. ASSUME NEW T \in SUBSET S, \A x \in T : T \ {x} \in Q  PROVE  T \in Q
    <2>1. CASE T = {}
      <3> DEFINE W == [U \in SUBSET S |-> base]
      <3>1. W \in [SUBSET S -> D] /\ Good(W, T)
        BY <2>1
      <3> QED  BY <3>1
    <2>2. CASE T # {}
      \* solutions for the parts that lack an element, agreeing where they meet
      <3> DEFINE Part(x) == CHOOSE W \in [SUBSET S -> D] : Good(W, T \ {x})
      <3>1. \A x \in T : Part(x) \in [SUBSET S -> D] /\ Good(Part(x), T \ {x})
        BY <1>1
      <3>2. \A x, y \in T : \A U \in SUBSET S :
               U \subseteq T \ {x} /\ U \subseteq T \ {y} => Part(x)[U] = Part(y)[U]
        <4> SUFFICES ASSUME NEW x \in T, NEW y \in T
                     PROVE  \A U \in SUBSET S : U \subseteq T \ {x} /\ U \subseteq T \ {y} =>
                                                   Part(x)[U] = Part(y)[U]
          OBVIOUS
        <4> DEFINE A == Part(x)
                   B == Part(y)
                   E == {U \in SUBSET S : U \subseteq T \ {x} /\ U \subseteq T \ {y} => A[U] = B[U]}
        <4>0. Good(A, T \ {x}) /\ Good(B, T \ {y})
          BY <3>1
        <4> HIDE DEF A, B
        <4>1. ASSUME NEW U \in SUBSET S, \A z \in U : U \ {z} \in E  PROVE  U \in E
          <5> SUFFICES ASSUME U \subseteq T \ {x}, U \subseteq T \ {y}  PROVE  A[U] = B[U]
            OBVIOUS
          <5>1. CASE U = {}
            BY <5>1, <4>0
          <5>2. CASE U # {}
            <6>1. pick[U] \in U /\ U \ {pick[U]} \in E
              BY <5>2, <4>1
            <6>2. A[U \ {pick[U]}] = B[U \ {pick[U]}]
              BY <6>1
            <6> QED  BY <5>2, <6>2, <4>0
          <5> QED  BY <5>1, <5>2
        <4> HIDE DEF E
        <4>2. \A U \in SUBSET S : U \in E
          BY <4>1, SubsetsInduct
        <4> QED  BY <4>2 DEF E, A, B
      <3> HIDE DEF Part
      <3> DEFINE p == pick[T]
                 W == [U \in SUBSET S |-> IF U = T THEN op[<<p, Part(p)[T \ {p}]>>]
                                          ELSE IF U \subseteq T /\ U # T
                                          THEN Part(CHOOSE x \in T : x \notin U)[U] ELSE base]
      <3>3. p \in T /\ p \in S
        BY <2>2
      <3>4. W \in [SUBSET S -> D]
        <4>1. op[<<p, Part(p)[T \ {p}]>>] \in D
          BY <3>1, <3>3
        <4>2. \A U \in SUBSET S : U \subseteq T /\ U # T =>
                  Part(CHOOSE x \in T : x \notin U)[U] \in D
          <5> SUFFICES ASSUME NEW U \in SUBSET S, U \subseteq T, U # T
                       PROVE  Part(CHOOSE x \in T : x \notin U)[U] \in D
            OBVIOUS
          <5> DEFINE y == CHOOSE x \in T : x \notin U
          <5>1. \E x \in T : x \notin U
            OBVIOUS
          <5>2. y \in T
            BY <5>1
          <5>3. Part(y) \in [SUBSET S -> D]
            BY <5>2, <3>1
          <5> QED  BY <5>3
        <4> QED  BY <4>1, <4>2
      <3>5. \A U \in SUBSET S, x \in T : U \subseteq T \ {x} => W[U] = Part(x)[U]
        <4> SUFFICES ASSUME NEW U \in SUBSET S, NEW x \in T, U \subseteq T \ {x}
                     PROVE  W[U] = Part(x)[U]
          OBVIOUS
        <4> DEFINE y == CHOOSE z \in T : z \notin U
        <4>1. U # T /\ U \subseteq T /\ y \in T /\ y \notin U
          OBVIOUS
        <4>2. W[U] = Part(y)[U]
          BY <4>1
        <4> QED  BY <4>1, <4>2, <3>2
      <3>6. Good(W, T)
        <4> SUFFICES ASSUME NEW U \in SUBSET T
                     PROVE  W[U] = IF U = {} THEN base ELSE op[<<pick[U], W[U \ {pick[U]}]>>]
          OBVIOUS
        <4>1. CASE U = T
          <5>1. W[T] = op[<<p, Part(p)[T \ {p}]>>] /\ W[T \ {p}] = Part(p)[T \ {p}]
            BY <3>3, <3>5
          <5> HIDE DEF W
          <5> QED  BY <4>1, <5>1, <2>2
        <4>2. CASE U # T
          <5>0. PICK x \in T : x \notin U
            BY <4>2
          <5>1. U \subseteq T \ {x}
            BY <5>0
          <5>2. W[U] = Part(x)[U] /\ \A z \in U : W[U \ {z}] = Part(x)[U \ {z}]
            BY <5>1, <3>5
          <5>3. U # {} => pick[U] \in U
            OBVIOUS
          <5>4. Part(x)[U] = IF U = {} THEN base ELSE op[<<pick[U], Part(x)[U \ {pick[U]}]>>]
            BY <5>1, <3>1
          <5> HIDE DEF W
          <5> QED  BY <5>2, <5>3, <5>4
        <4> QED  BY <4>1, <4>2
      <3> HIDE DEF W
      <3> QED  BY <3>4, <3>6
    <2> QED  BY <2>1, <2>2
  <1> HIDE DEF Q
  <1>2. S \in Q
    BY <1>1, SubsetsInduct
  <1>3. PICK W \in [SUBSET S -> D] : Good(W, S)
    BY <1>2 DEF Q
  <1> QED  BY <1>3 DEF HasFold, FoldTable

-----------------------------------------------------------------------------
(* Expressions and their values *)

Expr == UNION {[D -> Field] : D \in SUBSET Signal}

\* The values of the signals, whether they solve the circuit or not
Valuations == {v \in [Signal -> Field] : v[One] = 1}

\* What the assumptions say of the numbers.
LEMMA Numbers ==
    /\ P \in Nat \ {0} /\ P > 1 /\ F!IsPrime
    /\ NoLabels \in Nat \ {0} /\ One \in Signal /\ Signal \subseteq Nat
    /\ 0 \in Field /\ 1 \in Field /\ Field \subseteq Int
  BY FieldAssumption, CircuitsAssumption DEF F!IsPrime, One, Signal, Field

\* An expression has finitely many entries, with coefficients in the field.
LEMMA ExprIs ==
    ASSUME NEW e \in Expr
    PROVE  /\ DOMAIN e \in SUBSET Signal /\ e \in [DOMAIN e -> Field]
           /\ IsFiniteSet(DOMAIN e)
           /\ \A s \in DOMAIN e : e[s] \in Field /\ e[s] \in Int
           /\ \A s : Coefficient(e, s) \in Field /\ Coefficient(e, s) \in Int
  <1>1. PICK D \in SUBSET Signal : e \in [D -> Field]
    BY DEF Expr
  <1>2. IsFiniteSet(Signal)
    BY Numbers, FS_Interval DEF Signal
  <1>3. IsFiniteSet(D)
    BY <1>2, FS_Subset
  <1>4. \A s \in DOMAIN e : e[s] \in Field /\ e[s] \in Int
    BY <1>1, Numbers
  <1>5. \A s : Coefficient(e, s) \in Field /\ Coefficient(e, s) \in Int
    BY <1>4, Numbers DEF Coefficient
  <1> QED  BY <1>1, <1>3, <1>4, <1>5

\* What is an expression.
LEMMA ExprIf ==
    ASSUME NEW D \in SUBSET Signal, NEW e \in [D -> Field]
    PROVE  e \in Expr
  BY DEF Expr

\* Expressions with the same entries are the same.
LEMMA SameExpr ==
    ASSUME NEW e \in Expr, NEW f \in Expr, DOMAIN e = DOMAIN f, \A s \in DOMAIN e : e[s] = f[s]
    PROVE  e = f
  <1>1. e \in [DOMAIN e -> Field] /\ f \in [DOMAIN e -> Field]
    BY ExprIs
  <1> QED  BY <1>1

\* The assignments of the properties are the valuations.
LEMMA AssignmentsAre == Assignments(Signal) = Valuations
  <1>1. ASSUME NEW v \in Assignments(Signal)  PROVE  v \in Valuations
    <2>1. PICK u \in [Signal \ {One} -> Field] : v = Only(One, 1) ++ u
      BY DEF Assignments
    <2>2. v = [s \in Signal |-> IF s = One THEN 1 ELSE u[s]]
      BY <2>1, Numbers DEF Only, ++
    <2> QED  BY <2>2, Numbers DEF Valuations
  <1>2. ASSUME NEW v \in Valuations  PROVE  v \in Assignments(Signal)
    <2> DEFINE u == [s \in Signal \ {One} |-> v[s]]
    <2>1. u \in [Signal \ {One} -> Field]
      BY DEF Valuations
    <2>2. v = [s \in Signal |-> IF s = One THEN 1 ELSE u[s]]
      BY DEF Valuations
    <2>3. Only(One, 1) ++ u = [s \in Signal |-> IF s = One THEN 1 ELSE u[s]]
      BY Numbers DEF Only, ++
    <2> QED  BY <2>1, <2>2, <2>3 DEF Assignments
  <1> QED  BY <1>1, <1>2

\* What the sum of a value is computed by: a sum for each part of the entries.
Table(e, v, W) ==
    W = [T \in SUBSET DOMAIN e |->
           IF T = {} THEN 0
           ELSE e[CHOOSE x \in T : TRUE] * v[CHOOSE x \in T : TRUE]
                + W[T \ {CHOOSE x \in T : TRUE}]]

\* A value is read off such a table.
LEMMA ValueTable ==
    ASSUME NEW e, NEW v
    PROVE  Value(e, v) = (CHOOSE W : Table(e, v, W))[DOMAIN e] % P
  BY DEF Value, MapThenSumSet, MapThenFoldSet, Table

\* There is such a table.
LEMMA ValueTableExists ==
    ASSUME NEW e \in Expr, NEW v \in [Signal -> Field]
    PROVE  \E W : Table(e, v, W)
  <1> DEFINE D == DOMAIN e
             f == [s \in D |-> e[s] * v[s]]
  <1>1. D \in SUBSET Signal /\ IsFiniteSet(D) /\ f \in [D -> Int]
    <2>1. \A s \in D : e[s] \in Int /\ v[s] \in Int
      BY ExprIs, Numbers
    <2> QED  BY <2>1, ExprIs
  <1> DEFINE pick == [T \in SUBSET D |-> CHOOSE x \in T : TRUE]
             op == [p \in D \X Int |-> f[p[1]] + p[2]]
             Sums(W) == W = [T \in SUBSET D |->
                               IF T = {} THEN 0
                               ELSE e[CHOOSE x \in T : TRUE] * v[CHOOSE x \in T : TRUE]
                                    + W[T \ {CHOOSE x \in T : TRUE}]]
  <1>2. \E W : Sums(W)
    <2>1. op \in [D \X Int -> Int]
      <3> HIDE DEF f, D
      <3> QED  BY <1>1
    <2>2. \A T \in SUBSET D : T # {} => pick[T] \in T
      OBVIOUS
    <2>3. PICK W \in [SUBSET D -> Int] : FoldTable(D, 0, op, pick, W)
      <3>1. HasFold(D, Int, 0, op, pick)
        <4> HIDE DEF pick, op, D
        <4>1. 0 \in Int
          OBVIOUS
        <4> QED  BY <2>1, <2>2, <1>1, <4>1, FoldExists, Zenon
      <3> QED  BY <3>1 DEF HasFold
    <2>4. ASSUME NEW T \in SUBSET D, T # {}
          PROVE  W[T] = e[CHOOSE x \in T : TRUE] * v[CHOOSE x \in T : TRUE]
                        + W[T \ {CHOOSE x \in T : TRUE}]
      <3> DEFINE y == CHOOSE x \in T : TRUE
      <3>1. y \in T /\ y \in D /\ pick[T] = y /\ W[T \ {y}] \in Int
        BY <2>4
      <3>2. W[T] = op[<<y, W[T \ {y}]>>]
        BY <2>3, <2>4, <3>1 DEF FoldTable
      <3> QED  BY <3>1, <3>2
    <2>5. Sums(W)
      <3> HIDE DEF D
      <3> QED  BY <2>3, <2>4 DEF FoldTable
    <2> QED  BY <2>5
  <1> QED  BY <1>2 DEF Table

\* A value is the sum over the signals of coefficient times signal.
LEMMA ValueSums ==
    ASSUME NEW e \in Expr, NEW v \in [Signal -> Field]
    PROVE  \E S \in [0..NoLabels -> Int] :
              /\ S[0] = 0
              /\ \A n \in Signal : S[n + 1] = S[n] + Coefficient(e, n) * v[n]
              /\ Value(e, v) = S[NoLabels] % P
  <1> DEFINE D == DOMAIN e
             f == [s \in D |-> e[s] * v[s]]
  <1>1. D \in SUBSET Signal /\ IsFiniteSet(D) /\ f \in [D -> Int]
    <2>1. \A s \in D : e[s] \in Int /\ v[s] \in Int
      BY ExprIs, Numbers
    <2> QED  BY <2>1, ExprIs
  <1> DEFINE Sums(W) == W = [T \in SUBSET D |->
                               IF T = {} THEN 0
                               ELSE e[CHOOSE x \in T : TRUE] * v[CHOOSE x \in T : TRUE]
                                    + W[T \ {CHOOSE x \in T : TRUE}]]
  <1>2. \E W : Sums(W)
    BY ValueTableExists DEF Table
  <1> DEFINE W == CHOOSE X : Sums(X)
  <1>3. Sums(W)
    BY <1>2
  <1>4. Value(e, v) = W[D] % P
    BY DEF Value, MapThenSumSet, MapThenFoldSet
  <1>5. \A T \in SUBSET D : W[T] \in Int /\ (T = {} => W[T] = 0)
                           /\ (T # {} => \E y \in T : W[T] = f[y] + W[T \ {y}])
    <2> DEFINE Q == {T \in SUBSET D : /\ W[T] \in Int /\ (T = {} => W[T] = 0)
                                      /\ T # {} => \E y \in T : W[T] = f[y] + W[T \ {y}]}
    <2>1. ASSUME NEW T \in SUBSET D, \A x \in T : T \ {x} \in Q  PROVE  T \in Q
      <3>1. CASE T = {}
        <4>1. W[T] = 0
          <5> HIDE DEF W
          <5> QED  BY <3>1, <1>3
        <4> QED  BY <3>1, <4>1
      <3>2. CASE T # {}
        <4> DEFINE y == CHOOSE x \in T : TRUE
        <4>1. y \in T /\ y \in D
          BY <3>2
        <4>2. W[T] = f[y] + W[T \ {y}]
          <5> HIDE DEF W
          <5>1. W[T] = e[y] * v[y] + W[T \ {y}]
            BY <3>2, <1>3
          <5> QED  BY <5>1, <4>1
        <4>3. W[T \ {y}] \in Int /\ f[y] \in Int
          BY <4>1, <1>1, <2>1
        <4>4. W[T] \in Int
          <5> HIDE DEF W, f, y
          <5> QED  BY <4>2, <4>3
        <4>5. T # {} => \E z \in T : W[T] = f[z] + W[T \ {z}]
          <5> HIDE DEF W, f, y
          <5> QED  BY <4>1, <4>2
        <4> HIDE DEF W, f, y
        <4> QED  BY <3>2, <4>4, <4>5
      <3> QED  BY <3>1, <3>2
    <2> HIDE DEF Q
    <2>2. \A T \in SUBSET D : T \in Q
      BY <2>1, <1>1, SubsetsInduct
    <2> QED  BY <2>2 DEF Q
  \* the sum does not depend on the order
  <1>6. \A T \in SUBSET D : \A x \in T : W[T] = f[x] + W[T \ {x}]
    <2> DEFINE Q == {T \in SUBSET D : \A x \in T : W[T] = f[x] + W[T \ {x}]}
    <2>1. ASSUME NEW T \in SUBSET D, \A x \in T : T \ {x} \in Q  PROVE  T \in Q
      <3> SUFFICES ASSUME NEW x \in T  PROVE  W[T] = f[x] + W[T \ {x}]
        OBVIOUS
      <3>1. PICK y \in T : W[T] = f[y] + W[T \ {y}]
        BY <1>5
      <3> DEFINE U == T \ {x, y}
      <3>2. CASE x # y
        <4>1. U = (T \ {y}) \ {x} /\ U = (T \ {x}) \ {y} /\ x \in T \ {y} /\ y \in T \ {x}
          BY <3>2
        <4> HIDE DEF W, f, U
        <4>2. W[T \ {y}] = f[x] + W[U] /\ W[T \ {x}] = f[y] + W[U]
          BY <2>1, <4>1
        <4>3. f[x] \in Int /\ f[y] \in Int /\ W[U] \in Int
          BY <1>1, <1>5 DEF U
        <4> QED  BY <3>1, <4>2, <4>3
      <3> QED  BY <3>1, <3>2
    <2> HIDE DEF Q
    <2>2. \A T \in SUBSET D : T \in Q
      BY <2>1, <1>1, SubsetsInduct
    <2> QED  BY <2>2 DEF Q
  <1> DEFINE S == [n \in 0..NoLabels |-> W[D \cap 0..n - 1]]
  <1> HIDE DEF W
  <1>7. S \in [0..NoLabels -> Int] /\ S[0] = 0
    <2>1. \A n \in 0..NoLabels : D \cap 0..n - 1 \in SUBSET D
      OBVIOUS
    <2>2. D \cap 0..0 - 1 = {} /\ 0 \in 0..NoLabels
      BY Numbers
    <2> QED  BY <2>1, <2>2, <1>5
  <1>8. S[NoLabels] = W[D]
    <2>1. D \cap 0..NoLabels - 1 = D /\ NoLabels \in 0..NoLabels
      <3>1. \A s \in D : s \in 0..NoLabels - 1
        BY <1>1 DEF Signal
      <3> QED  BY <3>1, Numbers
    <2> QED  BY <2>1
  <1>9. ASSUME NEW n \in Signal  PROVE  S[n + 1] = S[n] + Coefficient(e, n) * v[n]
    <2> DEFINE T == D \cap 0..(n + 1) - 1
    <2>0. n \in Nat /\ n \in 0..NoLabels /\ n + 1 \in 0..NoLabels
      BY Numbers DEF Signal
    <2>a. v[n] \in Int
      BY Numbers
    <2>1. S[n + 1] = W[T] /\ S[n] = W[D \cap 0..n - 1] /\ S[n] \in Int
      BY <2>0, <1>7
    <2>2. CASE n \in D
      <3>1. n \in T /\ T \ {n} = D \cap 0..n - 1
        BY <2>0, <2>2
      <3>2. W[T] = f[n] + W[D \cap 0..n - 1]
        <4>1. T \in SUBSET D
          OBVIOUS
        <4> HIDE DEF T, f
        <4> QED  BY <3>1, <4>1, <1>6
      <3>3. f[n] = Coefficient(e, n) * v[n] /\ f[n] \in Int
        BY <2>2, <1>1 DEF Coefficient
      <3> DEFINE x == Coefficient(e, n) * v[n]
                 y == D \cap 0..n - 1
      <3>4. S[n + 1] = f[n] + S[n] /\ f[n] = x
        <4> HIDE DEF S, T, f
        <4> QED  BY <2>1, <3>2, <3>3
      <3>5. S[n + 1] = S[n] + x
        <4> HIDE DEF S, T, f, x
        <4> QED  BY <3>4, <3>3, <2>1
      <3> QED  BY <3>5
    <2>3. CASE n \notin D
      <3>1. T = D \cap 0..n - 1
        BY <2>0, <2>3
      <3>2. Coefficient(e, n) * v[n] = 0
        BY <2>a, <2>3 DEF Coefficient
      <3> DEFINE x == Coefficient(e, n) * v[n]
      <3>3. S[n + 1] = S[n] /\ x = 0
        <4> HIDE DEF S
        <4> QED  BY <2>1, <3>1, <3>2
      <3>4. S[n + 1] = S[n] + x
        <4> HIDE DEF S, x
        <4> QED  BY <3>3, <2>1
      <3> QED  BY <3>4
    <2> QED  BY <2>2, <2>3
  <1> HIDE DEF S
  <1> QED  BY <1>4, <1>7, <1>8, <1>9

-----------------------------------------------------------------------------
(* Arithmetic modulo P *)

\* x and y are the same modulo P.
Same(x, y) == x % P = y % P

\* A number is the same as its remainder.
LEMMA SameIs ==
    ASSUME NEW x \in Int
    PROVE  /\ Same(x, x)
           /\ x % P \in Field /\ x % P \in Int /\ Same(x % P, x) /\ Same(x, x % P)
           /\ x \in Field => x % P = x
  <1>1. P \in Nat \ {0}
    BY Numbers
  <1> DEFINE r == x % P
  <1>2. r \in 0..P - 1 /\ (x \in 0..P - 1 => r = x)
    BY <1>1, F!ModSmall
  <1>3. r \in Int /\ r % P = r
    <2> HIDE DEF r
    <2>1. r \in Int
      BY <1>2, <1>1
    <2> QED  BY <2>1, <1>1, <1>2, F!ModSmall
  <1> QED  BY <1>2, <1>3 DEF Same, Field

\* Being the same modulo P is transitive and symmetric.
LEMMA SameTrans ==
    ASSUME NEW x, NEW y, NEW z, Same(x, y), Same(y, z)
    PROVE  Same(x, z) /\ Same(y, x)
  BY DEF Same

\* The field has one element of each remainder.
LEMMA SameInField ==
    ASSUME NEW x \in Field, NEW y \in Field, Same(x, y)
    PROVE  x = y
  <1>1. x \in Int /\ y \in Int
    BY Numbers
  <1>2. x % P = x /\ y % P = y
    BY <1>1, SameIs
  <1> QED  BY <1>2 DEF Same

\* Numbers that are the same differ by a multiple of P.
LEMMA Differ ==
    ASSUME NEW x \in Int, NEW y \in Int, Same(x, y)
    PROVE  \E k \in Int : x = y + P * k
  BY Numbers, F!DifferBy DEF Same

\* Sums of multiples of what is the same are the same.
LEMMA SameSums ==
    ASSUME NEW x \in Int, NEW y \in Int, NEW a \in Int, NEW b \in Int, NEW k \in Int, NEW l \in Int,
           NEW i \in Int, NEW j \in Int, a = x + P * i, b = y + P * j
    PROVE  Same(k * a + l * b, k * x + l * y)
  <1>p. P \in Nat \ {0}
    BY Numbers
  <1> DEFINE A == k * a + l * b
             B == k * x + l * y
             C == k * i + l * j
  <1>3. A = B + P * C
    <2>1. k * a = k * x + P * (k * i)
      BY <1>p
    <2>2. l * b = l * y + P * (l * j)
      BY <1>p
    <2>3. P * (k * i + l * j) = P * (k * i) + P * (l * j)
      BY <1>p
    <2> QED  BY <2>1, <2>2, <2>3, <1>p
  <1>4. A \in Int /\ B \in Int /\ C \in Int
    OBVIOUS
  <1>5. A % P = B % P
    <2> HIDE DEF A, B, C
    <2> QED  BY <1>3, <1>4, <1>p, F!SameMod
  <1> QED  BY <1>5 DEF Same

\* The same numbers have the same linear combinations,
LEMMA SameLinear ==
    ASSUME NEW x \in Int, NEW y \in Int, NEW a \in Int, NEW b \in Int, NEW k \in Int, NEW l \in Int,
           Same(a, x), Same(b, y)
    PROVE  Same(k * a + l * b, k * x + l * y)
  <1>1. PICK i \in Int : a = x + P * i
    BY Differ
  <1>2. PICK j \in Int : b = y + P * j
    BY Differ
  <1> QED  BY <1>1, <1>2, SameSums

\* the same multiples,
LEMMA SameScaled ==
    ASSUME NEW x \in Int, NEW a \in Int, NEW k \in Int, Same(a, x)
    PROVE  Same(k * a, k * x)
  <1>1. PICK i \in Int : a = x + P * i
    BY Differ
  <1> DEFINE z == 0
  <1>2. z \in Int /\ z = z + P * z /\ k * a + k * z = k * a /\ k * x + k * z = k * x
    BY Numbers
  <1>3. Same(k * a + k * z, k * x + k * z)
    <2> HIDE DEF z
    <2> QED  BY <1>1, <1>2, SameSums
  <1> QED  BY <1>2, <1>3

\* and the same sums and differences.
LEMMA SameSum ==
    ASSUME NEW x \in Int, NEW y \in Int, NEW a \in Int, NEW b \in Int, Same(a, x), Same(b, y)
    PROVE  Same(a + b, x + y) /\ Same(a - b, x - y)
  <1> DEFINE u == 1
             n == -1
  <1>1. u \in Int /\ n \in Int
    OBVIOUS
  <1>2. Same(u * a + u * b, u * x + u * y) /\ Same(u * a + n * b, u * x + n * y)
    <2> HIDE DEF u, n
    <2> QED  BY <1>1, SameLinear
  <1>3. /\ u * a + u * b = a + b /\ u * x + u * y = x + y
        /\ u * a + n * b = a - b /\ u * x + n * y = x - y
    OBVIOUS
  <1> QED  BY <1>2, <1>3

\* A number that is not zero modulo P can be cancelled.
LEMMA Cancel ==
    ASSUME NEW k \in 1..P - 1
    PROVE  /\ InverseOf(k) \in 1..P - 1 /\ Same(InverseOf(k) * k, 1)
           /\ \A x \in Int : Same(k * x, 0) <=> Same(x, 0)
  <1>p. P \in Nat \ {0} /\ P > 1 /\ k \in Int /\ 0 \in Int /\ 1 \in Int
    BY Numbers
  <1>0. 0 % P = 0 /\ 1 % P = 1
    BY <1>p, SameIs, Numbers
  <1>1. \E i \in 1..P - 1 : (i * k) % P = 1
    <2> DEFINE m == F!mod_inverse(k)
    <2>1. k \in F!Element /\ k # 0
      BY <1>p DEF F!Element
    <2>2. m \in F!Element /\ F!Product(m, k) = 1
      BY <2>1, Numbers, F!InverseIs
    <2> HIDE DEF m
    <2>3. m \in 0..P - 1 /\ (m * k) % P = 1
      BY <2>2 DEF F!Element, F!Product
    <2>4. m # 0
      <3> SUFFICES ASSUME m = 0  PROVE  FALSE
        OBVIOUS
      <3>1. m * k = 0
        BY <1>p
      <3> QED  BY <3>1, <1>0, <2>3
    <2> QED  BY <2>3, <2>4
  <1>2. InverseOf(k) \in 1..P - 1 /\ (InverseOf(k) * k) % P = 1
    BY <1>1 DEF InverseOf
  <1> DEFINE i == InverseOf(k)
  <1>3. i \in Int /\ Same(i * k, 1)
    BY <1>2, <1>0 DEF Same
  <1> HIDE DEF i
  <1>4. ASSUME NEW x \in Int, Same(k * x, 0)  PROVE  Same(x, 0)
    <2> DEFINE y == k * x
               z == 0
               j == i * k
               u == 1
    <2>1. y \in Int /\ z \in Int /\ j \in Int /\ u \in Int /\ Same(y, z) /\ Same(j, u)
      BY <1>p, <1>3, <1>4
    <2>2. Same(i * y, i * z) /\ Same(x * j, x * u)
      <3> HIDE DEF y, z, j, u
      <3> QED  BY <2>1, <1>3, SameScaled
    <2>3. i * y = x * j /\ i * z = 0 /\ x * u = x
      BY <1>3, <1>p
    <2> QED  BY <2>2, <2>3 DEF Same
  <1>5. ASSUME NEW x \in Int, Same(x, 0)  PROVE  Same(k * x, 0)
    <2> DEFINE z == 0
    <2>1. z \in Int /\ Same(x, z)
      BY <1>5
    <2>2. Same(k * x, k * z)
      <3> HIDE DEF z
      <3> QED  BY <2>1, <1>p, SameScaled
    <2>3. k * z = 0
      BY <1>p
    <2> QED  BY <2>2, <2>3
  <1> QED  BY <1>2, <1>3, <1>4, <1>5 DEF i

-----------------------------------------------------------------------------
(* Values of expressions *)

\* A value is in the field.
LEMMA ValueIn ==
    ASSUME NEW e \in Expr, NEW v \in [Signal -> Field]
    PROVE  Value(e, v) \in Field /\ Value(e, v) \in Int
  <1>1. PICK S \in [0..NoLabels -> Int] : Value(e, v) = S[NoLabels] % P
    BY ValueSums
  <1>2. S[NoLabels] \in Int
    BY Numbers
  <1> QED  BY <1>1, <1>2, SameIs

\* The value of a linear combination of expressions.
LEMMA Combine ==
    ASSUME NEW e \in Expr, NEW f \in Expr, NEW g \in Expr, NEW v \in [Signal -> Field],
           NEW k \in Int, NEW l \in Int,
           \A s \in Signal : Same(Coefficient(g, s), k * Coefficient(e, s) + l * Coefficient(f, s))
    PROVE  Same(Value(g, v), k * Value(e, v) + l * Value(f, v))
  <1>1. PICK A \in [0..NoLabels -> Int] :
           /\ A[0] = 0
           /\ \A n \in Signal : A[n + 1] = A[n] + Coefficient(e, n) * v[n]
           /\ Value(e, v) = A[NoLabels] % P
    BY ValueSums
  <1>2. PICK B \in [0..NoLabels -> Int] :
           /\ B[0] = 0
           /\ \A n \in Signal : B[n + 1] = B[n] + Coefficient(f, n) * v[n]
           /\ Value(f, v) = B[NoLabels] % P
    BY ValueSums
  <1>3. PICK C \in [0..NoLabels -> Int] :
           /\ C[0] = 0
           /\ \A n \in Signal : C[n + 1] = C[n] + Coefficient(g, n) * v[n]
           /\ Value(g, v) = C[NoLabels] % P
    BY ValueSums
  <1> DEFINE Q == {n \in 0..NoLabels : Same(C[n], k * A[n] + l * B[n])}
  <1>4. 0 \in Q
    <2>1. k * A[0] + l * B[0] = 0 /\ C[0] = 0
      BY <1>1, <1>2, <1>3
    <2> QED  BY <2>1, Numbers DEF Same
  <1>5. ASSUME NEW n \in 0..NoLabels - 1, n \in Q  PROVE  n + 1 \in Q
    <2> DEFINE a == Coefficient(e, n)
               b == Coefficient(f, n)
               c == Coefficient(g, n)
               x == v[n]
    <2>1. n \in Signal /\ n + 1 \in 0..NoLabels /\ n \in 0..NoLabels
      BY Numbers DEF Signal
    <2>2. /\ A[n] \in Int /\ B[n] \in Int /\ C[n] \in Int
          /\ a \in Int /\ b \in Int /\ c \in Int /\ x \in Int
      BY <2>1, ExprIs, Numbers
    <2>3. /\ A[n + 1] = A[n] + a * x /\ B[n + 1] = B[n] + b * x
          /\ C[n + 1] = C[n] + c * x
      BY <2>1, <1>1, <1>2, <1>3
    <2>4. Same(c, k * a + l * b)
      BY <2>1
    <2> HIDE DEF a, b, c, x
    <2> DEFINE d == k * a + l * b
               D == k * A[n] + l * B[n]
               y == C[n]
    <2>5. d \in Int /\ D \in Int /\ y \in Int /\ Same(y, D) /\ Same(c, d)
      BY <2>2, <2>4, <1>5
    <2>6. Same(y + x * c, D + x * d)
      <3> DEFINE p == x * c
                 q == x * d
      <3>1. Same(p, q) /\ p \in Int /\ q \in Int
        <4> HIDE DEF d, D, y
        <4>1. Same(x * c, x * d)
          BY <2>5, <2>2, SameScaled
        <4>2. p \in Int /\ q \in Int
          BY <2>5, <2>2
        <4> QED  BY <4>1, <4>2
      <3>2. Same(y + p, D + q)
        <4> HIDE DEF d, D, y, p, q
        <4> QED  BY <3>1, <2>5, SameSum
      <3> QED  BY <3>2
    <2>7. y + x * c = C[n + 1]
      BY <2>2, <2>3
    <2>8. D + x * d = k * A[n + 1] + l * B[n + 1]
      <3>1. k * A[n + 1] = k * A[n] + k * (a * x) /\ l * B[n + 1] = l * B[n] + l * (b * x)
        BY <2>2, <2>3
      <3>2. x * d = k * (a * x) + l * (b * x)
        BY <2>2
      <3>3. /\ k * A[n] \in Int /\ l * B[n] \in Int
            /\ k * (a * x) \in Int /\ l * (b * x) \in Int
        BY <2>2
      <3> DEFINE m1 == k * A[n]
                 m2 == l * B[n]
                 m3 == k * (a * x)
                 m4 == l * (b * x)
      <3>4. (m1 + m2) + (m3 + m4) = (m1 + m3) + (m2 + m4)
        <4> HIDE DEF m1, m2, m3, m4
        <4>1. m1 \in Int /\ m2 \in Int /\ m3 \in Int /\ m4 \in Int
          BY <3>3 DEF m1, m2, m3, m4
        <4> QED  BY <4>1
      <3> QED  BY <3>1, <3>2, <3>4
    <2> QED  BY <2>1, <2>6, <2>7, <2>8
  <1> HIDE DEF Q
  <1>6. NoLabels \in Q
    <2>1. NoLabels \in Nat /\ NoLabels \in 0..NoLabels
      BY Numbers
    <2>2. \A n \in 0..NoLabels : n \in Q
      BY <1>4, <1>5, <2>1, F!UpToInduct
    <2> QED  BY <2>1, <2>2
  <1> DEFINE x == A[NoLabels]
             y == B[NoLabels]
             z == C[NoLabels]
  <1>7. x \in Int /\ y \in Int /\ z \in Int
    BY Numbers
  <1>8. Same(z, k * x + l * y)
    BY <1>6 DEF Q
  <1> HIDE DEF x, y, z
  <1>9. /\ Same(Value(e, v), x) /\ Same(Value(f, v), y) /\ Same(Value(g, v), z)
        /\ Value(e, v) \in Int /\ Value(f, v) \in Int
    BY <1>1, <1>2, <1>3, <1>7, SameIs, ValueIn DEF x, y, z
  <1>10. Same(k * Value(e, v) + l * Value(f, v), k * x + l * y)
    <2> DEFINE a == Value(e, v)
               b == Value(f, v)
    <2>1. Same(a, x) /\ Same(b, y) /\ a \in Int /\ b \in Int
      BY <1>9
    <2>2. Same(k * a + l * b, k * x + l * y)
      <3> HIDE DEF a, b
      <3> QED  BY <2>1, <1>7, SameLinear
    <2> QED  BY <2>2
  <1> QED  BY <1>8, <1>9, <1>10 DEF Same

\* The value of an expression without its signal 0 entry, or of one signal.
LEMMA ValueOfOnly ==
    ASSUME NEW s \in Signal, NEW k \in Field, NEW v \in [Signal -> Field]
    PROVE  Only(s, k) \in Expr /\ DOMAIN Only(s, k) = {s} /\ Value(Only(s, k), v) = (k * v[s]) % P
  <1> DEFINE e == Only(s, k)
  <1>1. e \in Expr /\ DOMAIN e = {s} /\ e[s] = k
    <2>1. e \in [{s} -> Field]
      BY DEF Only
    <2>2. e \in Expr
      BY <2>1, ExprIf
    <2> QED  BY <2>1, <2>2 DEF Only
  <1>2. \A n \in Signal : Coefficient(e, n) = IF n = s THEN k ELSE 0
    BY <1>1 DEF Coefficient
  <1>3. k \in Int /\ v[s] \in Int
    BY Numbers
  <1> HIDE DEF e
  <1>4. PICK S \in [0..NoLabels -> Int] :
           /\ S[0] = 0
           /\ \A n \in Signal : S[n + 1] = S[n] + Coefficient(e, n) * v[n]
           /\ Value(e, v) = S[NoLabels] % P
    BY <1>1, ValueSums
  <1> DEFINE x == k * v[s]
             Q == {n \in 0..NoLabels : S[n] = IF s < n THEN x ELSE 0}
  <1>5. 0 \in Q
    BY <1>4, Numbers
  <1>6. ASSUME NEW n \in 0..NoLabels - 1, n \in Q  PROVE  n + 1 \in Q
    <2>1. n \in Signal /\ n + 1 \in 0..NoLabels /\ n \in 0..NoLabels /\ s \in Int /\ x \in Int
      BY Numbers, <1>3 DEF Signal
    <2>2. S[n + 1] = S[n] + Coefficient(e, n) * v[n] /\ v[n] \in Int
      BY <2>1, <1>4, Numbers
    <2>3. CASE n = s
      <3>1. S[n] = 0 /\ Coefficient(e, n) * v[n] = x
        BY <1>6, <2>1, <2>3, <1>2
      <3>2. S[n + 1] = x
        <4> HIDE DEF x
        <4> QED  BY <3>1, <2>1, <2>2
      <3> QED  BY <3>2, <2>1, <2>3
    <2>4. CASE n # s
      <3>1. Coefficient(e, n) * v[n] = 0
        BY <2>1, <2>2, <2>4, <1>2
      <3>2. S[n] \in Int
        BY <2>1
      <3>3. S[n + 1] = S[n]
        BY <3>1, <3>2, <2>2
      <3>4. s < n + 1 <=> s < n
        BY <2>1, <2>4
      <3> HIDE DEF x
      <3> QED  BY <3>3, <3>4, <2>1, <1>6
    <2> QED  BY <2>3, <2>4
  <1> HIDE DEF Q
  <1>7. NoLabels \in Q
    <2>1. NoLabels \in Nat /\ NoLabels \in 0..NoLabels
      BY Numbers
    <2>2. \A n \in 0..NoLabels : n \in Q
      BY <1>5, <1>6, <2>1, F!UpToInduct
    <2> QED  BY <2>1, <2>2
  <1>8. S[NoLabels] = x
    BY <1>7, Numbers DEF Q, Signal
  <1> QED  BY <1>1, <1>4, <1>8 DEF e

\* A value is decided by the products of the coefficients and the values.
LEMMA SameTerms ==
    ASSUME NEW e \in Expr, NEW g \in Expr, NEW v \in [Signal -> Field], NEW w \in [Signal -> Field],
           \A s \in Signal : Coefficient(e, s) * v[s] = Coefficient(g, s) * w[s]
    PROVE  Value(e, v) = Value(g, w)
  <1>1. PICK A \in [0..NoLabels -> Int] :
           /\ A[0] = 0
           /\ \A n \in Signal : A[n + 1] = A[n] + Coefficient(e, n) * v[n]
           /\ Value(e, v) = A[NoLabels] % P
    BY ValueSums
  <1>2. PICK B \in [0..NoLabels -> Int] :
           /\ B[0] = 0
           /\ \A n \in Signal : B[n + 1] = B[n] + Coefficient(g, n) * w[n]
           /\ Value(g, w) = B[NoLabels] % P
    BY ValueSums
  <1> DEFINE Q == {n \in 0..NoLabels : A[n] = B[n]}
  <1>3. 0 \in Q
    BY <1>1, <1>2, Numbers
  <1>4. ASSUME NEW n \in 0..NoLabels - 1, n \in Q  PROVE  n + 1 \in Q
    <2>1. n \in Signal /\ n + 1 \in 0..NoLabels
      BY Numbers DEF Signal
    <2>2. Coefficient(e, n) * v[n] = Coefficient(g, n) * w[n]
      BY <2>1
    <2>3. A[n + 1] = A[n] + Coefficient(e, n) * v[n] /\ B[n + 1] = B[n] + Coefficient(g, n) * w[n]
      BY <2>1, <1>1, <1>2
    <2> QED  BY <2>1, <2>2, <2>3, <1>4
  <1> HIDE DEF Q
  <1>5. NoLabels \in Q
    <2>1. NoLabels \in Nat /\ NoLabels \in 0..NoLabels
      BY Numbers
    <2>2. \A n \in 0..NoLabels : n \in Q
      BY <1>3, <1>4, <2>1, F!UpToInduct
    <2> QED  BY <2>1, <2>2
  <1> QED  BY <1>1, <1>2, <1>5 DEF Q

\* A value depends only on the signals that have an entry.
LEMMA ValueDepends ==
    ASSUME NEW e \in Expr, NEW v \in [Signal -> Field], NEW w \in [Signal -> Field],
           \A s \in DOMAIN e : v[s] = w[s]
    PROVE  Value(e, v) = Value(e, w)
  <1>1. ASSUME NEW s \in Signal  PROVE  Coefficient(e, s) * v[s] = Coefficient(e, s) * w[s]
    <2>1. v[s] \in Int /\ w[s] \in Int
      BY Numbers
    <2>2. CASE s \in DOMAIN e
      BY <2>2
    <2>3. CASE s \notin DOMAIN e
      BY <2>1, <2>3 DEF Coefficient
    <2> QED  BY <2>2, <2>3
  <1> QED  BY <1>1, SameTerms

-----------------------------------------------------------------------------
(* The operators on expressions: type, signals and value *)

\* A clean expression has no entry that is zero.
LEMMA CleanIs ==
    ASSUME NEW e \in Clean
    PROVE  e \in Expr /\ \A s \in DOMAIN e : e[s] \in 1..P - 1
  <1>1. PICK D \in SUBSET Signal : e \in [D -> 1..P - 1]
    BY DEF Clean
  <1>2. e \in [D -> Field]
    BY <1>1 DEF Field
  <1> QED  BY <1>1, <1>2, ExprIf

\* What has the coefficients of e, has its value.
LEMMA SameValue ==
    ASSUME NEW e \in Expr, NEW g \in Expr, NEW v \in [Signal -> Field],
           \A s \in Signal : Coefficient(g, s) = Coefficient(e, s)
    PROVE  Value(g, v) = Value(e, v)
  <1>1. \A s \in Signal : Coefficient(e, s) * v[s] = Coefficient(g, s) * v[s]
    OBVIOUS
  <1> QED  BY <1>1, SameTerms

\* The expression without entries is 0 everywhere.
LEMMA ZeroIs ==
    /\ Zero \in Expr /\ Zero \in Clean /\ DOMAIN Zero = {}
    /\ \A e \in Expr : DOMAIN e = {} => e = Zero
    /\ \A v \in [Signal -> Field] : Value(Zero, v) = 0
  <1>1. Zero \in [{} -> Field] /\ Zero \in [{} -> 1..P - 1] /\ DOMAIN Zero = {}
    BY DEF Zero
  <1>2. Zero \in Expr /\ Zero \in Clean
    BY <1>1, ExprIf DEF Clean
  <1>3. ASSUME NEW e \in Expr, DOMAIN e = {}  PROVE  e = Zero
    BY <1>1, <1>2, <1>3, SameExpr
  <1>4. ASSUME NEW v \in [Signal -> Field]  PROVE  Value(Zero, v) = 0
    <2>1. \A s \in Signal : Coefficient(Zero, s) = 0
      BY <1>1 DEF Coefficient
    <2> DEFINE x == Value(Zero, v)
               k == 0
    <2>2. x \in Int /\ x \in Field /\ k \in Int /\ 0 \in Field
      BY <1>2, ValueIn, Numbers
    <2>3. \A s \in Signal : Same(Coefficient(Zero, s), k * Coefficient(Zero, s) + k * Coefficient(Zero, s))
      BY <2>1 DEF Same
    <2>4. Same(x, k * x + k * x)
      <3> HIDE DEF k
      <3> QED  BY <2>2, <2>3, <1>2, Combine
    <2>5. k * x + k * x = 0
      <3> HIDE DEF x
      <3> QED  BY <2>2
    <2>6. Same(x, 0)
      BY <2>4, <2>5
    <2> QED  BY <2>2, <2>6, SameInField
  <1> QED  BY <1>1, <1>2, <1>3, <1>4

\* remove_zero_value_coefficients drops entries and changes no value.
LEMMA NonZeroIs ==
    ASSUME NEW e \in Expr
    PROVE  /\ NonZero(e) \in Expr /\ NonZero(e) \in Clean
           /\ DOMAIN NonZero(e) = {s \in DOMAIN e : e[s] # 0}
           /\ \A s \in DOMAIN NonZero(e) : NonZero(e)[s] = e[s]
           /\ \A s \in Signal : Coefficient(NonZero(e), s) = Coefficient(e, s)
           /\ \A v \in [Signal -> Field] : Value(NonZero(e), v) = Value(e, v)
           /\ e \in Clean => NonZero(e) = e
  <1> DEFINE g == NonZero(e)
             D == {s \in DOMAIN e : e[s] # 0}
  <1>0. DOMAIN e \in SUBSET Signal /\ e \in [DOMAIN e -> Field] /\ \A s \in DOMAIN e : e[s] \in Field
    BY ExprIs
  <1>1. g = [s \in D |-> e[s]]
    BY DEF NonZero, RestrictValues, Restrict
  <1>2. D \in SUBSET Signal /\ \A s \in D : e[s] \in Field /\ e[s] \in 1..P - 1
    BY <1>0, Numbers DEF Field
  <1>3. g \in [D -> Field] /\ g \in [D -> 1..P - 1] /\ DOMAIN g = D /\ \A s \in D : g[s] = e[s]
    BY <1>1, <1>2
  <1> HIDE DEF g
  <1>4. g \in Expr /\ g \in Clean
    BY <1>2, <1>3, ExprIf DEF Clean
  <1>5. \A s \in Signal : Coefficient(g, s) = Coefficient(e, s)
    BY <1>3 DEF Coefficient
  <1>6. \A v \in [Signal -> Field] : Value(g, v) = Value(e, v)
    BY <1>4, <1>5, SameValue
  <1>7. e \in Clean => g = e
    <2> SUFFICES ASSUME e \in Clean  PROVE  g = e
      OBVIOUS
    <2>1. D = DOMAIN e
      BY CleanIs
    <2> QED  BY <2>1, <1>3, <1>4, SameExpr
  <1> QED  BY <1>3, <1>4, <1>5, <1>6, <1>7 DEF g

\* An entry for the constant that is zero changes no value.
LEMMA WithConstantIs ==
    ASSUME NEW e \in Expr
    PROVE  /\ WithConstant(e) \in Expr /\ DOMAIN WithConstant(e) = DOMAIN e \cup {One}
           /\ \A s : Coefficient(WithConstant(e), s) = Coefficient(e, s)
           /\ \A v \in [Signal -> Field] : Value(WithConstant(e), v) = Value(e, v)
  <1> DEFINE g == WithConstant(e)
  <1>0. DOMAIN e \in SUBSET Signal /\ \A s \in DOMAIN e : e[s] \in Field
    BY ExprIs
  <1>1. g = [s \in DOMAIN e \cup {One} |-> IF s \in DOMAIN e THEN e[s] ELSE 0]
    BY DEF WithConstant, Only, ++
  <1>2. g \in [DOMAIN e \cup {One} -> Field] /\ DOMAIN e \cup {One} \in SUBSET Signal
    BY <1>0, <1>1, Numbers
  <1>3. \A s : Coefficient(g, s) = Coefficient(e, s)
    BY <1>1 DEF Coefficient
  <1> HIDE DEF g
  <1>4. g \in Expr
    BY <1>2, ExprIf
  <1>5. \A v \in [Signal -> Field] : Value(g, v) = Value(e, v)
    BY <1>3, <1>4, SameValue
  <1> QED  BY <1>2, <1>3, <1>4, <1>5 DEF g

\* Linear combinations with one or two terms
LEMMA Scaled ==
    ASSUME NEW e \in Expr, NEW g \in Expr, NEW v \in [Signal -> Field], NEW k \in Int,
           \A s \in Signal : Same(Coefficient(g, s), k * Coefficient(e, s))
    PROVE  Same(Value(g, v), k * Value(e, v))
  <1> DEFINE z == 0
  <1>1. z \in Int
    OBVIOUS
  <1>2. \A s \in Signal : Same(Coefficient(g, s), k * Coefficient(e, s) + z * Coefficient(e, s))
    <2> SUFFICES ASSUME NEW s \in Signal
                 PROVE  Same(Coefficient(g, s), k * Coefficient(e, s) + z * Coefficient(e, s))
      OBVIOUS
    <2>1. Coefficient(e, s) \in Int
      BY ExprIs
    <2>2. k * Coefficient(e, s) + z * Coefficient(e, s) = k * Coefficient(e, s)
      BY <2>1
    <2> QED  BY <2>2
  <1>3. Same(Value(g, v), k * Value(e, v) + z * Value(e, v))
    <2> HIDE DEF z
    <2> QED  BY <1>1, <1>2, Combine
  <1>4. Value(e, v) \in Int
    BY ValueIn
  <1>5. k * Value(e, v) + z * Value(e, v) = k * Value(e, v)
    BY <1>4
  <1> QED  BY <1>3, <1>5

\* multiply_coefficients_by_constant multiplies the value.
LEMMA TimesIs ==
    ASSUME NEW e \in Expr, NEW k \in Int
    PROVE  /\ Times(k, e) \in Expr /\ DOMAIN Times(k, e) = DOMAIN e
           /\ \A s \in Signal : Same(Coefficient(Times(k, e), s), k * Coefficient(e, s))
           /\ \A v \in [Signal -> Field] : Same(Value(Times(k, e), v), k * Value(e, v))
  <1> DEFINE g == Times(k, e)
  <1>0. DOMAIN e \in SUBSET Signal /\ \A s \in DOMAIN e : e[s] \in Int /\ k * e[s] \in Int
    BY ExprIs
  <1>1. \A s \in DOMAIN e : (k * e[s]) % P \in Field /\ Same((k * e[s]) % P, k * e[s])
    BY <1>0, SameIs
  <1>2. g \in [DOMAIN e -> Field] /\ DOMAIN g = DOMAIN e /\ \A s \in DOMAIN e : g[s] = (k * e[s]) % P
    BY <1>1 DEF Times
  <1> HIDE DEF g
  <1>3. g \in Expr
    BY <1>0, <1>2, ExprIf
  <1>4. \A s \in Signal : Same(Coefficient(g, s), k * Coefficient(e, s))
    <2> SUFFICES ASSUME NEW s \in Signal  PROVE  Same(Coefficient(g, s), k * Coefficient(e, s))
      OBVIOUS
    <2>1. CASE s \in DOMAIN e
      BY <2>1, <1>1, <1>2 DEF Coefficient
    <2>2. CASE s \notin DOMAIN e
      <3>1. k * Coefficient(e, s) = 0 /\ Coefficient(g, s) = 0
        BY <2>2, <1>2 DEF Coefficient
      <3> QED  BY <3>1 DEF Same
    <2> QED  BY <2>1, <2>2
  <1>5. \A v \in [Signal -> Field] : Same(Value(g, v), k * Value(e, v))
    BY <1>3, <1>4, Scaled
  <1> QED  BY <1>2, <1>3, <1>4, <1>5 DEF g

\* add_coefficients_to_coefficients adds the values.
LEMMA PlusIs ==
    ASSUME NEW e \in Expr, NEW f \in Expr
    PROVE  /\ Plus(e, f) \in Expr /\ DOMAIN Plus(e, f) = DOMAIN e \cup DOMAIN f
           /\ \A s \in Signal : Same(Coefficient(Plus(e, f), s), Coefficient(e, s) + Coefficient(f, s))
           /\ \A v \in [Signal -> Field] : Same(Value(Plus(e, f), v), Value(e, v) + Value(f, v))
  <1> DEFINE g == Plus(e, f)
             D == DOMAIN e \cup DOMAIN f
  <1>0. /\ DOMAIN e \in SUBSET Signal /\ DOMAIN f \in SUBSET Signal
        /\ \A s \in DOMAIN e : e[s] \in Int /\ e[s] \in Field
        /\ \A s \in DOMAIN f : f[s] \in Int /\ f[s] \in Field
    BY ExprIs
  <1>1. \A s \in DOMAIN e \cap DOMAIN f :
           e[s] + f[s] \in Int /\ (e[s] + f[s]) % P \in Field /\ Same((e[s] + f[s]) % P, e[s] + f[s])
    <2> SUFFICES ASSUME NEW s \in DOMAIN e \cap DOMAIN f
                 PROVE  e[s] + f[s] \in Int /\ (e[s] + f[s]) % P \in Field
                        /\ Same((e[s] + f[s]) % P, e[s] + f[s])
      OBVIOUS
    <2> DEFINE x == e[s] + f[s]
    <2>1. x \in Int
      BY <1>0
    <2> HIDE DEF x
    <2>2. x % P \in Field /\ Same(x % P, x)
      BY <2>1, SameIs
    <2> QED  BY <2>1, <2>2 DEF x
  <1>2. g = [s \in D |-> IF s \in DOMAIN e
                         THEN IF s \in DOMAIN f THEN (e[s] + f[s]) % P ELSE e[s] ELSE f[s]]
    BY DEF Plus, ++
  <1>3. g \in [D -> Field] /\ DOMAIN g = D /\ D \in SUBSET Signal
    BY <1>0, <1>1, <1>2
  <1>4. \A s \in Signal : Same(Coefficient(g, s), Coefficient(e, s) + Coefficient(f, s))
    <2> SUFFICES ASSUME NEW s \in Signal
                 PROVE  Same(Coefficient(g, s), Coefficient(e, s) + Coefficient(f, s))
      OBVIOUS
    <2>1. CASE s \in DOMAIN e /\ s \in DOMAIN f
      <3>1. Coefficient(g, s) = (e[s] + f[s]) % P
        BY <2>1, <1>2 DEF Coefficient
      <3> QED  BY <2>1, <3>1, <1>1 DEF Coefficient
    <2>2. CASE ~(s \in DOMAIN e /\ s \in DOMAIN f)
      <3>1. Coefficient(g, s) = Coefficient(e, s) + Coefficient(f, s)
        BY <2>2, <1>0, <1>2 DEF Coefficient
      <3> QED  BY <3>1 DEF Same
    <2> QED  BY <2>1, <2>2
  <1> HIDE DEF g
  <1>5. g \in Expr
    BY <1>3, ExprIf
  <1>6. ASSUME NEW v \in [Signal -> Field]
        PROVE  Same(Value(g, v), Value(e, v) + Value(f, v))
    <2> DEFINE u == 1
    <2>1. u \in Int
      OBVIOUS
    <2>2. \A s \in Signal : Same(Coefficient(g, s), u * Coefficient(e, s) + u * Coefficient(f, s))
      <3> SUFFICES ASSUME NEW s \in Signal
                   PROVE  Same(Coefficient(g, s), u * Coefficient(e, s) + u * Coefficient(f, s))
        OBVIOUS
      <3>1. Coefficient(e, s) \in Int /\ Coefficient(f, s) \in Int
        BY ExprIs
      <3>2. u * Coefficient(e, s) + u * Coefficient(f, s) = Coefficient(e, s) + Coefficient(f, s)
        BY <3>1
      <3> QED  BY <3>2, <1>4
    <2>3. Same(Value(g, v), u * Value(e, v) + u * Value(f, v))
      <3> HIDE DEF u
      <3> QED  BY <2>1, <2>2, <1>5, Combine
    <2>4. Value(e, v) \in Int /\ Value(f, v) \in Int
      BY ValueIn
    <2>5. u * Value(e, v) + u * Value(f, v) = Value(e, v) + Value(f, v)
      BY <2>4
    <2> QED  BY <2>3, <2>5
  <1> QED  BY <1>3, <1>4, <1>5, <1>6 DEF g

\* An expression without one of its signals.
LEMMA WithoutIs ==
    ASSUME NEW e \in Expr, NEW s \in Signal
    PROVE  /\ Without(e, s) \in Expr /\ DOMAIN Without(e, s) = DOMAIN e \ {s}
           /\ \A t \in DOMAIN Without(e, s) : Without(e, s)[t] = e[t]
           /\ \A v \in [Signal -> Field] :
                 Same(Value(Without(e, s), v), Value(e, v) - Coefficient(e, s) * v[s])
  <1> DEFINE g == Without(e, s)
             D == DOMAIN e \ {s}
             k == Coefficient(e, s)
  <1>0. DOMAIN e \in SUBSET Signal /\ (\A t \in DOMAIN e : e[t] \in Field) /\ k \in Field /\ k \in Int
    BY ExprIs
  <1>1. g = [t \in D |-> e[t]]
    BY DEF Without, Restrict
  <1>2. g \in [D -> Field] /\ D \in SUBSET Signal /\ DOMAIN g = D /\ \A t \in D : g[t] = e[t]
    BY <1>0, <1>1
  <1>3. g \in Expr
    <2> HIDE DEF g
    <2> QED  BY <1>2, ExprIf
  <1> HIDE DEF g
  <1>4. ASSUME NEW v \in [Signal -> Field]  PROVE  Same(Value(g, v), Value(e, v) - k * v[s])
    <2> DEFINE f == Only(s, 1)
               u == 1
               n == -k
    <2>1. f \in Expr /\ DOMAIN f = {s} /\ Value(f, v) = (1 * v[s]) % P
      BY Numbers, ValueOfOnly
    <2>2. v[s] \in Field /\ v[s] \in Int /\ 1 * v[s] = v[s]
      <3>1. v[s] \in Field
        OBVIOUS
      <3>2. v[s] \in Int
        BY <3>1, Numbers
      <3> QED  BY <3>1, <3>2
    <2>3. Value(f, v) = v[s]
      BY <2>1, <2>2, SameIs
    <2>4. \A t \in Signal : Same(Coefficient(g, t), u * Coefficient(e, t) + n * Coefficient(f, t))
      <3> SUFFICES ASSUME NEW t \in Signal
                   PROVE  Same(Coefficient(g, t), u * Coefficient(e, t) + n * Coefficient(f, t))
        OBVIOUS
      <3>1. Coefficient(e, t) \in Int /\ Coefficient(f, t) = IF t = s THEN 1 ELSE 0
        BY ExprIs, <2>1 DEF Coefficient, Only
      <3>2. Coefficient(g, t) = IF t = s THEN 0 ELSE Coefficient(e, t)
        BY <1>2 DEF Coefficient
      <3>3. Coefficient(g, t) = u * Coefficient(e, t) + n * Coefficient(f, t)
        <4>1. CASE t = s
          <5>1. Coefficient(e, t) = k
            BY <4>1
          <5> HIDE DEF k
          <5> QED  BY <4>1, <5>1, <3>1, <3>2, <1>0
        <4>2. CASE t # s
          <5> HIDE DEF k
          <5> QED  BY <4>2, <3>1, <3>2, <1>0
        <4> QED  BY <4>1, <4>2
      <3> QED  BY <3>3 DEF Same
    <2>5. Same(Value(g, v), u * Value(e, v) + n * Value(f, v))
      <3>1. u \in Int /\ n \in Int
        BY <1>0
      <3> HIDE DEF u, n, f
      <3> QED  BY <3>1, <2>1, <2>4, <1>3, Combine
    <2>6. Value(e, v) \in Int
      BY ValueIn
    <2>7. u * Value(e, v) + n * Value(f, v) = Value(e, v) - k * v[s]
      <3>1. n * v[s] = -(k * v[s])
        BY <1>0, <2>2
      <3>2. k * v[s] \in Int
        BY <1>0, <2>2
      <3> QED  BY <2>3, <2>6, <3>1, <3>2
    <2> QED  BY <2>5, <2>7
  <1> QED  BY <1>2, <1>3, <1>4 DEF g

-----------------------------------------------------------------------------
(* Constraints and what satisfies them *)

Con         == [a : Expr, b : Expr, c : Expr]
CleanCon    == [a : Clean, b : Clean, c : Clean]
CleanLinear == [a : {Zero}, b : {Zero}, c : Clean]
Linear      == [a : {Zero}, b : {Zero}, c : Expr]

\* Numbers are the same when their difference is a multiple of P.
LEMMA SameDiff ==
    ASSUME NEW x \in Int, NEW y \in Int
    PROVE  Same(x, y) <=> Same(x - y, 0)
  <1> DEFINE z == 0
  <1>0. z \in Int /\ Same(x, x) /\ Same(y, y) /\ x - y \in Int
    BY DEF Same
  <1>1. ASSUME Same(x, y)  PROVE  Same(x - y, z)
    <2>1. Same(x - y, y - y)
      BY <1>0, <1>1, SameSum
    <2> QED  BY <2>1
  <1>2. ASSUME Same(x - y, z)  PROVE  Same(x, y)
    <2> DEFINE d == x - y
    <2>1. Same(d + y, z + y)
      <3> HIDE DEF d, z
      <3> QED  BY <1>0, <1>2, SameSum DEF d
    <2>2. d + y = x /\ z + y = y
      OBVIOUS
    <2> QED  BY <2>1, <2>2
  <1> QED  BY <1>1, <1>2

\* How the kinds of constraints relate, and the signals they have.
LEMMA ConIs ==
    /\ CleanCon \subseteq Con /\ CleanLinear \subseteq CleanCon
    /\ CleanLinear \subseteq Linear /\ Linear \subseteq Con
    /\ \A con \in CleanCon : IsLinear(con) <=> con \in CleanLinear
    /\ \A con \in Linear : IsLinear(con)
    /\ EmptyConstraint \in CleanLinear /\ SignalsOf(EmptyConstraint) = {}
    /\ \A con \in Con : SignalsOf(con) \in SUBSET (Signal \ {One})
                        /\ DOMAIN con.a \in SUBSET Signal /\ DOMAIN con.b \in SUBSET Signal
                        /\ DOMAIN con.c \in SUBSET Signal
    /\ \A con \in Linear : SignalsOf(con) = DOMAIN con.c \ {One}
  <1>1. \A e \in Clean : e \in Expr
    BY CleanIs
  <1>2. Zero \in Clean /\ Zero \in Expr /\ DOMAIN Zero = {}
    BY ZeroIs
  <1>3. \A e \in Clean : DOMAIN e = {} => e = Zero
    BY ZeroIs, <1>1
  <1>4. \A con \in Con : DOMAIN con.a \in SUBSET Signal /\ DOMAIN con.b \in SUBSET Signal
                         /\ DOMAIN con.c \in SUBSET Signal
    BY ExprIs DEF Con
  <1>5. CleanCon \subseteq Con /\ CleanLinear \subseteq CleanCon
        /\ CleanLinear \subseteq Linear /\ Linear \subseteq Con
    BY <1>1, <1>2 DEF Con, CleanCon, CleanLinear, Linear
  <1>6. \A con \in CleanCon : IsLinear(con) <=> con \in CleanLinear
    BY <1>2, <1>3 DEF CleanCon, CleanLinear, IsLinear
  <1>7. EmptyConstraint \in CleanLinear /\ SignalsOf(EmptyConstraint) = {}
    BY <1>2 DEF EmptyConstraint, LinearConstraint, CleanLinear, SignalsOf
  <1>8. \A con \in Con : SignalsOf(con) \in SUBSET (Signal \ {One})
    BY <1>4 DEF SignalsOf
  <1>9. \A con \in Linear : SignalsOf(con) = DOMAIN con.c \ {One} /\ IsLinear(con)
    BY <1>2 DEF Linear, SignalsOf, IsLinear
  <1> QED  BY <1>4, <1>5, <1>6, <1>7, <1>8, <1>9

\* Whether a constraint holds
LEMMA HoldsIs ==
    ASSUME NEW con \in Con, NEW v \in [Signal -> Field]
    PROVE  Holds(con, v) <=> Same(Value(con.a, v) * Value(con.b, v), Value(con.c, v))
  <1> DEFINE x == Value(con.a, v) * Value(con.b, v)
             y == Value(con.c, v)
  <1>1. Value(con.a, v) \in Int /\ Value(con.b, v) \in Int /\ y \in Int
    BY ValueIn DEF Con
  <1>2. x \in Int
    BY <1>1
  <1>3. 0 % P = 0
    BY SameIs, Numbers
  <1>4. Holds(con, v) <=> Same(x - y, 0)
    BY <1>3 DEF Holds, Same
  <1> HIDE DEF x, y
  <1>5. Same(x, y) <=> Same(x - y, 0)
    BY <1>1, <1>2, SameDiff
  <1> QED  BY <1>4, <1>5 DEF x, y

\* A linear constraint holds where its expression is 0.
LEMMA LinearHolds ==
    ASSUME NEW e \in Expr, NEW v \in [Signal -> Field]
    PROVE  Holds(LinearConstraint(e), v) <=> Value(e, v) = 0
  <1> DEFINE con == LinearConstraint(e)
             y == Value(e, v)
  <1>1. con \in Con /\ con.a = Zero /\ con.b = Zero /\ con.c = e
    BY ZeroIs DEF LinearConstraint, Con
  <1>2. Value(Zero, v) = 0 /\ y \in Int /\ y \in Field /\ 0 \in Field
    BY ZeroIs, ValueIn, Numbers
  <1> HIDE DEF con, y
  <1>3. Holds(con, v) <=> Same(Value(Zero, v) * Value(Zero, v), y)
    BY <1>1, HoldsIs DEF y
  <1>4. Value(Zero, v) * Value(Zero, v) = 0
    BY <1>2
  <1>5. Same(0, y) <=> y = 0
    BY <1>2, SameInField DEF Same
  <1> QED  BY <1>3, <1>4, <1>5 DEF con, y

\* A linear constraint of the sets above is the one of its expression.
LEMMA LinearIs ==
    ASSUME NEW con \in Linear
    PROVE  /\ con = LinearConstraint(con.c) /\ con.c \in Expr
           /\ \A v \in [Signal -> Field] : Holds(con, v) <=> Value(con.c, v) = 0
  <1>1. con = LinearConstraint(con.c) /\ con.c \in Expr
    BY DEF Linear, LinearConstraint
  <1> QED  BY <1>1, LinearHolds

\* The value of an expression of the constant alone.
LEMMA ConstantIs ==
    ASSUME NEW e \in Expr, DOMAIN e \subseteq {One}, NEW v \in Valuations
    PROVE  Value(e, v) = Coefficient(e, One)
  <1>1. v \in [Signal -> Field] /\ v[One] = 1 /\ One \in Signal
    BY Numbers DEF Valuations
  <1>2. CASE One \in DOMAIN e
    <2> DEFINE k == e[One]
               f == Only(One, k)
    <2>1. k \in Field /\ k \in Int
      BY <1>2, ExprIs
    <2>2. f \in Expr /\ DOMAIN f = {One} /\ Value(f, v) = (k * v[One]) % P
      <3> HIDE DEF k
      <3> QED  BY <2>1, <1>1, ValueOfOnly
    <2>3. \A s \in Signal : Coefficient(f, s) = Coefficient(e, s)
      BY <1>2, <2>2 DEF Coefficient, Only
    <2>4. Value(f, v) = Value(e, v)
      <3> HIDE DEF f
      <3> QED  BY <2>2, <2>3, <1>1, SameValue
    <2>5. k * v[One] = k
      <3> HIDE DEF k
      <3> QED  BY <2>1, <1>1
    <2> QED  BY <2>1, <2>2, <2>4, <2>5, <1>2, SameIs DEF Coefficient
  <1>3. CASE One \notin DOMAIN e
    <2>1. e = Zero
      BY <1>3, ZeroIs
    <2> QED  BY <2>1, <1>1, <1>3, ZeroIs DEF Coefficient
  <1> QED  BY <1>2, <1>3

-----------------------------------------------------------------------------
(* Substitution of one signal *)

\* A substitution in an expression (raw_substitution) changes no value where it holds.
LEMMA RawIs ==
    ASSUME NEW e \in Expr, NEW to \in Expr, NEW from \in Signal \ {One}
    PROVE  /\ RawSubstitution(e, from, to) \in Expr
           /\ DOMAIN RawSubstitution(e, from, to) =
                 {One} \cup (DOMAIN e \ {from}) \cup (IF from \in DOMAIN e THEN DOMAIN to ELSE {})
           /\ \A v \in [Signal -> Field] :
                 v[from] = Value(to, v) => Value(RawSubstitution(e, from, to), v) = Value(e, v)
  <1> DEFINE w == WithConstant(e)
             u == WithConstant(to)
  <1>1. /\ w \in Expr /\ DOMAIN w = DOMAIN e \cup {One}
        /\ \A s : Coefficient(w, s) = Coefficient(e, s)
        /\ \A v \in [Signal -> Field] : Value(w, v) = Value(e, v)
    BY WithConstantIs
  <1>2. /\ u \in Expr /\ DOMAIN u = DOMAIN to \cup {One}
        /\ \A v \in [Signal -> Field] : Value(u, v) = Value(to, v)
    BY WithConstantIs
  <1>3. CASE from \notin DOMAIN e
    <2>1. RawSubstitution(e, from, to) = w
      <3> HIDE DEF w, u
      <3>1. from \notin DOMAIN w
        BY <1>1, <1>3
      <3> QED  BY <3>1 DEF RawSubstitution, w
    <2> HIDE DEF w
    <2> QED  BY <2>1, <1>1, <1>3
  <1>4. CASE from \in DOMAIN e
    <2> DEFINE k == w[from]
               t == Times(k, u)
               r == Without(w, from)
               g == Plus(t, r)
    <2>1. RawSubstitution(e, from, to) = g
      <3>1. from \in DOMAIN w
        BY <1>1, <1>4
      <3> QED  BY <3>1 DEF RawSubstitution
    <2>2. k \in Int /\ k = Coefficient(w, from)
      <3> HIDE DEF w
      <3> QED  BY <1>1, <1>4, ExprIs DEF Coefficient
    <2> HIDE DEF k, w, u
    <2>3. /\ t \in Expr /\ DOMAIN t = DOMAIN to \cup {One}
          /\ \A v \in [Signal -> Field] : Same(Value(t, v), k * Value(to, v))
      BY <2>2, <1>2, TimesIs
    <2>4. /\ r \in Expr /\ DOMAIN r = (DOMAIN e \cup {One}) \ {from}
          /\ \A v \in [Signal -> Field] : Same(Value(r, v), Value(e, v) - k * v[from])
      <3>1. /\ r \in Expr /\ DOMAIN r = DOMAIN w \ {from}
            /\ \A v \in [Signal -> Field] : Same(Value(r, v), Value(w, v) - Coefficient(w, from) * v[from])
        BY <1>1, WithoutIs
      <3> QED  BY <3>1, <1>1, <2>2
    <2> HIDE DEF t, r
    <2>5. /\ g \in Expr /\ DOMAIN g = DOMAIN t \cup DOMAIN r
          /\ \A v \in [Signal -> Field] : Same(Value(g, v), Value(t, v) + Value(r, v))
      BY <2>3, <2>4, PlusIs
    <2>6. ASSUME NEW v \in [Signal -> Field], v[from] = Value(to, v)
          PROVE  Value(g, v) = Value(e, v)
      <3> DEFINE x == k * v[from]
                 y == Value(e, v)
                 a == Value(t, v)
                 b == Value(r, v)
                 z == y - x
      <3>1. y \in Int /\ y \in Field /\ a \in Int /\ b \in Int
            /\ Value(g, v) \in Field
        BY <2>3, <2>4, <2>5, ValueIn
      <3>2. x \in Int
        <4>1. v[from] \in Field
          OBVIOUS
        <4>2. v[from] \in Int
          BY <4>1, Numbers
        <4> QED  BY <4>2, <2>2
      <3>3. Same(a, x) /\ Same(b, z) /\ z \in Int /\ x + z = y
        <4>1. Same(a, x) /\ Same(b, z)
          BY <2>3, <2>4, <2>6
        <4> HIDE DEF x, y
        <4> QED  BY <4>1, <3>1, <3>2
      <3>4. Same(a + b, x + z)
        <4> HIDE DEF a, b, x, z
        <4> QED  BY <3>1, <3>2, <3>3, SameSum
      <3>5. Same(Value(g, v), a + b)
        BY <2>5
      <3>6. Same(Value(g, v), y)
        BY <3>3, <3>4, <3>5 DEF Same
      <3> HIDE DEF g, y
      <3> QED  BY <3>1, <3>6, SameInField DEF y
    <2>7. DOMAIN g = {One} \cup (DOMAIN e \ {from}) \cup DOMAIN to
      BY <2>3, <2>4, <2>5
    <2> HIDE DEF g
    <2> QED  BY <2>1, <2>5, <2>6, <2>7, <1>4
  <1> QED  BY <1>3, <1>4

-----------------------------------------------------------------------------
(* Tidied constraints *)

\* The constraint of a product with a constant expression k.
LEMMA ReductionIs ==
    ASSUME NEW k \in Expr, NEW e \in Expr, NEW c \in Expr, IsConstant(k)
    PROVE  /\ ConstantReduction(k, e, c) \in CleanLinear
           /\ DOMAIN ConstantReduction(k, e, c).c \subseteq {One} \cup DOMAIN e \cup DOMAIN c
           /\ \A v \in Valuations :
                 Holds(ConstantReduction(k, e, c), v) <=>
                    Same(Value(k, v) * Value(e, v), Value(c, v))
  <1> DEFINE m == k[One]
             n == -m
             u == WithConstant(e)
             d == WithConstant(c)
             t == Times(n, u)
             p == Plus(t, d)
             g == NonZero(p)
  <1>0. m \in Int /\ n \in Int /\ m = Coefficient(k, One) /\ DOMAIN k \subseteq {One}
    <2>1. One \in DOMAIN k /\ DOMAIN k \subseteq {One}
      BY DEF IsConstant
    <2>2. m \in Int
      BY <2>1, ExprIs
    <2> QED  BY <2>1, <2>2 DEF Coefficient
  <1>1. /\ u \in Expr /\ DOMAIN u = DOMAIN e \cup {One}
        /\ \A v \in [Signal -> Field] : Value(u, v) = Value(e, v)
        /\ d \in Expr /\ DOMAIN d = DOMAIN c \cup {One}
        /\ \A v \in [Signal -> Field] : Value(d, v) = Value(c, v)
    BY WithConstantIs
  <1>e. ConstantReduction(k, e, c) = LinearConstraint(g)
    BY DEF ConstantReduction
  <1> HIDE DEF m, u, d
  <1>2. /\ t \in Expr /\ DOMAIN t = DOMAIN u
        /\ \A v \in [Signal -> Field] : Same(Value(t, v), n * Value(u, v))
    <2> HIDE DEF n
    <2> QED  BY <1>0, <1>1, TimesIs
  <1> HIDE DEF t
  <1>3. /\ p \in Expr /\ DOMAIN p = DOMAIN t \cup DOMAIN d
        /\ \A v \in [Signal -> Field] : Same(Value(p, v), Value(t, v) + Value(d, v))
    BY <1>1, <1>2, PlusIs
  <1> HIDE DEF p
  <1>4. /\ g \in Expr /\ g \in Clean /\ DOMAIN g \subseteq DOMAIN p
        /\ \A v \in [Signal -> Field] : Value(g, v) = Value(p, v)
    BY <1>3, NonZeroIs
  <1> HIDE DEF g
  <1>5. LinearConstraint(g) \in CleanLinear /\ LinearConstraint(g).c = g
    BY <1>4 DEF LinearConstraint, CleanLinear
  <1>6. ASSUME NEW v \in Valuations
        PROVE  Holds(LinearConstraint(g), v) <=> Same(Value(k, v) * Value(e, v), Value(c, v))
    <2>0. v \in [Signal -> Field]
      BY DEF Valuations
    <2>1. Value(k, v) = m
      BY <1>0, ConstantIs
    <2> DEFINE x == Value(e, v)
               y == Value(c, v)
               z == Value(g, v)
               a == Value(t, v)
               q == m * x
               f == n * x
    <2>2. x \in Int /\ y \in Int /\ z \in Int /\ z \in Field /\ a \in Int
      BY <2>0, <1>2, <1>4, ValueIn
    <2>3. Same(a, n * x) /\ Same(z, a + y)
      BY <2>0, <1>1, <1>2, <1>3, <1>4
    <2> HIDE DEF x, y, z, a
    <2>4. q \in Int /\ f = -q /\ f \in Int
      BY <2>2, <1>0
    <2>5. Same(a + y, f + y)
      <3> HIDE DEF n, q
      <3>1. Same(y, y) /\ Same(a, f) /\ f \in Int
        BY <2>3, <2>4 DEF Same
      <3> HIDE DEF f
      <3> QED  BY <3>1, <2>2, SameSum
    <2>6. Same(z, y - q)
      <3>1. f + y = y - q
        <4> HIDE DEF f, q
        <4> QED  BY <2>4, <2>2
      <3> QED  BY <3>1, <2>3, <2>5 DEF Same
    <2>7. Same(y, q) <=> Same(y - q, 0)
      <3> HIDE DEF q
      <3> QED  BY <2>2, <2>4, SameDiff
    <2>8. Holds(LinearConstraint(g), v) <=> z = 0
      BY <2>0, <1>4, LinearHolds DEF z
    <2>9. z = 0 <=> Same(z, 0)
      BY <2>2, Numbers, SameInField DEF Same
    <2> QED  BY <2>1, <2>6, <2>7, <2>8, <2>9 DEF Same, x, y
  <1> QED  BY <1>e, <1>1, <1>2, <1>3, <1>4, <1>5, <1>6

\* fix_constraint cleans a constraint and changes nothing in where it holds.
LEMMA FixedIs ==
    ASSUME NEW con \in Con
    PROVE  /\ Fixed(con) \in CleanCon
           /\ SignalsOf(Fixed(con)) \subseteq SignalsOf(con)
           /\ (NonZero(con.a) = Zero \/ NonZero(con.b) = Zero) =>
                 Fixed(con) = LinearConstraint(NonZero(con.c)) /\ Fixed(con) \in CleanLinear
           /\ \A v \in Valuations : Holds(Fixed(con), v) <=> Holds(con, v)
  <1> DEFINE a == NonZero(con.a)
             b == NonZero(con.b)
             c == NonZero(con.c)
  <1>0. con.a \in Expr /\ con.b \in Expr /\ con.c \in Expr
    BY DEF Con
  <1>1. /\ a \in Expr /\ a \in Clean /\ DOMAIN a \subseteq DOMAIN con.a
        /\ \A v \in [Signal -> Field] : Value(a, v) = Value(con.a, v)
    BY <1>0, NonZeroIs
  <1>2. /\ b \in Expr /\ b \in Clean /\ DOMAIN b \subseteq DOMAIN con.b
        /\ \A v \in [Signal -> Field] : Value(b, v) = Value(con.b, v)
    BY <1>0, NonZeroIs
  <1>3. /\ c \in Expr /\ c \in Clean /\ DOMAIN c \subseteq DOMAIN con.c
        /\ \A v \in [Signal -> Field] : Value(c, v) = Value(con.c, v)
    BY <1>0, NonZeroIs
  <1>v. \A v \in Valuations : v \in [Signal -> Field]
    BY DEF Valuations
  <1>z. DOMAIN Zero = {} /\ \A v \in [Signal -> Field] : Value(Zero, v) = 0
    BY ZeroIs
  <1>4. \A v \in Valuations :
           Holds(con, v) <=> Same(Value(a, v) * Value(b, v), Value(c, v))
    BY <1>1, <1>2, <1>3, <1>v, HoldsIs
  <1>f. Fixed(con) = IF a = Zero \/ b = Zero THEN LinearConstraint(c)
                     ELSE IF IsConstant(a) THEN ConstantReduction(a, b, c)
                     ELSE IF IsConstant(b) THEN ConstantReduction(b, a, c)
                     ELSE [a |-> a, b |-> b, c |-> c]
    BY DEF Fixed
  <1> HIDE DEF a, b, c
  <1>5. CASE a = Zero \/ b = Zero
    <2>1. Fixed(con) = LinearConstraint(c)
      BY <1>5, <1>f
    <2>2. Fixed(con) \in CleanLinear /\ Fixed(con) \in CleanCon
      BY <2>1, <1>3, ConIs DEF LinearConstraint, CleanLinear
    <2>3. SignalsOf(Fixed(con)) = DOMAIN c \ {One}
      BY <2>1, <1>z DEF LinearConstraint, SignalsOf
    <2>4. SignalsOf(Fixed(con)) \subseteq SignalsOf(con)
      BY <2>3, <1>3 DEF SignalsOf
    <2>5. ASSUME NEW v \in Valuations  PROVE  Holds(Fixed(con), v) <=> Holds(con, v)
      <3> DEFINE x == Value(a, v)
                 y == Value(b, v)
                 z == Value(c, v)
      <3>1. x \in Int /\ y \in Int /\ z \in Field /\ (x = 0 \/ y = 0)
        BY <1>1, <1>2, <1>3, <1>5, <1>v, <1>z, ValueIn
      <3>2. x * y = 0
        <4> HIDE DEF x, y
        <4> QED  BY <3>1
      <3>3. Holds(con, v) <=> Same(0, z)
        BY <3>2, <1>4
      <3>4. Same(0, z) <=> z = 0
        BY <3>1, Numbers, SameInField DEF Same
      <3>5. Holds(Fixed(con), v) <=> z = 0
        BY <2>1, <1>v, <1>3, LinearHolds
      <3> QED  BY <3>3, <3>4, <3>5
    <2> QED  BY <2>1, <2>2, <2>4, <2>5 DEF a, b, c
  <1>6. CASE ~(a = Zero \/ b = Zero) /\ IsConstant(a)
    <2>1. Fixed(con) = ConstantReduction(a, b, c)
      BY <1>6, <1>f
    <2>2. /\ Fixed(con) \in CleanLinear
          /\ DOMAIN Fixed(con).c \subseteq {One} \cup DOMAIN b \cup DOMAIN c
          /\ \A v \in Valuations : Holds(Fixed(con), v) <=> Same(Value(a, v) * Value(b, v), Value(c, v))
      BY <2>1, <1>1, <1>2, <1>3, <1>6, ReductionIs
    <2>3. SignalsOf(Fixed(con)) = DOMAIN Fixed(con).c \ {One} /\ Fixed(con) \in CleanCon
      BY <2>2, ConIs
    <2>4. SignalsOf(Fixed(con)) \subseteq SignalsOf(con)
      BY <2>2, <2>3, <1>2, <1>3 DEF SignalsOf
    <2> QED  BY <2>2, <2>3, <2>4, <1>4, <1>6 DEF a, b
  <1>7. CASE ~(a = Zero \/ b = Zero) /\ ~IsConstant(a) /\ IsConstant(b)
    <2>1. Fixed(con) = ConstantReduction(b, a, c)
      BY <1>7, <1>f
    <2>2. /\ Fixed(con) \in CleanLinear
          /\ DOMAIN Fixed(con).c \subseteq {One} \cup DOMAIN a \cup DOMAIN c
          /\ \A v \in Valuations : Holds(Fixed(con), v) <=> Same(Value(b, v) * Value(a, v), Value(c, v))
      BY <2>1, <1>1, <1>2, <1>3, <1>7, ReductionIs
    <2>3. SignalsOf(Fixed(con)) = DOMAIN Fixed(con).c \ {One} /\ Fixed(con) \in CleanCon
      BY <2>2, ConIs
    <2>4. SignalsOf(Fixed(con)) \subseteq SignalsOf(con)
      BY <2>2, <2>3, <1>1, <1>3 DEF SignalsOf
    <2>5. \A v \in Valuations : Value(b, v) * Value(a, v) = Value(a, v) * Value(b, v)
      <3> SUFFICES ASSUME NEW v \in Valuations
                   PROVE  Value(b, v) * Value(a, v) = Value(a, v) * Value(b, v)
        OBVIOUS
      <3>1. Value(b, v) \in Int /\ Value(a, v) \in Int
        BY <1>1, <1>2, <1>v, ValueIn
      <3> QED  BY <3>1
    <2> QED  BY <2>2, <2>3, <2>4, <2>5, <1>4, <1>7 DEF a, b
  <1>8. CASE ~(a = Zero \/ b = Zero) /\ ~IsConstant(a) /\ ~IsConstant(b)
    <2> DEFINE f == [a |-> a, b |-> b, c |-> c]
    <2>1. Fixed(con) = f
      BY <1>8, <1>f
    <2>2. f \in CleanCon /\ f \in Con
      BY <1>1, <1>2, <1>3 DEF CleanCon, Con
    <2>3. SignalsOf(f) \subseteq SignalsOf(con)
      BY <1>1, <1>2, <1>3 DEF SignalsOf
    <2>4. \A v \in Valuations : Holds(f, v) <=> Same(Value(a, v) * Value(b, v), Value(c, v))
      <3>1. f.a = a /\ f.b = b /\ f.c = c
        OBVIOUS
      <3> HIDE DEF f
      <3> QED  BY <3>1, <2>2, <1>v, HoldsIs
    <2> QED  BY <2>1, <2>2, <2>3, <2>4, <1>4, <1>8 DEF a, b
  <1> QED  BY <1>5, <1>6, <1>7, <1>8

\* A substitution in a constraint changes nothing in where it holds, if it holds itself.
LEMMA SubstitutedIs ==
    ASSUME NEW con \in Con, NEW to \in Expr, NEW from \in Signal \ {One}
    PROVE  /\ Substituted(con, from, to) \in Con
           /\ SignalsOf(Substituted(con, from, to)) \subseteq
                 (SignalsOf(con) \ {from}) \cup
                 (IF from \in SignalsOf(con) THEN DOMAIN to \ {One} ELSE {})
           /\ \A v \in [Signal -> Field] :
                 v[from] = Value(to, v) => (Holds(Substituted(con, from, to), v) <=> Holds(con, v))
  <1> DEFINE r == Substituted(con, from, to)
  <1>0. con.a \in Expr /\ con.b \in Expr /\ con.c \in Expr /\ from # One
    BY DEF Con
  <1>1. /\ r.a = RawSubstitution(con.a, from, to) /\ r.b = RawSubstitution(con.b, from, to)
        /\ r.c = RawSubstitution(con.c, from, to) /\ r = [a |-> r.a, b |-> r.b, c |-> r.c]
    BY DEF Substituted
  <1> HIDE DEF r
  <1>r. ASSUME NEW e \in Expr
        PROVE  /\ RawSubstitution(e, from, to) \in Expr
               /\ DOMAIN RawSubstitution(e, from, to) =
                     {One} \cup (DOMAIN e \ {from}) \cup (IF from \in DOMAIN e THEN DOMAIN to ELSE {})
               /\ \A v \in [Signal -> Field] :
                     v[from] = Value(to, v) => Value(RawSubstitution(e, from, to), v) = Value(e, v)
    BY RawIs
  <1>2. r.a \in Expr /\ r.b \in Expr /\ r.c \in Expr
    BY <1>0, <1>1, <1>r
  <1>3. r \in Con
    BY <1>1, <1>2 DEF Con
  <1>4. SignalsOf(r) \subseteq (SignalsOf(con) \ {from}) \cup
                 (IF from \in SignalsOf(con) THEN DOMAIN to \ {One} ELSE {})
    <2>1. \A e \in {con.a, con.b, con.c} :
             DOMAIN RawSubstitution(e, from, to) =
                 {One} \cup (DOMAIN e \ {from}) \cup (IF from \in DOMAIN e THEN DOMAIN to ELSE {})
      BY <1>0, <1>r
    <2> QED  BY <2>1, <1>0, <1>1 DEF SignalsOf
  <1>5. ASSUME NEW v \in [Signal -> Field], v[from] = Value(to, v)
        PROVE  Holds(r, v) <=> Holds(con, v)
    <2>1. Value(r.a, v) = Value(con.a, v) /\ Value(r.b, v) = Value(con.b, v)
          /\ Value(r.c, v) = Value(con.c, v)
      BY <1>0, <1>1, <1>5, <1>r
    <2> QED  BY <2>1, <1>3, HoldsIs
  <1> QED  BY <1>3, <1>4, <1>5 DEF r

-----------------------------------------------------------------------------
(* Definitions of signals, and equalities *)

Definition == [coef : 1..P - 1, to : Expr]
\* coef * s = to, in the field
Defines(v, s, def) == Same(def.coef * v[s], Value(def.to, v))

\* A signal has a value in the field.
LEMMA ValuationIs ==
    ASSUME NEW v \in [Signal -> Field], NEW s \in Signal
    PROVE  v[s] \in Field /\ v[s] \in Int
  <1>1. v[s] \in Field
    OBVIOUS
  <1> QED  BY <1>1, Numbers

\* Products with an integer and an integer
LEMMA Products ==
    ASSUME NEW x \in Int, NEW y \in Int
    PROVE  x * y \in Int /\ (-x) * y = -(x * y) /\ x * y = y * x
  OBVIOUS

\* A constraint solved for one of its signals (clear_signal_not_normalized) says the same as before.
LEMMA ClearedIs ==
    ASSUME NEW con \in CleanLinear, NEW s \in SignalsOf(con)
    PROVE  /\ Cleared(con, s) \in Definition
           /\ DOMAIN Cleared(con, s).to = {One} \cup (DOMAIN con.c \ {s})
           /\ \A v \in [Signal -> Field] : Holds(con, v) <=> Defines(v, s, Cleared(con, s))
  <1> DEFINE e == con.c
             k == e[s]
             m == (-k) % P
             f == Without(e, s)
             g == WithConstant(f)
  <1>0. /\ e \in Clean /\ e \in Expr /\ s \in DOMAIN e /\ s \in Signal
        /\ con \in Linear
    BY CleanIs, ExprIs, ConIs DEF CleanLinear, SignalsOf, Zero
  <1>1. k \in 1..P - 1 /\ k \in Int /\ -k \in Int /\ k = Coefficient(e, s)
    BY <1>0, CleanIs DEF Coefficient
  <1>d. Cleared(con, s) = [coef |-> m, to |-> g]
    BY DEF Cleared
  <1>2. m \in 1..P - 1 /\ Same(m, -k)
    <2> HIDE DEF k
    <2>1. (-k) % P = -k + P
      BY <1>1, Numbers, F!ModSmall
    <2> QED  BY <1>1, <2>1, Numbers, SameIs
  <1> HIDE DEF k, m
  <1>3. /\ f \in Expr /\ DOMAIN f = DOMAIN e \ {s}
        /\ \A v \in [Signal -> Field] : Same(Value(f, v), Value(e, v) - k * v[s])
    BY <1>0, <1>1, WithoutIs
  <1> HIDE DEF f, e
  <1>4. /\ g \in Expr /\ DOMAIN g = DOMAIN f \cup {One}
        /\ \A v \in [Signal -> Field] : Value(g, v) = Value(f, v)
    BY <1>3, WithConstantIs
  <1> HIDE DEF g
  <1>5. ASSUME NEW v \in [Signal -> Field]
        PROVE  Holds(con, v) <=> Same(m * v[s], Value(g, v))
    <2> DEFINE x == v[s]
               y == Value(e, v)
               z == Value(g, v)
               q == k * x
               n == -k
               j == m * x
               h == n * x
    <2>1. x \in Int /\ y \in Int /\ y \in Field /\ z \in Int
      BY <1>0, <1>4, ValueIn, ValuationIs
    <2>2. Same(z, y - q)
      BY <1>3, <1>4
    <2> HIDE DEF x, y, z
    <2>3. q \in Int /\ h = -q /\ n \in Int /\ m \in Int /\ j \in Int
      BY <2>1, <1>1, <1>2
    <2>4. Same(j, h)
      <3>1. x * m = j /\ x * n = h
        BY <2>1, <2>3
      <3>2. Same(m, n)
        BY <1>2
      <3>3. Same(x * m, x * n)
        <4> HIDE DEF n
        <4> QED  BY <2>1, <2>3, <3>2, SameScaled
      <3> QED  BY <3>1, <3>3
    <2>5. Same(j, z) <=> Same(h, y - q)
      BY <2>2, <2>4 DEF Same
    <2>6. Same(h, y - q) <=> Same(y, 0)
      <3>1. h \in Int /\ y - q \in Int /\ (y - q) - h = y
        <4> HIDE DEF q, h
        <4> QED  BY <2>1, <2>3
      <3>2. Same(y - q, h) <=> Same((y - q) - h, 0)
        <4> DEFINE w == y - q
        <4> HIDE DEF q, h
        <4>1. w \in Int /\ h \in Int
          BY <3>1
        <4> HIDE DEF w
        <4>2. Same(w, h) <=> Same(w - h, 0)
          BY <4>1, SameDiff
        <4> QED  BY <4>2 DEF w
      <3> HIDE DEF q, h
      <3> QED  BY <3>1, <3>2 DEF Same
    <2>7. Same(y, 0) <=> y = 0
      BY <2>1, Numbers, SameInField DEF Same
    <2>8. Holds(con, v) <=> y = 0
      BY <1>0, LinearIs DEF y, e
    <2> QED  BY <2>5, <2>6, <2>7, <2>8 DEF z, x
  <1>6. [coef |-> m, to |-> g] \in Definition
    BY <1>2, <1>4 DEF Definition
  <1> QED  BY <1>d, <1>3, <1>4, <1>5, <1>6 DEF Defines, e

\* The coefficient of a definition can be divided by (normalize_substitutions).
LEMMA NormalIs ==
    ASSUME NEW def \in Definition, NEW s \in Signal
    PROVE  /\ Normal(def) \in Expr /\ DOMAIN Normal(def) = DOMAIN def.to
           /\ \A v \in [Signal -> Field] : Defines(v, s, def) <=> v[s] = Value(Normal(def), v)
  <1> DEFINE k == def.coef
             i == InverseOf(k)
             g == Normal(def)
  <1>1. k \in 1..P - 1 /\ k \in Int /\ def.to \in Expr
    BY DEF Definition
  <1>2. i \in Int /\ Same(i * k, 1) /\ \A x \in Int : Same(k * x, 0) <=> Same(x, 0)
    BY <1>1, Cancel
  <1> HIDE DEF i, k
  <1>3. /\ g \in Expr /\ DOMAIN g = DOMAIN def.to
        /\ \A v \in [Signal -> Field] : Same(Value(g, v), i * Value(def.to, v))
    BY <1>1, <1>2, TimesIs DEF Normal, i, k
  <1> HIDE DEF g
  <1>4. ASSUME NEW v \in [Signal -> Field]
        PROVE  Same(k * v[s], Value(def.to, v)) <=> v[s] = Value(g, v)
    <2> DEFINE x == v[s]
               y == Value(def.to, v)
               z == Value(g, v)
               u == 1
               p == i * k
               q == k * x
    <2>1. x \in Int /\ x \in Field /\ y \in Int /\ z \in Int /\ z \in Field
      BY <1>1, <1>3, ValueIn, ValuationIs
    <2>2. Same(z, i * y)
      BY <1>3
    <2> HIDE DEF x, y, z
    <2>3. p \in Int /\ q \in Int /\ u \in Int /\ Same(p, u)
      BY <1>1, <1>2, <2>1
    <2>4. Same(x * p, x * u) /\ Same(y * p, y * u)
      <3> HIDE DEF p, u
      <3> QED  BY <2>1, <2>3, SameScaled
    <2>5. x * u = x /\ y * u = y /\ x * p = i * q /\ y * p = k * (i * y)
      BY <1>1, <1>2, <2>1
    <2>6. ASSUME Same(q, y)  PROVE  x = z
      <3>1. Same(i * q, i * y)
        <4> HIDE DEF q
        <4> QED  BY <1>2, <2>1, <2>3, <2>6, SameScaled
      <3>2. Same(x, z)
        BY <3>1, <2>2, <2>4, <2>5 DEF Same
      <3> QED  BY <3>2, <2>1, SameInField
    <2>7. ASSUME x = z  PROVE  Same(q, y)
      <3> DEFINE w == i * y
      <3>1. w \in Int /\ Same(x, w)
        BY <1>2, <2>1, <2>2, <2>7
      <3>2. Same(k * x, k * w)
        <4> HIDE DEF w
        <4> QED  BY <3>1, <1>1, <2>1, SameScaled
      <3> QED  BY <3>2, <2>4, <2>5 DEF Same
    <2> QED  BY <2>6, <2>7 DEF x, y, z
  <1> QED  BY <1>3, <1>4 DEF Defines, g, k

\* Two definitions of a signal are one of them and a constraint without the signal
\* (treat_constraint_3, treat_constraint_4).
LEMMA MergedIs ==
    ASSUME NEW left \in Definition, NEW right \in Definition, NEW s \in Signal
    PROVE  /\ Merged(left, right) \in CleanLinear
           /\ SignalsOf(Merged(left, right)) \subseteq (DOMAIN left.to \cup DOMAIN right.to) \ {One}
           /\ \A v \in [Signal -> Field] :
                 Defines(v, s, right) => (Defines(v, s, left) <=> Holds(Merged(left, right), v))
  <1> DEFINE k == left.coef
             l == right.coef
             n == -k
             d == -1
             t == Times(l, left.to)
             u == Times(n, right.to)
             p == Plus(t, u)
             m == Times(d, p)
             g == NonZero(m)
  <1>1. /\ k \in 1..P - 1 /\ k \in Int /\ left.to \in Expr /\ n \in Int /\ d \in Int
        /\ l \in 1..P - 1 /\ l \in Int /\ right.to \in Expr
    BY DEF Definition
  <1>2. \A x \in Int : Same(l * x, 0) <=> Same(x, 0)
    BY <1>1, Cancel
  <1>e. Merged(left, right) = LinearConstraint(g)
    BY DEF Merged
  <1> HIDE DEF k, l
  <1>3. /\ t \in Expr /\ DOMAIN t = DOMAIN left.to
        /\ \A v \in [Signal -> Field] : Same(Value(t, v), l * Value(left.to, v))
    BY <1>1, TimesIs
  <1>4. /\ u \in Expr /\ DOMAIN u = DOMAIN right.to
        /\ \A v \in [Signal -> Field] : Same(Value(u, v), n * Value(right.to, v))
    <2> HIDE DEF n
    <2> QED  BY <1>1, TimesIs
  <1> HIDE DEF t, u
  <1>5. /\ p \in Expr /\ DOMAIN p = DOMAIN t \cup DOMAIN u
        /\ \A v \in [Signal -> Field] : Same(Value(p, v), Value(t, v) + Value(u, v))
    BY <1>3, <1>4, PlusIs
  <1> HIDE DEF p
  <1>6. /\ m \in Expr /\ DOMAIN m = DOMAIN p
        /\ \A v \in [Signal -> Field] : Same(Value(m, v), d * Value(p, v))
    <2> HIDE DEF d
    <2> QED  BY <1>1, <1>5, TimesIs
  <1> HIDE DEF m
  <1>7. /\ g \in Expr /\ g \in Clean /\ DOMAIN g \subseteq DOMAIN m
        /\ \A v \in [Signal -> Field] : Value(g, v) = Value(m, v)
    BY <1>6, NonZeroIs
  <1> HIDE DEF g
  <1>8. LinearConstraint(g) \in CleanLinear /\ SignalsOf(LinearConstraint(g)) = DOMAIN g \ {One}
    BY <1>7, ZeroIs DEF LinearConstraint, CleanLinear, SignalsOf
  <1>9. ASSUME NEW v \in [Signal -> Field], Same(l * v[s], Value(right.to, v))
        PROVE  Same(k * v[s], Value(left.to, v)) <=> Value(g, v) = 0
    <2> DEFINE x == v[s]
               y == Value(left.to, v)
               z == Value(right.to, v)
               a == Value(t, v)
               b == Value(u, v)
               c == Value(p, v)
               w == Value(g, v)
               h == l * x
               q == k * x
    <2>1. /\ x \in Int /\ y \in Int /\ z \in Int /\ a \in Int /\ b \in Int /\ c \in Int
          /\ w \in Field /\ w \in Int
      BY <1>1, <1>3, <1>4, <1>5, <1>7, ValueIn, ValuationIs
    <2>2. Same(a, l * y) /\ Same(b, n * z) /\ Same(c, a + b) /\ Same(w, d * c) /\ Same(h, z)
      BY <1>3, <1>4, <1>5, <1>6, <1>7, <1>9
    <2> HIDE DEF x, y, z, a, b, c, w
    <2>3. h \in Int /\ q \in Int /\ l * y \in Int /\ n * z \in Int /\ n * h \in Int /\ l * q \in Int
      BY <2>1, <1>1
    <2>4. Same(n * h, n * z)
      <3> HIDE DEF n, h
      <3> QED  BY <2>1, <2>2, <2>3, <1>1, SameScaled
    <2>5. Same(b, n * h)
      BY <2>2, <2>4 DEF Same
    <2>6. Same(a + b, l * y + n * h)
      <3> DEFINE e == l * y
                 f == n * h
      <3>1. Same(a, e) /\ Same(b, f) /\ e \in Int /\ f \in Int
        BY <2>2, <2>3, <2>5
      <3>2. Same(a + b, e + f)
        <4> HIDE DEF e, f
        <4> QED  BY <3>1, <2>1, SameSum
      <3> QED  BY <3>2
    <2>7. l * y + n * h = l * (y - q)
      <3>1. n * h = -(l * q)
        BY <2>1, <1>1
      <3>2. l * (y - q) = l * y - l * q
        <4> HIDE DEF q
        <4> QED  BY <2>1, <2>3, <1>1
      <3> DEFINE e == l * y
                 f == l * q
                 o == n * h
      <3>3. e \in Int /\ f \in Int /\ o = -f
        BY <2>3, <3>1
      <3>4. e + o = e - f
        <4> HIDE DEF e, f, o
        <4> QED  BY <3>3
      <3> QED  BY <3>2, <3>4
    <2>8. Same(c, l * (y - q))
      BY <2>2, <2>6, <2>7 DEF Same
    <2>9. Same(c, 0) <=> Same(y - q, 0)
      <3> DEFINE r == y - q
      <3>1. r \in Int
        BY <2>1, <2>3
      <3>2. Same(l * r, 0) <=> Same(r, 0)
        <4> HIDE DEF r
        <4> QED  BY <3>1, <1>2
      <3> QED  BY <3>2, <2>8 DEF Same
    <2>10. Same(y, q) <=> Same(y - q, 0)
      <3> HIDE DEF q
      <3> QED  BY <2>1, <2>3, SameDiff
    <2>11. Same(w, 0) <=> Same(c, 0)
      <3> DEFINE f == 0
      <3>0. f \in Int /\ f - c = d * c
        BY <2>1
      <3>1. Same(f, c) <=> Same(f - c, 0)
        <4> HIDE DEF f
        <4>1. Same(f, c) <=> Same(f - c, 0)
          BY <2>1, <3>0, SameDiff
        <4> QED  BY <4>1
      <3> QED  BY <3>0, <3>1, <2>2 DEF Same
    <2>12. Same(w, 0) <=> w = 0
      BY <2>1, Numbers, SameInField DEF Same
    <2>13. Same(q, y) <=> w = 0
      BY <2>9, <2>10, <2>11, <2>12 DEF Same
    <2> QED  BY <2>13 DEF x, y, w
  <1>10. \A v \in [Signal -> Field] : Holds(LinearConstraint(g), v) <=> Value(g, v) = 0
    BY <1>7, LinearHolds
  <1>11. SignalsOf(LinearConstraint(g)) \subseteq (DOMAIN left.to \cup DOMAIN right.to) \ {One}
    BY <1>3, <1>4, <1>5, <1>6, <1>7, <1>8
  <1> QED  BY <1>e, <1>8, <1>9, <1>10, <1>11 DEF Defines, k, l

-----------------------------------------------------------------------------
(* Equalities and constraints of one signal *)

Equalities == {con \in CleanLinear : IsEquality(con)}
OneSignal  == {con \in CleanLinear : \E s \in Signal \ {One} : SignalsOf(con) = {s}}

\* A set of one element.
LEMMA OneElement ==
    ASSUME NEW S, IsFiniteSet(S), Cardinality(S) = 1
    PROVE  \E s \in S : S = {s}
  <1>1. S # {}
    BY FS_EmptySet
  <1>2. PICK s \in S : TRUE
    BY <1>1
  <1>3. IsFiniteSet(S \ {s}) /\ Cardinality(S \ {s}) = 0
    BY FS_RemoveElement
  <1>4. S \ {s} = {}
    BY <1>3, FS_EmptySet
  <1> QED  BY <1>4

\* A set of two elements.
LEMMA TwoElements ==
    ASSUME NEW S, IsFiniteSet(S), Cardinality(S) = 2
    PROVE  \E s, t \in S : s # t /\ S = {s, t}
  <1>1. S # {}
    BY FS_EmptySet
  <1>2. PICK s \in S : TRUE
    BY <1>1
  <1>3. IsFiniteSet(S \ {s}) /\ Cardinality(S \ {s}) = 1
    BY FS_RemoveElement
  <1>4. PICK t \in S \ {s} : S \ {s} = {t}
    BY <1>3, OneElement
  <1> QED  BY <1>4

\* A constant equality has one signal.
LEMMA ConstantEqualityIs ==
    ASSUME NEW con \in CleanLinear, IsConstantEquality(con)
    PROVE  con \in OneSignal
  <1>1. con \in Linear /\ con.c \in Expr /\ con.c \in Clean
    BY ConIs, CleanIs DEF CleanLinear
  <1> DEFINE D == DOMAIN con.c
  <1>2. D \in SUBSET Signal /\ IsFiniteSet(D)
    BY <1>1, ExprIs
  <1>3. SignalsOf(con) = D \ {One}
    BY <1>1, ConIs
  <1>4. CASE One \in D
    <2>1. Cardinality(D) = 2
      BY <1>4 DEF IsConstantEquality
    <2>2. PICK s, t \in D : s # t /\ D = {s, t}
      BY <2>1, <1>2, TwoElements
    <2> QED  BY <2>2, <1>2, <1>3, <1>4 DEF OneSignal
  <1>5. CASE One \notin D
    <2>1. Cardinality(D) = 1
      BY <1>5 DEF IsConstantEquality
    <2>2. PICK s \in D : D = {s}
      BY <2>1, <1>2, OneElement
    <2> QED  BY <2>2, <1>2, <1>3, <1>5 DEF OneSignal
  <1> QED  BY <1>4, <1>5

\* The signal of such a constraint is a constant.
LEMMA ConstantReplacement ==
    ASSUME NEW con \in OneSignal
    PROVE  /\ Max(SignalsOf(con)) \in Signal \ {One} /\ SignalsOf(con) = {Max(SignalsOf(con))}
           /\ NonZero(Normal(Cleared(con, Max(SignalsOf(con))))) \in Expr
           /\ DOMAIN NonZero(Normal(Cleared(con, Max(SignalsOf(con))))) \subseteq {One}
           /\ \A v \in [Signal -> Field] : Holds(con, v) <=>
                 v[Max(SignalsOf(con))] =
                    Value(NonZero(Normal(Cleared(con, Max(SignalsOf(con))))), v)
  <1> DEFINE s == Max(SignalsOf(con))
             d == Cleared(con, s)
             n == Normal(d)
             g == NonZero(n)
  <1>1. PICK t \in Signal \ {One} : SignalsOf(con) = {t}
    BY DEF OneSignal
  <1>2. s = t
    <2>1. {t} \in SUBSET (0..NoLabels - 1) /\ {t} # {} /\ NoLabels - 1 \in Nat
      BY <1>1, Numbers DEF Signal
    <2>2. Max({t}) \in {t}
      <3> DEFINE S == {t}
                 N == NoLabels - 1
      <3> HIDE DEF S, N
      <3>1. N \in Nat /\ S \in SUBSET (0..N) /\ S # {}
        BY <2>1 DEF S, N
      <3>2. Max(S) \in S
        BY <3>1, Bounds
      <3> QED  BY <3>2 DEF S
    <2> QED  BY <2>2, <1>1
  <1> HIDE DEF s
  <1>3. con \in CleanLinear /\ SignalsOf(con) = DOMAIN con.c \ {One} /\ s \in SignalsOf(con)
    BY <1>1, <1>2, ConIs DEF OneSignal
  <1>4. /\ d \in Definition /\ DOMAIN d.to = {One} \cup (DOMAIN con.c \ {s})
        /\ \A v \in [Signal -> Field] : Holds(con, v) <=> Defines(v, s, d)
    BY <1>3, ClearedIs
  <1> HIDE DEF d
  <1>5. /\ n \in Expr /\ DOMAIN n = DOMAIN d.to
        /\ \A v \in [Signal -> Field] : Defines(v, s, d) <=> v[s] = Value(n, v)
    BY <1>1, <1>2, <1>4, NormalIs
  <1> HIDE DEF n
  <1>6. g \in Expr /\ DOMAIN g \subseteq DOMAIN n /\ \A v \in [Signal -> Field] : Value(g, v) = Value(n, v)
    BY <1>5, NonZeroIs
  <1> HIDE DEF g
  <1>7. DOMAIN g \subseteq {One}
    BY <1>1, <1>2, <1>3, <1>4, <1>5, <1>6
  <1> QED  BY <1>1, <1>2, <1>4, <1>5, <1>6, <1>7 DEF g, n, d, s

\* A linear combination of two signals
LEMMA TwoTerms ==
    ASSUME NEW e \in Expr, NEW s \in Signal, NEW t \in Signal, s # t, NEW k \in Int, NEW l \in Int,
           \A n \in Signal : Same(Coefficient(e, n), IF n = s THEN k ELSE IF n = t THEN l ELSE 0),
           NEW v \in [Signal -> Field]
    PROVE  Same(Value(e, v), k * v[s] + l * v[t])
  <1> DEFINE f == Only(s, 1)
             g == Only(t, 1)
  <1>1. \A n \in Signal : Only(n, 1) \in Expr /\ DOMAIN Only(n, 1) = {n} /\ Only(n, 1)[n] = 1
                          /\ Value(Only(n, 1), v) = v[n]
    <2> SUFFICES ASSUME NEW n \in Signal
                 PROVE  Only(n, 1) \in Expr /\ DOMAIN Only(n, 1) = {n} /\ Only(n, 1)[n] = 1
                        /\ Value(Only(n, 1), v) = v[n]
      OBVIOUS
    <2>1. Only(n, 1) \in Expr /\ DOMAIN Only(n, 1) = {n} /\ Value(Only(n, 1), v) = (1 * v[n]) % P
      BY Numbers, ValueOfOnly
    <2>2. v[n] \in Field /\ v[n] \in Int
      BY ValuationIs
    <2>3. 1 * v[n] = v[n] /\ v[n] % P = v[n]
      BY <2>2, SameIs
    <2> QED  BY <2>1, <2>3 DEF Only
  <1>2. \A n \in Signal : Same(Coefficient(e, n), k * Coefficient(f, n) + l * Coefficient(g, n))
    <2> SUFFICES ASSUME NEW n \in Signal
                 PROVE  Same(Coefficient(e, n), k * Coefficient(f, n) + l * Coefficient(g, n))
      OBVIOUS
    <2> HIDE DEF f, g
    <2>1. /\ Coefficient(f, n) = (IF n = s THEN 1 ELSE 0)
          /\ Coefficient(g, n) = (IF n = t THEN 1 ELSE 0)
      BY <1>1 DEF Coefficient, f, g
    <2>2. k * Coefficient(f, n) + l * Coefficient(g, n) = IF n = s THEN k ELSE IF n = t THEN l ELSE 0
      BY <2>1
    <2> QED  BY <2>2
  <1> HIDE DEF f, g
  <1>3. f \in Expr /\ g \in Expr /\ Value(f, v) = v[s] /\ Value(g, v) = v[t]
    BY <1>1 DEF f, g
  <1>4. Same(Value(e, v), k * Value(f, v) + l * Value(g, v))
    BY <1>2, <1>3, Combine
  <1> QED  BY <1>3, <1>4

\* The equality of two signals holds where they have the same value.
LEMMA EqualToIs ==
    ASSUME NEW s \in Signal \ {One}, NEW r \in Signal \ {One}, s # r
    PROVE  /\ EqualTo(s, r) \in Linear /\ SignalsOf(EqualTo(s, r)) = {s, r}
           /\ \A v \in [Signal -> Field] : Holds(EqualTo(s, r), v) <=> v[s] = v[r]
  <1> DEFINE e == Only(s, P - 1) ++ Only(r, 1) ++ Only(One, 0)
             n == P - 1
             k == -1
  <1>1. e = [t \in {s, r, One} |-> IF t = s THEN n ELSE IF t = r THEN 1 ELSE 0]
    BY DEF Only, ++
  <1>2. e \in [{s, r, One} -> Field] /\ {s, r, One} \in SUBSET Signal
    BY <1>1, Numbers DEF Field
  <1>3. EqualTo(s, r) = LinearConstraint(e)
    BY DEF EqualTo
  <1>4. \A t \in Signal : Coefficient(e, t) = IF t = s THEN n ELSE IF t = r THEN 1 ELSE 0
    BY <1>1 DEF Coefficient
  <1> HIDE DEF e
  <1>5. e \in Expr
    BY <1>2, ExprIf
  <1>6. EqualTo(s, r) \in Linear /\ SignalsOf(EqualTo(s, r)) = {s, r}
    BY <1>2, <1>3, <1>5, ZeroIs DEF LinearConstraint, Linear, SignalsOf
  <1>7. ASSUME NEW v \in [Signal -> Field]  PROVE  Value(e, v) = 0 <=> v[s] = v[r]
    <2> DEFINE x == v[s]
               y == v[r]
               z == Value(e, v)
    <2>1. x \in Int /\ x \in Field /\ y \in Int /\ y \in Field /\ z \in Int /\ z \in Field
      BY <1>5, ValueIn, ValuationIs
    <2>2. Same(n, k)
      <3>1. n \in Int /\ k \in Int /\ n = k + P * 1
        BY Numbers
      <3>2. P \in Nat \ {0} /\ 1 \in Int
        BY Numbers
      <3>3. n % P = k % P
        <4> DEFINE u == 1
        <4> HIDE DEF n, k, u
        <4>1. u \in Int /\ n = k + P * u
          BY <3>1 DEF u
        <4> QED  BY <3>1, <3>2, <4>1, F!SameMod
      <3> QED  BY <3>3 DEF Same
    <2>3. Same(z, n * x + 1 * y)
      <3>1. \A t \in Signal : Same(Coefficient(e, t), IF t = s THEN n ELSE IF t = r THEN 1 ELSE 0)
        BY <1>4 DEF Same
      <3> DEFINE u == 1
      <3>2. n \in Int /\ u \in Int
        BY Numbers
      <3>3. \A t \in Signal : Same(Coefficient(e, t), IF t = s THEN n ELSE IF t = r THEN u ELSE 0)
        BY <3>1
      <3>4. Same(z, n * x + u * y)
        <4> HIDE DEF n, u
        <4> QED  BY <3>2, <3>3, <1>5, TwoTerms
      <3> QED  BY <3>4
    <2> HIDE DEF x, y, z
    <2>4. Same(x * n, x * k)
      <3>1. n \in Int /\ k \in Int
        BY Numbers
      <3> HIDE DEF n, k
      <3> QED  BY <2>1, <2>2, <3>1, SameScaled
    <2>5. n * x = x * n /\ x * k = -x /\ x * n \in Int /\ 1 * y = y
      BY <2>1, Numbers
    <2>6. Same(x * n + y, -x + y)
      <3> DEFINE a == x * n
                 b == -x
      <3>1. Same(a, b) /\ Same(y, y) /\ a \in Int /\ b \in Int
        BY <2>1, <2>4, <2>5 DEF Same
      <3>2. Same(a + y, b + y)
        <4> HIDE DEF a, b
        <4> QED  BY <2>1, <3>1, SameSum
      <3> QED  BY <3>2
    <2>7. Same(z, y - x)
      <3>1. -x + y = y - x
        BY <2>1
      <3> HIDE DEF n, k
      <3> QED  BY <2>3, <2>5, <2>6, <3>1 DEF Same
    <2>8. Same(y, x) <=> Same(y - x, 0)
      BY <2>1, SameDiff
    <2>9. z = 0 <=> Same(z, 0)
      BY <2>1, Numbers, SameInField DEF Same
    <2>10. Same(y, x) <=> x = y
      BY <2>1, SameInField DEF Same
    <2> QED  BY <2>7, <2>8, <2>9, <2>10 DEF Same, x, y, z
  <1> QED  BY <1>3, <1>5, <1>6, <1>7, LinearHolds

\* A constraint that is an equality says that two signals have the same value.
LEMMA EqualityIs ==
    ASSUME NEW con \in Equalities
    PROVE  \E s, t \in Signal \ {One} :
              /\ s # t /\ SignalsOf(con) = {s, t}
              /\ \A v \in [Signal -> Field] : Holds(con, v) <=> v[s] = v[t]
  <1> DEFINE e == con.c
  <1>1. con \in CleanLinear /\ con \in Linear /\ e \in Expr /\ e \in Clean /\ IsEquality(con)
    BY ConIs, CleanIs DEF Equalities, CleanLinear
  <1>2. One \notin DOMAIN e /\ Cardinality(DOMAIN e) = 2 /\ IsFiniteSet(DOMAIN e)
        /\ DOMAIN e \in SUBSET Signal
    BY <1>1, ExprIs DEF IsEquality
  <1>3. PICK s, t \in DOMAIN e : s # t /\ DOMAIN e = {s, t}
    BY <1>2, TwoElements
  <1>4. s \in Signal \ {One} /\ t \in Signal \ {One} /\ SignalsOf(con) = {s, t}
    BY <1>1, <1>2, <1>3, ConIs
  <1> DEFINE l == e[t]
             n == -l
  <1>5. e[s] = n % P
    BY <1>1, <1>3 DEF IsEquality
  <1>6. l \in 1..P - 1 /\ l \in Int /\ n \in Int
    BY <1>1, <1>3, CleanIs
  <1>7. Same(e[s], n)
    <2> HIDE DEF n
    <2> QED  BY <1>5, <1>6, SameIs
  <1>8. \A m \in Signal : Same(Coefficient(e, m), IF m = s THEN n ELSE IF m = t THEN l ELSE 0)
    <2> SUFFICES ASSUME NEW m \in Signal
                 PROVE  Same(Coefficient(e, m), IF m = s THEN n ELSE IF m = t THEN l ELSE 0)
      OBVIOUS
    <2>1. CASE m = s
      BY <2>1, <1>3, <1>7 DEF Coefficient
    <2>2. CASE m # s /\ m = t
      BY <2>2, <1>3 DEF Coefficient, Same
    <2>3. CASE m # s /\ m # t
      BY <2>3, <1>3 DEF Coefficient, Same
    <2> QED  BY <2>1, <2>2, <2>3
  <1> HIDE DEF l
  <1>9. ASSUME NEW v \in [Signal -> Field]  PROVE  Value(e, v) = 0 <=> v[s] = v[t]
    <2> DEFINE x == v[s]
               y == v[t]
               z == Value(e, v)
               d == y - x
    <2>1. x \in Int /\ x \in Field /\ y \in Int /\ y \in Field /\ z \in Int /\ z \in Field /\ d \in Int
      <3>1. x \in Int /\ x \in Field /\ y \in Int /\ y \in Field /\ z \in Int /\ z \in Field
        BY <1>1, <1>4, ValueIn, ValuationIs
      <3> HIDE DEF x, y
      <3> QED  BY <3>1
    <2>2. Same(z, n * x + l * y)
      <3> HIDE DEF n, e
      <3> QED  BY <1>1, <1>3, <1>4, <1>6, <1>8, TwoTerms
    <2> HIDE DEF x, y, z
    <2>3. n * x + l * y = l * d
      <3>1. n * x = -(l * x) /\ l * d = l * y - l * x /\ l * x \in Int /\ l * y \in Int
        BY <2>1, <1>6
      <3> DEFINE a == n * x
                 b == l * x
                 c == l * y
      <3>2. a = -b /\ b \in Int /\ c \in Int
        BY <3>1
      <3>3. a + c = c - b
        <4> HIDE DEF a, b, c
        <4> QED  BY <3>2
      <3> QED  BY <3>1, <3>3
    <2>4. Same(l * d, 0) <=> Same(d, 0)
      <3> HIDE DEF d
      <3> QED  BY <2>1, <1>6, Cancel
    <2>5. Same(y, x) <=> Same(d, 0)
      BY <2>1, SameDiff
    <2>6. z = 0 <=> Same(z, 0)
      BY <2>1, Numbers, SameInField DEF Same
    <2>7. Same(y, x) <=> x = y
      BY <2>1, SameInField DEF Same
    <2> QED  BY <2>2, <2>3, <2>4, <2>5, <2>6, <2>7 DEF Same, x, y, z
  <1>10. \A v \in [Signal -> Field] : Holds(con, v) <=> v[s] = v[t]
    BY <1>1, <1>9, LinearIs
  <1> QED  BY <1>3, <1>4, <1>10

-----------------------------------------------------------------------------
(* Expressions without a value *)

Null(e) == e \in Expr /\ DOMAIN e \subseteq {One} /\ \A s \in DOMAIN e : e[s] = 0

\* Expressions without a coefficient that is not zero stay so under a substitution.
LEMMA NullIs ==
    /\ Null(Zero)
    /\ \A e : Null(e) => NonZero(e) = Zero
    /\ \A e, to \in Expr, from \in Signal \ {One} : Null(e) => Null(RawSubstitution(e, from, to))
  <1>1. Null(Zero)
    BY ZeroIs DEF Null
  <1>2. ASSUME NEW e, Null(e)  PROVE  NonZero(e) = Zero
    <2>1. NonZero(e) \in Expr /\ DOMAIN NonZero(e) = {}
      BY <1>2, NonZeroIs DEF Null
    <2> QED  BY <2>1, ZeroIs
  <1>3. ASSUME NEW e \in Expr, NEW to \in Expr, NEW from \in Signal \ {One}, Null(e)
        PROVE  Null(RawSubstitution(e, from, to))
    <2> DEFINE g == RawSubstitution(e, from, to)
    <2>1. from \notin DOMAIN WithConstant(e)
      BY <1>3, WithConstantIs DEF Null
    <2>2. g = WithConstant(e)
      BY <2>1 DEF RawSubstitution
    <2>3. g \in Expr /\ DOMAIN g \subseteq {One}
      BY <1>3, <2>2, WithConstantIs DEF Null
    <2>4. \A s \in DOMAIN g : g[s] = 0
      BY <1>3, <2>2 DEF Null, WithConstant, Only, ++
    <2> QED  BY <2>3, <2>4 DEF Null
  <1> QED  BY <1>1, <1>2, <1>3

\* A constraint that is linear but for entries without value
Plain(con) == con \in Con /\ Null(con.a) /\ Null(con.b)

\* So do constraints that are linear when they are cleaned.
LEMMA PlainIs ==
    /\ \A con \in Linear : Plain(con)
    /\ \A con : Plain(con) => Fixed(con) \in CleanLinear /\ Fixed(con) = LinearConstraint(NonZero(con.c))
                              /\ SignalsOf(con) = DOMAIN con.c \ {One}
    /\ \A con : \A to \in Expr, from \in Signal \ {One} : Plain(con) => Plain(Substituted(con, from, to))
  <1>1. \A con \in Linear : Plain(con)
    BY NullIs, ConIs DEF Plain, Linear
  <1>2. ASSUME NEW con, Plain(con)
        PROVE  Fixed(con) \in CleanLinear /\ Fixed(con) = LinearConstraint(NonZero(con.c))
               /\ SignalsOf(con) = DOMAIN con.c \ {One}
    <2>1. NonZero(con.a) = Zero /\ con \in Con
      BY <1>2, NullIs DEF Plain
    <2>2. SignalsOf(con) = DOMAIN con.c \ {One}
      BY <1>2 DEF Plain, Null, SignalsOf
    <2> QED  BY <2>1, <2>2, FixedIs
  <1>3. ASSUME NEW con, NEW to \in Expr, NEW from \in Signal \ {One}, Plain(con)
        PROVE  Plain(Substituted(con, from, to))
    <2>1. con \in Con /\ Null(con.a) /\ Null(con.b) /\ con.a \in Expr /\ con.b \in Expr
      BY <1>3 DEF Plain, Con
    <2>2. Null(RawSubstitution(con.a, from, to)) /\ Null(RawSubstitution(con.b, from, to))
      BY <2>1, NullIs
    <2>3. Substituted(con, from, to) \in Con
      BY <2>1, SubstitutedIs
    <2>4. Substituted(con, from, to).a = RawSubstitution(con.a, from, to)
          /\ Substituted(con, from, to).b = RawSubstitution(con.b, from, to)
      BY DEF Substituted
    <2> QED  BY <2>2, <2>3, <2>4 DEF Plain
  <1> QED  BY <1>1, <1>2, <1>3

-----------------------------------------------------------------------------
(* Several substitutions at once *)

Replacements == UNION {[D -> Expr] : D \in SUBSET (Signal \ {One})}
Satisfies(v, m) == \A s \in DOMAIN m : v[s] = Value(m[s], v)
\* The signals by which those of S are replaced
Images(m, S) == (UNION {DOMAIN m[s] : s \in S \cap DOMAIN m}) \ {One}

\* Substitutions replace signals, never the constant, by expressions.
LEMMA ReplacementsAre ==
    ASSUME NEW m \in Replacements
    PROVE  DOMAIN m \in SUBSET (Signal \ {One}) /\ \A s \in DOMAIN m : m[s] \in Expr
  BY DEF Replacements

\* What substituting in a constraint does, one signal after the other
LEMMA FastTable ==
    ASSUME NEW con \in Con, NEW m \in Replacements
    PROVE  \E W \in [SUBSET (SignalsOf(con) \cap DOMAIN m) -> Con] :
              /\ W[{}] = con
              /\ \A T \in SUBSET (SignalsOf(con) \cap DOMAIN m) :
                    T # {} => \E x \in T : W[T] = Substituted(W[T \ {x}], x, m[x])
              /\ FastSubstitution(con, m) = W[SignalsOf(con) \cap DOMAIN m]
  <1> DEFINE D == SignalsOf(con) \cap DOMAIN m
             pick == [T \in SUBSET D |-> CHOOSE x \in T : TRUE]
             op == [p \in D \X Con |-> Substituted(p[2], p[1], m[p[1]])]
             Steps(W) == W = [T \in SUBSET D |->
                                IF T = {} THEN con
                                ELSE Substituted(W[T \ {CHOOSE x \in T : TRUE}],
                                                 CHOOSE x \in T : TRUE,
                                                 m[CHOOSE x \in T : TRUE])]
  <1>1. /\ D \in SUBSET (Signal \ {One}) /\ IsFiniteSet(D)
        /\ \A s \in D : m[s] \in Expr
    <2>1. D \in SUBSET (Signal \ {One}) /\ \A s \in D : m[s] \in Expr
      BY ReplacementsAre
    <2>2. IsFiniteSet(Signal)
      BY Numbers, FS_Interval DEF Signal
    <2> HIDE DEF D
    <2>3. D \in SUBSET Signal
      BY <2>1
    <2> QED  BY <2>1, <2>2, <2>3, FS_Subset
  <1>2. PICK W \in [SUBSET D -> Con] : FoldTable(D, con, op, pick, W)
    <2>1. op \in [D \X Con -> Con]
      <3>1. \A p \in D \X Con : Substituted(p[2], p[1], m[p[1]]) \in Con
        <4> SUFFICES ASSUME NEW p \in D \X Con
                     PROVE  Substituted(p[2], p[1], m[p[1]]) \in Con
          OBVIOUS
        <4>1. p[1] \in D /\ p[2] \in Con
          OBVIOUS
        <4>2. p[1] \in Signal \ {One} /\ m[p[1]] \in Expr
          <5> HIDE DEF D
          <5> QED  BY <4>1, <1>1
        <4> QED  BY <4>1, <4>2, SubstitutedIs
      <3> QED  BY <3>1
    <2>2. \A T \in SUBSET D : T # {} => pick[T] \in T
      OBVIOUS
    <2>3. HasFold(D, Con, con, op, pick)
      <3> HIDE DEF D, op, pick
      <3> QED  BY <1>1, <2>1, <2>2, FoldExists, Zenon
    <2> QED  BY <2>3 DEF HasFold
  <1>3. \E X : Steps(X)
    <2>1. ASSUME NEW T \in SUBSET D, T # {}
          PROVE  W[T] = Substituted(W[T \ {CHOOSE x \in T : TRUE}],
                                    CHOOSE x \in T : TRUE, m[CHOOSE x \in T : TRUE])
      <3> DEFINE y == CHOOSE x \in T : TRUE
      <3>1. y \in T /\ y \in D /\ pick[T] = y /\ W[T \ {y}] \in Con
        BY <2>1
      <3>2. W[T] = op[<<y, W[T \ {y}]>>]
        BY <1>2, <2>1, <3>1 DEF FoldTable
      <3> QED  BY <3>1, <3>2
    <2>2. Steps(W)
      <3> HIDE DEF D
      <3> QED  BY <1>2, <2>1 DEF FoldTable
    <2> QED  BY <2>2
  <1> DEFINE X == CHOOSE Y : Steps(Y)
  <1>4. Steps(X)
    BY <1>3
  <1>5. FastSubstitution(con, m) = X[D]
    BY DEF FastSubstitution, FoldSet, MapThenFoldSet
  <1> HIDE DEF X
  <1>6. \A T \in SUBSET D : /\ T = {} => X[T] = con
                            /\ T # {} => \E x \in T : X[T] = Substituted(X[T \ {x}], x, m[x])
    BY <1>4
  <1>7. X \in [SUBSET D -> Con]
    <2> DEFINE Q == {T \in SUBSET D : X[T] \in Con}
    <2>1. ASSUME NEW T \in SUBSET D, \A x \in T : T \ {x} \in Q  PROVE  T \in Q
      <3>1. CASE T = {}
        BY <3>1, <1>6
      <3>2. CASE T # {}
        <4>1. PICK x \in T : X[T] = Substituted(X[T \ {x}], x, m[x])
          BY <3>2, <1>6
        <4> HIDE DEF D
        <4>2. X[T \ {x}] \in Con /\ x \in Signal \ {One} /\ m[x] \in Expr
          BY <2>1, <1>1
        <4>3. X[T] \in Con
          BY <4>1, <4>2, SubstitutedIs
        <4> QED  BY <4>3
      <3> QED  BY <3>1, <3>2
    <2> HIDE DEF Q, D
    <2>2. \A T \in SUBSET D : T \in Q
      BY <2>1, <1>1, SubsetsInduct
    <2>3. \A T \in SUBSET D : X[T] \in Con
      BY <2>2 DEF Q
    <2>4. DOMAIN X = SUBSET D /\ X = [T \in SUBSET D |-> X[T]]
      BY <1>4
    <2> QED  BY <2>3, <2>4
  <1>8. {} \in SUBSET D
    OBVIOUS
  <1> HIDE DEF D
  <1>9. /\ X[{}] = con
        /\ \A T \in SUBSET D : T # {} => \E x \in T : X[T] = Substituted(X[T \ {x}], x, m[x])
    BY <1>6, <1>8
  <1> QED  BY <1>5, <1>7, <1>9 DEF D

\* fast_encoded_constraint_substitution, with substitutions that hold: a constraint holds where it did,
\* and its signals are those that were not replaced and those of the replacements.
LEMMA FastIs ==
    ASSUME NEW con \in Con, NEW m \in Replacements
    PROVE  /\ FastSubstitution(con, m) \in Con
           /\ SignalsOf(FastSubstitution(con, m)) \subseteq
                 (SignalsOf(con) \ DOMAIN m) \cup Images(m, SignalsOf(con))
           /\ Plain(con) => Plain(FastSubstitution(con, m))
           /\ \A v \in [Signal -> Field] :
                 Satisfies(v, m) => (Holds(FastSubstitution(con, m), v) <=> Holds(con, v))
           /\ SignalsOf(con) \cap DOMAIN m = {} => FastSubstitution(con, m) = con
           /\ \A s : SignalsOf(con) \cap DOMAIN m = {s} =>
                        FastSubstitution(con, m) = Substituted(con, s, m[s])
  <1> DEFINE D == SignalsOf(con) \cap DOMAIN m
             I == Images(m, SignalsOf(con))
  <1>1. PICK W \in [SUBSET D -> Con] :
           /\ W[{}] = con
           /\ \A T \in SUBSET D : T # {} => \E x \in T : W[T] = Substituted(W[T \ {x}], x, m[x])
           /\ FastSubstitution(con, m) = W[D]
    BY FastTable
  <1>2. /\ IsFiniteSet(D) /\ \A s \in D : s \in Signal \ {One} /\ m[s] \in Expr
                                         /\ DOMAIN m[s] \ {One} \subseteq I
    <2>1. \A s \in D : s \in Signal \ {One} /\ m[s] \in Expr
      BY ReplacementsAre
    <2>2. IsFiniteSet(Signal)
      BY Numbers, FS_Interval DEF Signal
    <2>3. IsFiniteSet(D)
      <3> HIDE DEF D
      <3>1. D \in SUBSET Signal
        BY <2>1
      <3> QED  BY <2>2, <3>1, FS_Subset
    <2>4. \A s \in D : DOMAIN m[s] \ {One} \subseteq I
      BY DEF Images
    <2> QED  BY <2>1, <2>3, <2>4
  <1> HIDE DEF I
  <1> DEFINE Good(c, T) == /\ SignalsOf(c) \subseteq (SignalsOf(con) \ T) \cup I
                           /\ Plain(con) => Plain(c)
                           /\ \A v \in [Signal -> Field] : Satisfies(v, m) => (Holds(c, v) <=> Holds(con, v))
             Q == {T \in SUBSET D : Good(W[T], T)}
  <1>3. ASSUME NEW T \in SUBSET D, \A x \in T : T \ {x} \in Q  PROVE  T \in Q
    <2>1. CASE T = {}
      BY <2>1, <1>1
    <2>2. CASE T # {}
      <3>1. PICK x \in T : W[T] = Substituted(W[T \ {x}], x, m[x])
        BY <2>2, <1>1
      <3> DEFINE c == W[T \ {x}]
      <3>2. Good(c, T \ {x}) /\ c \in Con /\ x \in D /\ x \in DOMAIN m
        BY <1>3
      <3>3. x \in Signal \ {One} /\ m[x] \in Expr /\ DOMAIN m[x] \ {One} \subseteq I
        BY <3>2, <1>2
      <3> HIDE DEF c
      <3>4. /\ SignalsOf(W[T]) \subseteq (SignalsOf(c) \ {x}) \cup (DOMAIN m[x] \ {One})
            /\ \A v \in [Signal -> Field] :
                 v[x] = Value(m[x], v) => (Holds(W[T], v) <=> Holds(c, v))
        BY <3>1, <3>2, <3>3, SubstitutedIs DEF c
      <3>5. SignalsOf(W[T]) \subseteq (SignalsOf(con) \ T) \cup I
        BY <3>2, <3>3, <3>4
      <3>6. Plain(con) => Plain(W[T])
        BY <3>1, <3>2, <3>3, PlainIs DEF c
      <3>7. \A v \in [Signal -> Field] : Satisfies(v, m) => (Holds(W[T], v) <=> Holds(con, v))
        BY <3>2, <3>4 DEF Satisfies
      <3> QED  BY <3>5, <3>6, <3>7
    <2> QED  BY <2>1, <2>2
  <1> HIDE DEF Q, D
  <1>4. \A T \in SUBSET D : T \in Q
    BY <1>2, <1>3, SubsetsInduct
  <1>5. Good(W[D], D)
    BY <1>4 DEF Q
  <1>6. SignalsOf(con) \ D = SignalsOf(con) \ DOMAIN m
    BY DEF D
  <1>7. D = {} => FastSubstitution(con, m) = con
    BY <1>1
  <1>8. ASSUME NEW s, D = {s}  PROVE  FastSubstitution(con, m) = Substituted(con, s, m[s])
    <2>1. PICK x \in D : W[D] = Substituted(W[D \ {x}], x, m[x])
      BY <1>1, <1>8
    <2>2. x = s /\ D \ {x} = {}
      BY <1>8
    <2> QED  BY <2>1, <2>2, <1>1
  <1>9. W[D] \in Con
    BY <1>1
  <1> DEFINE f == FastSubstitution(con, m)
  <1>10. f = W[D] /\ Good(f, D)
    BY <1>1, <1>5
  <1> HIDE DEF f
  <1>11. f \in Con /\ SignalsOf(f) \subseteq (SignalsOf(con) \ DOMAIN m) \cup I
    BY <1>6, <1>9, <1>10
  <1>12. (Plain(con) => Plain(f)) /\ \A v \in [Signal -> Field] : Satisfies(v, m) => (Holds(f, v) <=> Holds(con, v))
    BY <1>10
  <1>13. \A s : D = {s} => f = Substituted(con, s, m[s])
    BY <1>8 DEF f
  <1> QED  BY <1>7, <1>11, <1>12, <1>13 DEF D, I, f

-----------------------------------------------------------------------------
(* The same for expressions *)

\* One substitution in an expression that holds changes no value.
LEMMA RawKeeps ==
    ASSUME NEW e \in Expr, NEW to \in Expr, NEW from \in Signal \ {One},
           NEW v \in [Signal -> Field], v[from] = Value(to, v)
    PROVE  Value(RawSubstitution(e, from, to), v) = Value(e, v)
  <1>1. \A u \in [Signal -> Field] :
           u[from] = Value(to, u) => Value(RawSubstitution(e, from, to), u) = Value(e, u)
    BY RawIs
  <1> QED  BY <1>1

\* An expression with all its signals replaced, one after the other.
LEMMA ReplacedTable ==
    ASSUME NEW e \in Expr, NEW m \in Replacements
    PROVE  \E W \in [SUBSET (DOMAIN e \cap DOMAIN m) -> Expr] :
              /\ W[{}] = e
              /\ \A T \in SUBSET (DOMAIN e \cap DOMAIN m) :
                    T # {} => \E x \in T : W[T] = RawSubstitution(W[T \ {x}], x, m[x])
              /\ Replaced(e, m) = W[DOMAIN e \cap DOMAIN m]
  <1> DEFINE D == DOMAIN e \cap DOMAIN m
             pick == [T \in SUBSET D |-> CHOOSE x \in T : TRUE]
             op == [p \in D \X Expr |-> RawSubstitution(p[2], p[1], m[p[1]])]
             Steps(W) == W = [T \in SUBSET D |->
                                IF T = {} THEN e
                                ELSE RawSubstitution(W[T \ {CHOOSE x \in T : TRUE}],
                                                     CHOOSE x \in T : TRUE,
                                                     m[CHOOSE x \in T : TRUE])]
  <1>1. /\ D \in SUBSET (Signal \ {One}) /\ IsFiniteSet(D)
        /\ \A s \in D : m[s] \in Expr
    <2>1. D \in SUBSET (Signal \ {One}) /\ \A s \in D : m[s] \in Expr
      BY ReplacementsAre
    <2>2. IsFiniteSet(Signal)
      BY Numbers, FS_Interval DEF Signal
    <2> HIDE DEF D
    <2>3. D \in SUBSET Signal
      BY <2>1
    <2> QED  BY <2>1, <2>2, <2>3, FS_Subset
  <1>2. PICK W \in [SUBSET D -> Expr] : FoldTable(D, e, op, pick, W)
    <2>1. op \in [D \X Expr -> Expr]
      <3>1. \A p \in D \X Expr : RawSubstitution(p[2], p[1], m[p[1]]) \in Expr
        <4> SUFFICES ASSUME NEW p \in D \X Expr
                     PROVE  RawSubstitution(p[2], p[1], m[p[1]]) \in Expr
          OBVIOUS
        <4>1. p[1] \in D /\ p[2] \in Expr
          OBVIOUS
        <4>2. p[1] \in Signal \ {One} /\ m[p[1]] \in Expr
          <5> HIDE DEF D
          <5> QED  BY <4>1, <1>1
        <4> QED  BY <4>1, <4>2, RawIs
      <3> QED  BY <3>1
    <2>2. \A T \in SUBSET D : T # {} => pick[T] \in T
      OBVIOUS
    <2>3. HasFold(D, Expr, e, op, pick)
      <3> HIDE DEF D, op, pick
      <3> QED  BY <1>1, <2>1, <2>2, FoldExists, Zenon
    <2> QED  BY <2>3 DEF HasFold
  <1>3. \E X : Steps(X)
    <2>1. ASSUME NEW T \in SUBSET D, T # {}
          PROVE  W[T] = RawSubstitution(W[T \ {CHOOSE x \in T : TRUE}],
                                        CHOOSE x \in T : TRUE, m[CHOOSE x \in T : TRUE])
      <3> DEFINE y == CHOOSE x \in T : TRUE
      <3>1. y \in T /\ y \in D /\ pick[T] = y /\ W[T \ {y}] \in Expr
        BY <2>1
      <3>2. W[T] = op[<<y, W[T \ {y}]>>]
        BY <1>2, <2>1, <3>1 DEF FoldTable
      <3> QED  BY <3>1, <3>2
    <2>2. Steps(W)
      <3> HIDE DEF D
      <3> QED  BY <1>2, <2>1 DEF FoldTable
    <2> QED  BY <2>2
  <1> DEFINE X == CHOOSE Y : Steps(Y)
  <1>4. Steps(X)
    BY <1>3
  <1>5. Replaced(e, m) = X[D]
    BY DEF Replaced, FoldSet, MapThenFoldSet
  <1> HIDE DEF X
  <1>6. \A T \in SUBSET D : /\ T = {} => X[T] = e
                            /\ T # {} => \E x \in T : X[T] = RawSubstitution(X[T \ {x}], x, m[x])
    BY <1>4
  <1>7. X \in [SUBSET D -> Expr]
    <2> DEFINE Q == {T \in SUBSET D : X[T] \in Expr}
    <2>1. ASSUME NEW T \in SUBSET D, \A x \in T : T \ {x} \in Q  PROVE  T \in Q
      <3>1. CASE T = {}
        BY <3>1, <1>6
      <3>2. CASE T # {}
        <4>1. PICK x \in T : X[T] = RawSubstitution(X[T \ {x}], x, m[x])
          BY <3>2, <1>6
        <4> HIDE DEF D
        <4>2. X[T \ {x}] \in Expr /\ x \in Signal \ {One} /\ m[x] \in Expr
          BY <2>1, <1>1
        <4> DEFINE c == X[T \ {x}]
                   y == m[x]
        <4>3. RawSubstitution(c, x, y) \in Expr
          <5> HIDE DEF c, y
          <5> QED  BY <4>2, RawIs DEF c, y
        <4> QED  BY <4>1, <4>3
      <3> QED  BY <3>1, <3>2
    <2> HIDE DEF Q, D
    <2>2. \A T \in SUBSET D : T \in Q
      BY <2>1, <1>1, SubsetsInduct
    <2>3. \A T \in SUBSET D : X[T] \in Expr
      BY <2>2 DEF Q
    <2>4. DOMAIN X = SUBSET D /\ X = [T \in SUBSET D |-> X[T]]
      BY <1>4
    <2> QED  BY <2>3, <2>4
  <1>8. {} \in SUBSET D
    OBVIOUS
  <1> HIDE DEF D
  <1>9. /\ X[{}] = e
        /\ \A T \in SUBSET D : T # {} => \E x \in T : X[T] = RawSubstitution(X[T \ {x}], x, m[x])
    BY <1>6, <1>8
  <1> QED  BY <1>5, <1>7, <1>9 DEF D

\* An expression with all its signals replaced has the value it had.
LEMMA ReplacedIs ==
    ASSUME NEW e \in Expr, NEW m \in Replacements
    PROVE  /\ Replaced(e, m) \in Expr
           /\ DOMAIN Replaced(e, m) \subseteq {One} \cup (DOMAIN e \ DOMAIN m) \cup Images(m, DOMAIN e)
           /\ \A v \in [Signal -> Field] : Satisfies(v, m) => Value(Replaced(e, m), v) = Value(e, v)
  <1> DEFINE D == DOMAIN e \cap DOMAIN m
             I == Images(m, DOMAIN e)
  <1>1. PICK W \in [SUBSET D -> Expr] :
           /\ W[{}] = e
           /\ \A T \in SUBSET D : T # {} => \E x \in T : W[T] = RawSubstitution(W[T \ {x}], x, m[x])
           /\ Replaced(e, m) = W[D]
    BY ReplacedTable
  <1>2. /\ IsFiniteSet(D) /\ \A s \in D : s \in Signal \ {One} /\ m[s] \in Expr
                                         /\ DOMAIN m[s] \subseteq I \cup {One}
    <2>1. \A s \in D : s \in Signal \ {One} /\ m[s] \in Expr
      BY ReplacementsAre
    <2>2. IsFiniteSet(Signal)
      BY Numbers, FS_Interval DEF Signal
    <2>3. IsFiniteSet(D)
      <3> HIDE DEF D
      <3>1. D \in SUBSET Signal
        BY <2>1
      <3> QED  BY <2>2, <3>1, FS_Subset
    <2>4. \A s \in D : DOMAIN m[s] \subseteq I \cup {One}
      BY DEF Images
    <2> QED  BY <2>1, <2>3, <2>4
  <1> HIDE DEF I
  <1> DEFINE Good(c, T) == /\ DOMAIN c \subseteq {One} \cup (DOMAIN e \ T) \cup I
                           /\ \A v \in [Signal -> Field] : Satisfies(v, m) => Value(c, v) = Value(e, v)
             Q == {T \in SUBSET D : Good(W[T], T)}
  <1>3. ASSUME NEW T \in SUBSET D, \A x \in T : T \ {x} \in Q  PROVE  T \in Q
    <2>1. CASE T = {}
      BY <2>1, <1>1
    <2>2. CASE T # {}
      <3>1. PICK x \in T : W[T] = RawSubstitution(W[T \ {x}], x, m[x])
        BY <2>2, <1>1
      <3> DEFINE c == W[T \ {x}]
      <3>2. Good(c, T \ {x}) /\ c \in Expr /\ x \in D /\ x \in DOMAIN m
        BY <1>3
      <3>3. x \in Signal \ {One} /\ m[x] \in Expr /\ DOMAIN m[x] \subseteq I \cup {One}
        BY <3>2, <1>2
      <3> HIDE DEF c
      <3>4. /\ DOMAIN W[T] \subseteq {One} \cup (DOMAIN c \ {x}) \cup DOMAIN m[x]
            /\ \A v \in [Signal -> Field] :
                 v[x] = Value(m[x], v) => Value(W[T], v) = Value(c, v)
        <4> DEFINE y == m[x]
        <4>0. c \in Expr /\ y \in Expr /\ x \in Signal \ {One}
          BY <3>2, <3>3
        <4> HIDE DEF y
        <4>1. DOMAIN RawSubstitution(c, x, y) =
                 {One} \cup (DOMAIN c \ {x}) \cup (IF x \in DOMAIN c THEN DOMAIN y ELSE {})
          BY <4>0, RawIs
        <4>2. \A v \in [Signal -> Field] :
                 v[x] = Value(y, v) => Value(RawSubstitution(c, x, y), v) = Value(c, v)
          <5>1. ASSUME NEW v \in [Signal -> Field], v[x] = Value(y, v)
                PROVE  Value(RawSubstitution(c, x, y), v) = Value(c, v)
            BY <4>0, <5>1, RawKeeps
          <5> QED  BY <5>1
        <4> QED  BY <4>1, <4>2, <3>1 DEF c, y
      <3>5. DOMAIN W[T] \subseteq {One} \cup (DOMAIN e \ T) \cup I
        BY <3>2, <3>3, <3>4
      <3>6. \A v \in [Signal -> Field] : Satisfies(v, m) => Value(W[T], v) = Value(e, v)
        BY <3>2, <3>4 DEF Satisfies
      <3> QED  BY <3>5, <3>6
    <2> QED  BY <2>1, <2>2
  <1> HIDE DEF Q, D
  <1>4. \A T \in SUBSET D : T \in Q
    BY <1>2, <1>3, SubsetsInduct
  <1>5. Good(W[D], D)
    BY <1>4 DEF Q
  <1>6. DOMAIN e \ D = DOMAIN e \ DOMAIN m
    BY DEF D
  <1>9. W[D] \in Expr
    BY <1>1
  <1> QED  BY <1>1, <1>5, <1>6, <1>9 DEF D, I

-----------------------------------------------------------------------------
(* Renamed signals, and substitutions that leave a constraint tidy *)

\* The one signal of an expression, renamed.
LEMMA RenamedOne ==
    ASSUME NEW e \in Clean, NEW s \in Signal \ {One}, s \in DOMAIN e, DOMAIN e \subseteq {One, s},
           NEW r \in Signal \ {One}
    PROVE  r \in DOMAIN NonZero(RawSubstitution(e, s, Only(r, 1)))
           /\ DOMAIN NonZero(RawSubstitution(e, s, Only(r, 1))) \subseteq {One, r}
  <1> DEFINE to == Only(r, 1)
             w == WithConstant(e)
             u == WithConstant(to)
             k == w[s]
             t == Times(k, u)
             x == Without(w, s)
             g == Plus(t, x)
  <1>0. r \in Signal /\ 1 \in Field
    BY Numbers
  <1>1. e \in Expr /\ e[s] \in 1..P - 1
    BY CleanIs
  <1>2. /\ w \in Expr /\ DOMAIN w = {One, s}
        /\ \A n : Coefficient(w, n) = Coefficient(e, n)
    BY <1>1, WithConstantIs
  <1>3. to \in Expr /\ DOMAIN to = {r} /\ Coefficient(to, r) = 1
    <2>1. to \in Expr /\ DOMAIN to = {r}
      <3>1. \E v : v \in [Signal -> Field]
        <4>1. [n \in Signal |-> 0] \in [Signal -> Field]
          BY Numbers
        <4> QED  BY <4>1
      <3> QED  BY <1>0, <3>1, ValueOfOnly
    <2> QED  BY <2>1 DEF Only, Coefficient
  <1>4. /\ u \in Expr /\ DOMAIN u = {One, r} /\ Coefficient(u, r) = 1
    BY <1>3, WithConstantIs
  <1>5. RawSubstitution(e, s, to) = g
    BY <1>2 DEF RawSubstitution
  <1>6. k = e[s] /\ k \in 1..P - 1 /\ k \in Int
    <2>1. Coefficient(w, s) = Coefficient(e, s)
      BY <1>2
    <2> HIDE DEF w
    <2>2. w[s] = e[s]
      BY <2>1, <1>2 DEF Coefficient
    <2> QED  BY <2>2, <1>1, Numbers
  <1> HIDE DEF k, w, u, to
  <1>7. /\ t \in Expr /\ DOMAIN t = {One, r}
        /\ Same(Coefficient(t, r), k * Coefficient(u, r))
    BY <1>0, <1>4, <1>6, TimesIs
  <1>8. x \in Expr /\ DOMAIN x = {One}
    BY <1>2, WithoutIs
  <1> HIDE DEF t, x
  <1>9. /\ g \in Expr /\ DOMAIN g = {One, r}
        /\ Same(Coefficient(g, r), Coefficient(t, r) + Coefficient(x, r))
    <2>1. /\ g \in Expr /\ DOMAIN g = DOMAIN t \cup DOMAIN x
          /\ \A n \in Signal : Same(Coefficient(g, n), Coefficient(t, n) + Coefficient(x, n))
      BY <1>7, <1>8, PlusIs
    <2> HIDE DEF g
    <2> QED  BY <1>0, <1>7, <1>8, <2>1
  <1>10. Same(Coefficient(g, r), k)
    <2>1. Coefficient(x, r) = 0 /\ Coefficient(t, r) \in Int
      BY <1>8, <1>7, ExprIs DEF Coefficient
    <2>2. Coefficient(t, r) + Coefficient(x, r) = Coefficient(t, r)
      BY <2>1
    <2>3. k * Coefficient(u, r) = k
      BY <1>4, <1>6
    <2>4. Same(Coefficient(g, r), Coefficient(t, r)) /\ Same(Coefficient(t, r), k)
      BY <1>9, <1>7, <2>2, <2>3
    <2> QED  BY <2>4, SameTrans
  <1> HIDE DEF g
  <1>11. g[r] # 0
    <2>1. Coefficient(g, r) = g[r] /\ g[r] \in Field
      BY <1>9, ExprIs DEF Coefficient
    <2>2. k \in Field
      BY <1>6, Numbers DEF Field
    <2>3. g[r] = k
      BY <2>1, <2>2, <1>10, SameInField
    <2> QED  BY <2>3, <1>6
  <1>12. /\ DOMAIN NonZero(g) = {n \in DOMAIN g : g[n] # 0}
    BY <1>9, NonZeroIs
  <1> QED  BY <1>5, <1>9, <1>11, <1>12 DEF to

\* Applying a substitution to a linear constraint, and tidying it
LEMMA TidyIs ==
    ASSUME NEW con \in CleanLinear, NEW m \in Replacements
    PROVE  /\ SubstitutedAndFixed(con, m) \in CleanLinear
           /\ SignalsOf(SubstitutedAndFixed(con, m)) \subseteq
                 (SignalsOf(con) \ DOMAIN m) \cup Images(m, SignalsOf(con))
           /\ \A v \in Valuations :
                 Satisfies(v, m) => (Holds(SubstitutedAndFixed(con, m), v) <=> Holds(con, v))
           /\ SignalsOf(con) \cap DOMAIN m = {} => SubstitutedAndFixed(con, m) = con
  <1> DEFINE f == FastSubstitution(con, m)
  <1>1. con \in Con /\ Plain(con)
    BY ConIs, PlainIs
  <1>2. /\ f \in Con /\ Plain(f)
        /\ SignalsOf(f) \subseteq (SignalsOf(con) \ DOMAIN m) \cup Images(m, SignalsOf(con))
        /\ \A v \in [Signal -> Field] : Satisfies(v, m) => (Holds(f, v) <=> Holds(con, v))
    BY <1>1, FastIs
  <1> HIDE DEF f
  <1>3. CASE Touches(m, con)
    <2>1. SubstitutedAndFixed(con, m) = Fixed(f) /\ SignalsOf(con) \cap DOMAIN m # {}
      BY <1>3 DEF SubstitutedAndFixed, Touches, f
    <2>2. Fixed(f) \in CleanLinear
      BY <1>2, PlainIs
    <2>3. /\ SignalsOf(Fixed(f)) \subseteq SignalsOf(f)
          /\ \A v \in Valuations : Holds(Fixed(f), v) <=> Holds(f, v)
      BY <1>2, FixedIs
    <2>4. \A v \in Valuations : v \in [Signal -> Field]
      BY DEF Valuations
    <2> QED  BY <1>2, <2>1, <2>2, <2>3, <2>4
  <1>4. CASE ~Touches(m, con)
    <2>1. SubstitutedAndFixed(con, m) = con /\ SignalsOf(con) \cap DOMAIN m = {}
      BY <1>4 DEF SubstitutedAndFixed, Touches
    <2> QED  BY <2>1
  <1> QED  BY <1>3, <1>4

\* A constraint with one signal keeps one when signals are renamed.
LEMMA RenamedConstraint ==
    ASSUME NEW con \in OneSignal, NEW m \in Replacements,
           \A s \in DOMAIN m : \E r \in Signal \ {One} : m[s] = Only(r, 1)
    PROVE  SubstitutedAndFixed(con, m) \in OneSignal
  <1>1. PICK s \in Signal \ {One} : con \in CleanLinear /\ SignalsOf(con) = {s}
    BY DEF OneSignal
  <1>2. con \in Con /\ Plain(con)
    BY <1>1, ConIs, PlainIs
  <1>3. CASE s \in DOMAIN m
    <2>1. PICK r \in Signal \ {One} : m[s] = Only(r, 1)
      BY <1>3
    <2> DEFINE f == Substituted(con, s, m[s])
    <2>2. SubstitutedAndFixed(con, m) = Fixed(f)
      <3>1. SignalsOf(con) \cap DOMAIN m = {s}
        BY <1>1, <1>3
      <3>2. FastSubstitution(con, m) = f
        BY <3>1, <1>2, FastIs
      <3> QED  BY <3>1, <3>2 DEF SubstitutedAndFixed, Touches
    <2>3. m[s] \in Expr
      BY <1>3, ReplacementsAre
    <2>4. Plain(f) /\ f.c = RawSubstitution(con.c, s, Only(r, 1))
      <3>1. f.c = RawSubstitution(con.c, s, Only(r, 1))
        BY <2>1 DEF Substituted
      <3> QED  BY <3>1, <2>3, <1>1, <1>2, PlainIs
    <2> HIDE DEF f
    <2>5. Fixed(f) \in CleanLinear /\ Fixed(f) = LinearConstraint(NonZero(f.c))
      BY <2>4, PlainIs
    <2>6. con.c \in Clean /\ s \in DOMAIN con.c /\ DOMAIN con.c \subseteq {One, s}
      <3>1. con \in Linear
        BY <1>1, ConIs
      <3>2. SignalsOf(con) = DOMAIN con.c \ {One}
        BY <3>1, ConIs
      <3> QED  BY <3>2, <1>1 DEF CleanLinear
    <2>7. r \in DOMAIN NonZero(f.c) /\ DOMAIN NonZero(f.c) \subseteq {One, r}
      BY <2>4, <2>6, <1>1, RenamedOne
    <2>8. SignalsOf(Fixed(f)) = {r}
      <3>1. Fixed(f).c = NonZero(f.c) /\ Fixed(f) \in Linear
        BY <2>5, ConIs DEF LinearConstraint
      <3>2. SignalsOf(Fixed(f)) = DOMAIN Fixed(f).c \ {One}
        BY <3>1, ConIs
      <3> QED  BY <3>1, <3>2, <2>7
    <2> QED  BY <2>2, <2>5, <2>8 DEF OneSignal
  <1>4. CASE s \notin DOMAIN m
    <2>1. SubstitutedAndFixed(con, m) = con
      BY <1>1, <1>4 DEF SubstitutedAndFixed, Touches
    <2> QED  BY <2>1
  <1> QED  BY <1>3, <1>4

-----------------------------------------------------------------------------
(* Sequences *)

\* The first numbers, as a fold from the left takes them
LEMMA FirstOnes ==
    ASSUME NEW n \in Nat, NEW k \in 1..n
    PROVE  /\ Max(1..k) = k /\ (1..k) \ {k} = 1..k - 1
           /\ 1..k \in SUBSET (1..n) /\ 1..k # {} /\ 1..k - 1 \in SUBSET (1..n)
  <1>1. Max(1..k) \in 1..k /\ \A s \in 1..k : s <= Max(1..k)
    <2>1. 1..k \in SUBSET (0..n) /\ 1..k # {}
      OBVIOUS
    <2> QED  BY <2>1, Bounds
  <1>2. k \in 1..k
    OBVIOUS
  <1> QED  BY <1>1, <1>2

HasLeft(n, D, base, op) ==
    \E W \in [SUBSET (1..n) -> D] : \A T \in SUBSET (1..n) :
       W[T] = IF T = {} THEN base ELSE op[<<Max(T), W[T \ {Max(T)}]>>]
HasTable(n, D, base, op) ==
    \E f \in [0..n -> D] : f[0] = base /\ \A i \in 1..n : f[i] = op[<<i, f[i - 1]>>]

\* The equation of a fold from the left has a solution.
LEMMA LeftExists ==
    ASSUME NEW n \in Nat, NEW D, NEW base \in D, NEW op \in [(1..n) \X D -> D]
    PROVE  HasLeft(n, D, base, op)
  <1> DEFINE S == 1..n
             pick == [T \in SUBSET S |-> Max(T)]
  <1>1. IsFiniteSet(S)
    BY FS_Interval
  <1>2. \A T \in SUBSET S : T # {} => pick[T] \in T
    <2> SUFFICES ASSUME NEW T \in SUBSET S, T # {}  PROVE  Max(T) \in T
      OBVIOUS
    <2>1. T \in SUBSET (0..n)
      OBVIOUS
    <2> QED  BY <2>1, Bounds
  <1>3. \A T \in SUBSET S : pick[T] = Max(T)
    OBVIOUS
  <1> HIDE DEF pick, S
  <1>4. op \in [S \X D -> D]
    BY DEF S
  <1>5. HasFold(S, D, base, op, pick)
    BY <1>1, <1>2, <1>4, FoldExists, Zenon
  <1>6. PICK W \in [SUBSET S -> D] : FoldTable(S, base, op, pick, W)
    BY <1>5 DEF HasFold
  <1>7. \A T \in SUBSET S : W[T] = IF T = {} THEN base ELSE op[<<Max(T), W[T \ {Max(T)}]>>]
    BY <1>6, <1>3 DEF FoldTable
  <1> QED  BY <1>7 DEF S, HasLeft

\* So has the definition of a function on the numbers up to n by recursion.
LEMMA TableExists ==
    ASSUME NEW n \in Nat, NEW D, NEW base \in D, NEW op \in [(1..n) \X D -> D]
    PROVE  HasTable(n, D, base, op)
  <1>1. PICK W \in [SUBSET (1..n) -> D] : \A T \in SUBSET (1..n) :
              W[T] = IF T = {} THEN base ELSE op[<<Max(T), W[T \ {Max(T)}]>>]
    <2>1. HasLeft(n, D, base, op)
      BY LeftExists, Zenon
    <2> QED  BY <2>1 DEF HasLeft
  <1> DEFINE f == [i \in 0..n |-> W[1..i]]
  <1>2. f \in [0..n -> D]
    <2>1. \A i \in 0..n : 1..i \in SUBSET (1..n)
      OBVIOUS
    <2>2. \A T \in SUBSET (1..n) : W[T] \in D
      OBVIOUS
    <2> QED  BY <2>1, <2>2
  <1>3. f[0] = base
    <2>1. 1..0 = {} /\ 1..0 \in SUBSET (1..n)
      OBVIOUS
    <2>2. W[1..0] = base
      BY <1>1, <2>1
    <2> QED  BY <2>2
  <1>4. ASSUME NEW i \in 1..n  PROVE  f[i] = op[<<i, f[i - 1]>>]
    <2>1. /\ Max(1..i) = i /\ (1..i) \ {i} = 1..i - 1
          /\ 1..i \in SUBSET (1..n) /\ 1..i # {}
      BY FirstOnes
    <2>2. W[1..i] = op[<<i, W[1..i - 1]>>]
      BY <1>1, <2>1
    <2>3. f[i] = W[1..i] /\ f[i - 1] = W[1..i - 1]
      OBVIOUS
    <2> QED  BY <2>2, <2>3
  <1> HIDE DEF f
  <1> QED  BY <1>2, <1>3, <1>4 DEF HasTable

\* The elements of cs at the positions ids
LEMMA AtIs ==
    ASSUME NEW S, NEW cs \in Seq(S), NEW ids
    PROVE  /\ At(cs, ids) \in Seq(S)
           /\ \A i \in DOMAIN At(cs, ids) : \E j \in ids \cap DOMAIN cs : At(cs, ids)[i] = cs[j]
           /\ \A j \in ids \cap DOMAIN cs : \E i \in DOMAIN At(cs, ids) : At(cs, ids)[i] = cs[j]
  <1> DEFINE n == Len(cs)
             op == [p \in (1..n) \X Seq(S) |-> IF p[1] \in ids THEN Append(p[2], cs[p[1]]) ELSE p[2]]
             Steps(f) == f = [i \in 0..n |-> IF i = 0 THEN <<>>
                                             ELSE IF i \in ids THEN Append(f[i - 1], cs[i])
                                             ELSE f[i - 1]]
             those == CHOOSE f : Steps(f)
  <1>1. n \in Nat /\ DOMAIN cs = 1..n /\ \A i \in 1..n : cs[i] \in S
    OBVIOUS
  <1>2. \E f : Steps(f)
    <2>1. op \in [(1..n) \X Seq(S) -> Seq(S)]
      <3>1. \A p \in (1..n) \X Seq(S) :
               (IF p[1] \in ids THEN Append(p[2], cs[p[1]]) ELSE p[2]) \in Seq(S)
        BY <1>1
      <3> QED  BY <3>1
    <2>2. <<>> \in Seq(S)
      OBVIOUS
    <2>3. \A i \in 1..n, s \in Seq(S) : op[<<i, s>>] = IF i \in ids THEN Append(s, cs[i]) ELSE s
      OBVIOUS
    <2> HIDE DEF op, n
    <2>4. PICK f \in [0..n -> Seq(S)] : f[0] = <<>> /\ \A i \in 1..n : f[i] = op[<<i, f[i - 1]>>]
      <3>1. n \in Nat
        BY <1>1
      <3>2. HasTable(n, Seq(S), <<>>, op)
        BY <3>1, <2>1, <2>2, TableExists, Zenon
      <3> QED  BY <3>2 DEF HasTable
    <2>5. \A i \in 1..n : f[i] = IF i \in ids THEN Append(f[i - 1], cs[i]) ELSE f[i - 1]
      <3> TAKE i \in 1..n
      <3>1. f[i - 1] \in Seq(S)
        BY <1>1
      <3> QED  BY <3>1, <2>3, <2>4
    <2>6. f = [i \in 0..n |-> IF i = 0 THEN <<>>
                              ELSE IF i \in ids THEN Append(f[i - 1], cs[i]) ELSE f[i - 1]]
      <3>1. ASSUME NEW i \in 0..n
            PROVE  f[i] = IF i = 0 THEN <<>>
                          ELSE IF i \in ids THEN Append(f[i - 1], cs[i]) ELSE f[i - 1]
        <4>1. CASE i = 0
          BY <4>1, <2>4
        <4>2. CASE i # 0
          <5>1. i \in 1..n
            BY <1>1, <4>2
          <5> QED  BY <5>1, <4>2, <2>5
        <4> QED  BY <4>1, <4>2
      <3> QED  BY <3>1
    <2> QED  BY <2>6
  <1>3. Steps(those)
    BY <1>2
  <1>4. At(cs, ids) = those[n]
    BY DEF At
  <1>5. /\ those[0] = <<>>
        /\ \A i \in 1..n : those[i] = IF i \in ids THEN Append(those[i - 1], cs[i])
                                      ELSE those[i - 1]
    <2> HIDE DEF those, n
    <2>1. 0 \in 0..n /\ \A i \in 1..n : i \in 0..n /\ i # 0
      BY <1>1
    <2>2. \A i \in 0..n : those[i] = IF i = 0 THEN <<>>
                              ELSE IF i \in ids THEN Append(those[i - 1], cs[i]) ELSE those[i - 1]
      BY <1>3
    <2> QED  BY <2>1, <2>2
  <1> HIDE DEF those, n
  <1> DEFINE Good(k, s) == /\ s \in Seq(S)
                           /\ \A i \in DOMAIN s : \E j \in ids \cap 1..k : s[i] = cs[j]
                           /\ \A j \in ids \cap 1..k : \E i \in DOMAIN s : s[i] = cs[j]
             Q == {k \in 0..n : Good(k, those[k])}
  <1>6. 0 \in Q
    <2>1. Good(0, <<>>) /\ 0 \in 0..n
      BY <1>1
    <2> QED  BY <2>1, <1>5
  <1>7. ASSUME NEW k \in 0..n - 1, k \in Q  PROVE  k + 1 \in Q
    <2>1. Good(k, those[k]) /\ k \in Nat /\ k + 1 \in 1..n /\ k + 1 \in 0..n
      BY <1>1, <1>7
    <2>2. 1..k + 1 = (1..k) \cup {k + 1}
      BY <2>1
    <2> DEFINE s == those[k]
               t == those[k + 1]
    <2>3. t = IF k + 1 \in ids THEN Append(s, cs[k + 1]) ELSE s
      BY <2>1, <1>5
    <2>4. s \in Seq(S) /\ cs[k + 1] \in S
      BY <2>1, <1>1
    <2>5. CASE k + 1 \in ids
      <3>0. t = Append(s, cs[k + 1])
        BY <2>3, <2>5
      <3> HIDE DEF s, t
      <3>1. t \in Seq(S) /\ DOMAIN t = (DOMAIN s) \cup {Len(s) + 1}
            /\ t[Len(s) + 1] = cs[k + 1] /\ \A i \in DOMAIN s : t[i] = s[i]
        BY <2>4, <3>0
      <3>2. /\ \A i \in DOMAIN s : \E j \in ids \cap 1..k : s[i] = cs[j]
            /\ \A j \in ids \cap 1..k : \E i \in DOMAIN s : s[i] = cs[j]
        BY <2>1 DEF s
      <3>3. Good(k + 1, t)
        BY <3>1, <3>2, <2>2, <2>5
      <3> QED  BY <3>3, <2>1 DEF t
    <2>6. CASE k + 1 \notin ids
      <3>1. t = s /\ ids \cap 1..k + 1 = ids \cap 1..k
        BY <2>3, <2>6, <2>2
      <3>2. Good(k + 1, t)
        BY <3>1, <2>1
      <3> QED  BY <3>2, <2>1
    <2> QED  BY <2>5, <2>6
  <1> HIDE DEF Q
  <1>8. n \in Q
    BY <1>1, <1>6, <1>7, F!UpToInduct
  <1> QED  BY <1>1, <1>4, <1>8 DEF Q

\* A function on the positions of a sequence is a sequence.
LEMMA EachIs ==
    ASSUME NEW S, NEW T, NEW cs \in Seq(T), NEW f, f \in [DOMAIN cs -> S]
    PROVE  /\ <<>> \o f = f /\ f \in Seq(S) /\ DOMAIN f = DOMAIN cs
           /\ Len(f) = Len(cs)
  <1>1. DOMAIN cs = 1..Len(cs) /\ Len(cs) \in Nat
    OBVIOUS
  <1>2. f \in Seq(S)
    BY <1>1
  <1> QED  BY <1>1, <1>2

\* An injective enumeration of a finite set, as a sequence, has it whole.
LEMMA EnumerationIs ==
    ASSUME NEW S, IsFiniteSet(S), NEW q \in [1..Cardinality(S) -> S], IsInjective(q)
    PROVE  /\ q \in Seq(S) /\ Len(q) = Cardinality(S) /\ Cardinality(S) \in Nat
           /\ DOMAIN q = 1..Cardinality(S)
           /\ \A i \in DOMAIN q : q[i] \in S
           /\ \A s \in S : \E i \in DOMAIN q : q[i] = s
           /\ \A i, j \in DOMAIN q : q[i] = q[j] => i = j
  <1> DEFINE n == Cardinality(S)
  <1>1. n \in Nat
    BY FS_CardinalityType
  <1>2. IsFiniteSet(1..n) /\ Cardinality(1..n) = n
    <2> HIDE DEF n
    <2>1. Cardinality(1..n) = IF 1 > n THEN 0 ELSE n - 1 + 1
      BY <1>1, FS_Interval
    <2> QED  BY <1>1, <2>1, FS_Interval
  <1>3. q \in Injection(1..n, S)
    BY DEF Injection
  <1>4. q \in Surjection(1..n, S)
    <2> HIDE DEF n
    <2> QED  BY <1>2, <1>3, FS_Injection DEF n
  <1>5. q \in Seq(S) /\ Len(q) = n /\ DOMAIN q = 1..n
    <2>1. q \in [1..n -> S]
      OBVIOUS
    <2> HIDE DEF n
    <2> QED  BY <1>1, <2>1
  <1>6. \A s \in S : \E i \in 1..n : q[i] = s
    BY <1>4 DEF Surjection
  <1>7. \A i, j \in DOMAIN q : q[i] = q[j] => i = j
    BY DEF IsInjective
  <1> QED  BY <1>1, <1>5, <1>6, <1>7

\* Every set of signals is finite.
LEMMA SignalSets ==
    ASSUME NEW S \in SUBSET Signal
    PROVE  IsFiniteSet(S) /\ Cardinality(S) \in Nat
  <1>1. IsFiniteSet(Signal)
    BY Numbers, FS_Interval DEF Signal
  <1>2. IsFiniteSet(S)
    BY <1>1, FS_Subset
  <1> QED  BY <1>2, FS_CardinalityType

\* A finite set as a sequence: each of its elements, once.
LEMMA SetToSeqIs ==
    ASSUME NEW S, IsFiniteSet(S)
    PROVE  /\ SetToSeq(S) \in Seq(S)
           /\ \A i \in DOMAIN SetToSeq(S) : SetToSeq(S)[i] \in S
           /\ \A s \in S : \E i \in DOMAIN SetToSeq(S) : SetToSeq(S)[i] = s
           /\ \A i, j \in DOMAIN SetToSeq(S) : SetToSeq(S)[i] = SetToSeq(S)[j] => i = j
  <1>1. \E f \in [1..Cardinality(S) -> S] : IsInjective(f)
    <2>1. ExistsBijection(1..Cardinality(S), S)
      BY FS_CardinalityType
    <2> QED  BY <2>1 DEF ExistsBijection, Bijection, Injection
  <1>2. SetToSeq(S) \in [1..Cardinality(S) -> S] /\ IsInjective(SetToSeq(S))
    BY <1>1 DEF SetToSeq
  <1> HIDE DEF SetToSeq
  <1> QED  BY <1>2, EnumerationIs

\* The signals of a set in ascending order
LEMMA AscendingIs ==
    ASSUME NEW S \in SUBSET Signal
    PROVE  /\ Ascending(S) \in Seq(S)
           /\ \A i \in DOMAIN Ascending(S) : Ascending(S)[i] \in S
           /\ \A s \in S : \E i \in DOMAIN Ascending(S) : Ascending(S)[i] = s
           /\ \A i, j \in DOMAIN Ascending(S) : i < j => Ascending(S)[i] < Ascending(S)[j]
  <1> DEFINE Up(q) == \A i, j \in DOMAIN q : i < j => q[i] < q[j]
             Q == {T \in SUBSET S : \E q \in [1..Cardinality(T) -> T] : Up(q)}
  <1>0. IsFiniteSet(S) /\ \A T \in SUBSET S : IsFiniteSet(T) /\ Cardinality(T) \in Nat
    BY SignalSets
  <1>1. ASSUME NEW T \in SUBSET S, \A x \in T : T \ {x} \in Q  PROVE  T \in Q
    <2>1. CASE T = {}
      <3>1. <<>> \in [1..Cardinality(T) -> T] /\ Up(<<>>)
        <4>1. Cardinality(T) = 0
          BY <2>1, FS_EmptySet
        <4>2. 1..0 = {}
          OBVIOUS
        <4> QED  BY <4>1, <4>2, <2>1
      <3> QED  BY <3>1
    <2>2. CASE T # {}
      <3> DEFINE m == Max(T)
                 U == T \ {m}
                 n == Cardinality(T)
      <3>1. m \in T /\ \A s \in T : s <= m
        <4>1. NoLabels - 1 \in Nat /\ T \in SUBSET (0..NoLabels - 1)
          BY Numbers DEF Signal
        <4> QED  BY <4>1, <2>2, Bounds
      <3>1a. \A s \in T : s \in Nat
        BY Numbers
      <3> HIDE DEF m
      <3>2. PICK q \in [1..Cardinality(U) -> U] : Up(q)
        BY <3>1, <1>1
      <3>3. n \in Nat /\ n # 0 /\ Cardinality(U) = n - 1
        <4>1. IsFiniteSet(T)
          BY <1>0
        <4>2. Cardinality(U) = n - 1 /\ n \in Nat /\ Cardinality(U) \in Nat
          BY <4>1, <3>1, <1>0, FS_RemoveElement
        <4> QED  BY <4>2
      <3> DEFINE p == [i \in 1..n |-> IF i = n THEN m ELSE q[i]]
      <3> HIDE DEF n
      <3>4. /\ p \in [1..n -> T]
            /\ \A i \in 1..n - 1 : q[i] \in T /\ q[i] # m
        <4>1. \A i \in 1..n - 1 : q[i] \in T /\ q[i] # m
          BY <3>2, <3>3
        <4>2. \A i \in 1..n : i # n => i \in 1..n - 1
          BY <3>3
        <4> QED  BY <3>1, <4>1, <4>2
      <3>5. ASSUME NEW i \in 1..n, NEW j \in 1..n, i < j  PROVE  p[i] < p[j]
        <4>1. i \in 1..n - 1 /\ p[i] = q[i]
          BY <3>3, <3>5
        <4>2. CASE j = n
          <5>1. p[j] = m /\ q[i] <= m /\ q[i] # m /\ q[i] \in Nat /\ m \in Nat
            BY <4>1, <4>2, <3>1, <3>1a, <3>4
          <5> QED  BY <5>1, <4>1
        <4>3. CASE j # n
          <5>1. j \in 1..n - 1 /\ p[j] = q[j]
            BY <4>3, <3>3
          <5> QED  BY <4>1, <5>1, <3>2, <3>3, <3>5
        <4> QED  BY <4>2, <4>3
      <3>6. Up(p)
        BY <3>5
      <3> QED  BY <3>4, <3>6 DEF n
    <2> QED  BY <2>1, <2>2
  <1> HIDE DEF Q
  <1>2. S \in Q
    BY <1>0, <1>1, SubsetsInduct
  <1>3. \E q \in [1..Cardinality(S) -> S] : Up(q)
    BY <1>2 DEF Q
  <1> DEFINE q == Ascending(S)
  <1>4. q \in [1..Cardinality(S) -> S] /\ Up(q)
    BY <1>3 DEF Ascending
  <1> HIDE DEF q
  <1>5. IsInjective(q)
    <2> SUFFICES ASSUME NEW a \in DOMAIN q, NEW b \in DOMAIN q, q[a] = q[b]  PROVE  a = b
      BY DEF IsInjective
    <2>1. a \in Int /\ b \in Int /\ q[a] \in Int /\ q[b] \in Int
      <3>1. a \in 1..Cardinality(S) /\ b \in 1..Cardinality(S) /\ q[a] \in S /\ q[b] \in S
        BY <1>4
      <3>2. Cardinality(S) \in Nat
        BY SignalSets
      <3>3. \A s \in S : s \in Nat
        BY Numbers
      <3>4. \A n \in Nat : \A i \in 1..n : i \in Int
        OBVIOUS
      <3>5. q[a] \in Nat /\ q[b] \in Nat
        BY <3>1, <3>3
      <3>6. a \in Int /\ b \in Int
        BY <3>1, <3>2, <3>4
      <3> QED  BY <3>5, <3>6
    <2>2. ~(a < b) /\ ~(b < a)
      BY <1>4, <2>1
    <2> QED  BY <2>1, <2>2
  <1>6. /\ q \in Seq(S) /\ \A i \in DOMAIN q : q[i] \in S
        /\ \A s \in S : \E i \in DOMAIN q : q[i] = s
    BY <1>0, <1>4, <1>5, EnumerationIs
  <1> QED  BY <1>4, <1>6 DEF q

\* A sequence without one of its elements
LEMMA RemoveAtIs ==
    ASSUME NEW S, NEW q \in Seq(S), NEW k \in DOMAIN q
    PROVE  /\ RemoveAt(q, k) \in Seq(S)
           /\ \A i \in DOMAIN RemoveAt(q, k) : \E j \in DOMAIN q :
                 j # k /\ RemoveAt(q, k)[i] = q[j]
           /\ \A j \in DOMAIN q : j # k => \E i \in DOMAIN RemoveAt(q, k) : RemoveAt(q, k)[i] = q[j]
           /\ \A i, j \in DOMAIN RemoveAt(q, k) : i # j =>
                 \E l, m \in DOMAIN q : l # m /\ RemoveAt(q, k)[i] = q[l] /\ RemoveAt(q, k)[j] = q[m]
                                        /\ l # k /\ m # k
  <1> DEFINE r == RemoveAt(q, k)
             n == Len(q)
             At0(i) == IF i < k THEN i ELSE i + 1
  <1>1. n \in Nat /\ DOMAIN q = 1..n /\ k \in 1..n /\ \A i \in 1..n : q[i] \in S
    OBVIOUS
  <1>2. /\ r \in Seq(S) /\ DOMAIN r = 1..n - 1
        /\ \A i \in 1..n - 1 : r[i] = q[At0(i)]
    <2> DEFINE a == SubSeq(q, 1, k - 1)
               b == SubSeq(q, k + 1, n)
    <2>1. a \in Seq(S) /\ Len(a) = k - 1 /\ \A i \in 1..k - 1 : a[i] = q[i]
      BY <1>1
    <2>2. b \in Seq(S) /\ Len(b) = n - k /\ \A i \in 1..n - k : b[i] = q[k + i]
      <3>1. k + 1 \in Int /\ n \in Int /\ \A i \in k + 1..n : q[i] \in S
        BY <1>1
      <3> HIDE DEF n
      <3>2. /\ b \in Seq(S) /\ Len(b) = IF k + 1 <= n THEN n - (k + 1) + 1 ELSE 0
            /\ \A i \in 1..n - (k + 1) + 1 : b[i] = q[k + 1 + i - 1]
        <4> DEFINE m == k + 1
        <4>1. m \in Int /\ n \in Int /\ \A i \in m..n : q[i] \in S
          BY <3>1
        <4> HIDE DEF m
        <4>2. /\ SubSeq(q, m, n) \in Seq(S) /\ Len(SubSeq(q, m, n)) = IF m <= n THEN n - m + 1 ELSE 0
              /\ \A i \in 1..n - m + 1 : SubSeq(q, m, n)[i] = q[m + i - 1]
          BY <4>1, SubSeqProperties
        <4> QED  BY <4>2 DEF m
      <3>3. n - (k + 1) + 1 = n - k /\ (~(k + 1 <= n) => n - k = 0)
        BY <1>1
      <3>4. \A i \in 1..n - k : k + 1 + i - 1 = k + i
        BY <1>1
      <3> QED  BY <3>2, <3>3, <3>4
    <2>3. r = a \o b
      BY DEF RemoveAt
    <2> HIDE DEF a, b, n, r
    <2>4. r \in Seq(S) /\ Len(r) = n - 1
      <3>1. r \in Seq(S) /\ Len(r) = Len(a) + Len(b)
        BY <2>1, <2>2, <2>3, ConcatProperties
      <3> QED  BY <3>1, <2>1, <2>2, <1>1
    <2>5. ASSUME NEW i \in 1..n - 1  PROVE  r[i] = q[At0(i)]
      <3>1. r[i] = IF i <= k - 1 THEN a[i] ELSE b[i - (k - 1)]
        BY <2>1, <2>2, <2>3, <1>1
      <3>2. CASE i < k
        BY <3>1, <3>2, <2>1, <1>1
      <3>3. CASE ~(i < k)
        <4>1. i - (k - 1) \in 1..n - k /\ k + (i - (k - 1)) = i + 1 /\ ~(i <= k - 1)
          BY <3>3, <1>1
        <4>2. r[i] = b[i - (k - 1)]
          BY <3>1, <4>1
        <4>3. b[i - (k - 1)] = q[i + 1]
          BY <2>2, <4>1
        <4> QED  BY <3>3, <4>2, <4>3
      <3> QED  BY <3>2, <3>3
    <2> QED  BY <2>4, <2>5, <1>1
  <1> HIDE DEF r, n
  <1>3. \A i \in 1..n - 1 : At0(i) \in DOMAIN q /\ At0(i) # k
    BY <1>1
  <1>4. ASSUME NEW j \in DOMAIN q, j # k  PROVE  \E i \in DOMAIN r : r[i] = q[j]
    <2> DEFINE i == IF j < k THEN j ELSE j - 1
    <2>1. i \in 1..n - 1 /\ At0(i) = j
      BY <1>1, <1>4
    <2> QED  BY <2>1, <1>2
  <1>5. \A i, j \in 1..n - 1 : i # j => At0(i) # At0(j)
    BY <1>1
  <1>6. ASSUME NEW i \in DOMAIN r, NEW j \in DOMAIN r, i # j
        PROVE  \E l, m \in DOMAIN q : l # m /\ r[i] = q[l] /\ r[j] = q[m] /\ l # k /\ m # k
    <2>1. At0(i) \in DOMAIN q /\ At0(j) \in DOMAIN q /\ At0(i) # At0(j)
          /\ At0(i) # k /\ At0(j) # k /\ r[i] = q[At0(i)] /\ r[j] = q[At0(j)]
      BY <1>2, <1>3, <1>5, <1>6
    <2> HIDE DEF At0
    <2> QED  BY <2>1
  <1>7. \A i \in DOMAIN r : \E j \in DOMAIN q : j # k /\ r[i] = q[j]
    <2> HIDE DEF At0
    <2> QED  BY <1>2, <1>3
  <1> QED  BY <1>2, <1>4, <1>6, <1>7 DEF r

-----------------------------------------------------------------------------
(* Clusters *)

\* The signals of the constraints at some positions
SigsIn(cs, ids) == UNION {SignalsOf(cs[i]) : i \in ids}
\* What makes the signals of each constraint equal, makes all those of a cluster equal.
Connected(cs, cl) ==
    \A v \in [Signal -> Field] :
        (\A i \in cl : \A s, t \in SignalsOf(cs[i]) : v[s] = v[t]) =>
            \A s, t \in SigsIn(cs, cl) : v[s] = v[t]
\* cls are clusters of the constraints of cs at the positions ids.
AreClusters(cs, ids, cls) ==
    /\ \A cl \in cls : cl # {} /\ cl \subseteq ids /\ Connected(cs, cl)
    /\ \A c1, c2 \in cls : c1 # c2 => SigsIn(cs, c1) \cap SigsIn(cs, c2) = {}
    /\ \A i \in ids : cs[i] = EmptyConstraint \/ \E cl \in cls : i \in cl

\* A constraint joins the clusters that it has signals in common with (arena_merge),
LEMMA AddToClustersIs ==
    ASSUME NEW cs, NEW ids, NEW cls, AreClusters(cs, ids, cls), NEW i
    PROVE  AreClusters(cs, ids \cup {i}, AddToClusters(cs, cls, i))
  <1> DEFINE near == {cl \in cls : \E j \in cl : SignalsOf(cs[i]) \cap SignalsOf(cs[j]) # {}}
             new == {i} \cup UNION near
             res == (cls \ near) \cup {new}
  <1>1. CASE cs[i] = EmptyConstraint
    <2>1. AddToClusters(cs, cls, i) = cls
      BY <1>1 DEF AddToClusters
    <2> QED  BY <2>1, <1>1 DEF AreClusters
  <1>2. CASE cs[i] # EmptyConstraint
    <2>1. AddToClusters(cs, cls, i) = res
      BY <1>2 DEF AddToClusters
    <2>2. \A cl \in cls : cl # {} /\ cl \subseteq ids
      BY DEF AreClusters
    <2>3. new # {} /\ new \subseteq ids \cup {i}
      BY <2>2
    <2>4. \A s : s \in SigsIn(cs, new) <=>
                    s \in SignalsOf(cs[i]) \/ \E cl \in near : s \in SigsIn(cs, cl)
      BY DEF SigsIn
    <2>5. Connected(cs, new)
      <3> SUFFICES ASSUME NEW v \in [Signal -> Field],
                          \A j \in new : \A s, t \in SignalsOf(cs[j]) : v[s] = v[t],
                          NEW s \in SigsIn(cs, new), NEW t \in SigsIn(cs, new)
                   PROVE  v[s] = v[t]
        BY DEF Connected
      <3>1. \A x, y \in SignalsOf(cs[i]) : v[x] = v[y]
        OBVIOUS
      <3>2. ASSUME NEW cl \in near  PROVE  \A x, y \in SigsIn(cs, cl) : v[x] = v[y]
        <4>1. Connected(cs, cl)
          BY DEF AreClusters
        <4>2. \A j \in cl : \A x, y \in SignalsOf(cs[j]) : v[x] = v[y]
          OBVIOUS
        <4> QED  BY <4>1, <4>2 DEF Connected
      <3>3. \A cl \in near : \E u \in SignalsOf(cs[i]) : u \in SigsIn(cs, cl)
        BY DEF SigsIn
      <3>4. ASSUME NEW x \in SigsIn(cs, new)
            PROVE  \E u \in SignalsOf(cs[i]) : v[x] = v[u]
        <4>1. CASE x \in SignalsOf(cs[i])
          BY <4>1
        <4>2. CASE \E cl \in near : x \in SigsIn(cs, cl)
          <5>1. PICK cl \in near : x \in SigsIn(cs, cl)
            BY <4>2
          <5>2. PICK u \in SignalsOf(cs[i]) : u \in SigsIn(cs, cl)
            BY <3>3
          <5>3. v[x] = v[u]
            BY <3>2, <5>1, <5>2
          <5> QED  BY <5>3
        <4> QED  BY <2>4, <4>1, <4>2
      <3> QED  BY <3>1, <3>4
    <2>6. ASSUME NEW c1 \in res, NEW c2 \in res, c1 # c2
          PROVE  SigsIn(cs, c1) \cap SigsIn(cs, c2) = {}
      <3>1. ASSUME NEW cl \in cls \ near  PROVE  SigsIn(cs, cl) \cap SigsIn(cs, new) = {}
        <4>1. SigsIn(cs, cl) \cap SignalsOf(cs[i]) = {}
          BY DEF SigsIn
        <4>2. \A c \in near : SigsIn(cs, cl) \cap SigsIn(cs, c) = {}
          BY DEF AreClusters
        <4> QED  BY <4>1, <4>2, <2>4
      <3>2. CASE c1 \in cls /\ c2 \in cls
        BY <2>6, <3>2 DEF AreClusters
      <3> QED  BY <2>6, <3>1, <3>2
    <2>7. ASSUME NEW j \in ids \cup {i}
          PROVE  cs[j] = EmptyConstraint \/ \E cl \in res : j \in cl
      <3>1. CASE j = i
        BY <3>1
      <3>2. CASE j \in ids
        <4>1. cs[j] = EmptyConstraint \/ \E cl \in cls : j \in cl
          BY <3>2 DEF AreClusters
        <4>2. \A cl \in cls : cl \in near => cl \subseteq new
          OBVIOUS
        <4> QED  BY <4>1, <4>2
      <3> QED  BY <3>1, <3>2
    <2>8. \A cl \in res : cl # {} /\ cl \subseteq ids \cup {i} /\ Connected(cs, cl)
      <3>1. \A cl \in cls : cl # {} /\ cl \subseteq ids /\ Connected(cs, cl)
        BY DEF AreClusters
      <3> HIDE DEF near
      <3> QED  BY <2>3, <2>5, <3>1
    <2> HIDE DEF res
    <2> QED  BY <2>1, <2>6, <2>7, <2>8 DEF AreClusters
  <1> QED  BY <1>1, <1>2

\* and so all constraints are in clusters that have no signals in common (build_clusters).
LEMMA ClustersAre ==
    ASSUME NEW S, NEW cs \in Seq(S)
    PROVE  AreClusters(cs, DOMAIN cs, Clusters(cs))
  <1> DEFINE n == Len(cs)
             seq == [i \in DOMAIN cs |-> i]
             D == SUBSET SUBSET Nat
             op == [p \in (1..n) \X D |-> AddToClusters(cs, p[2], p[1])]
             Steps(X) == X = [T \in SUBSET DOMAIN seq |->
                                IF T = {} THEN {}
                                ELSE AddToClusters(cs, X[T \ {Max(T)}], seq[Max(T)])]
             X == CHOOSE Y : Steps(Y)
  <1>1. n \in Nat /\ DOMAIN cs = 1..n /\ DOMAIN seq = 1..n /\ \A i \in 1..n : seq[i] = i
    OBVIOUS
  <1>2. \A T \in SUBSET (1..n) : T # {} => Max(T) \in T
    <2> SUFFICES ASSUME NEW T \in SUBSET (1..n), T # {}  PROVE  Max(T) \in T
      OBVIOUS
    <2>1. T \in SUBSET (0..n) /\ n \in Nat
      BY <1>1
    <2> QED  BY <2>1, Bounds
  <1>3. \E Y : Steps(Y)
    <2>1. op \in [(1..n) \X D -> D]
      <3>1. \A i \in Nat, cls \in D : AddToClusters(cs, cls, i) \in D
        BY DEF AddToClusters
      <3>2. \A p \in (1..n) \X D : p[1] \in Nat /\ p[2] \in D
        BY <1>1
      <3> HIDE DEF D
      <3> QED  BY <3>1, <3>2
    <2>2. {} \in D
      OBVIOUS
    <2>3. \A i \in 1..n, cls \in D : op[<<i, cls>>] = AddToClusters(cs, cls, i)
      OBVIOUS
    <2> HIDE DEF op, n, D
    <2>4. HasLeft(n, D, {}, op)
      <3>1. n \in Nat
        BY <1>1
      <3> QED  BY <3>1, <2>1, <2>2, LeftExists, Zenon
    <2>5. PICK W \in [SUBSET (1..n) -> D] : \A T \in SUBSET (1..n) :
              W[T] = IF T = {} THEN {} ELSE op[<<Max(T), W[T \ {Max(T)}]>>]
      BY <2>4 DEF HasLeft
    <2>6. ASSUME NEW T \in SUBSET (1..n), T # {}
          PROVE  W[T] = AddToClusters(cs, W[T \ {Max(T)}], seq[Max(T)])
      <3>1. Max(T) \in 1..n /\ W[T \ {Max(T)}] \in D
        BY <1>2, <2>6
      <3>2. W[T] = op[<<Max(T), W[T \ {Max(T)}]>>] /\ seq[Max(T)] = Max(T)
        BY <2>5, <2>6, <3>1, <1>1
      <3> QED  BY <3>1, <3>2, <2>3
    <2>7. Steps(W)
      <3> HIDE DEF seq
      <3> QED  BY <1>1, <2>5, <2>6
    <2> QED  BY <2>7
  <1>4. Steps(X)
    BY <1>3
  <1>5. Clusters(cs) = X[DOMAIN seq]
    BY DEF Clusters, FoldLeftDomain, FoldLeft, MapThenFoldSet
  <1>6. X[{}] = {} /\ \A T \in SUBSET (1..n) : T # {} =>
               X[T] = AddToClusters(cs, X[T \ {Max(T)}], seq[Max(T)])
    <2> HIDE DEF X, seq
    <2> QED  BY <1>4, <1>1
  <1> HIDE DEF X
  <1>7. \A k \in 1..n : X[1..k] = AddToClusters(cs, X[1..k - 1], k)
    <2> TAKE k \in 1..n
    <2> HIDE DEF n, seq
    <2>1. n \in Nat
      BY <1>1
    <2>2. /\ Max(1..k) = k /\ (1..k) \ {k} = 1..k - 1
          /\ 1..k \in SUBSET (1..n) /\ 1..k # {}
      BY <2>1, FirstOnes
    <2> QED  BY <2>2, <1>6, <1>1
  <1> DEFINE Q == {k \in 0..n : AreClusters(cs, 1..k, X[1..k])}
  <1> HIDE DEF n, seq
  <1>8. 0 \in Q
    <2>1. 1..0 = {} /\ AreClusters(cs, {}, {})
      BY DEF AreClusters
    <2>2. 0 \in 0..n
      BY <1>1
    <2>3. AreClusters(cs, 1..0, X[1..0])
      BY <2>1, <1>6
    <2> QED  BY <2>2, <2>3
  <1>9. ASSUME NEW k \in 0..n - 1, k \in Q  PROVE  k + 1 \in Q
    <2>1. k \in Nat /\ k + 1 \in 1..n /\ k + 1 \in 0..n /\ k + 1 - 1 = k
          /\ 1..k + 1 = (1..k) \cup {k + 1}
      BY <1>1
    <2>2. X[1..k + 1] = AddToClusters(cs, X[1..k], k + 1)
      BY <1>7, <2>1
    <2>3. AreClusters(cs, 1..k, X[1..k])
      BY <1>9
    <2> DEFINE A == 1..k
               B == X[A]
               j == k + 1
    <2> HIDE DEF A, B, j
    <2>4. AreClusters(cs, A \cup {j}, AddToClusters(cs, B, j))
      <3>1. AreClusters(cs, A, B)
        BY <2>3 DEF A, B
      <3> QED  BY <3>1, AddToClustersIs
    <2> QED  BY <2>1, <2>2, <2>4 DEF A, B, j
  <1> HIDE DEF Q
  <1>10. n \in Q
    BY <1>1, <1>8, <1>9, F!UpToInduct
  <1> QED  BY <1>1, <1>5, <1>10 DEF Q

-----------------------------------------------------------------------------
(* Substitutions put together, and the definitions of a cluster made free  *)
(* of each other                                                           *)

\* Two sets of substitutions together.
LEMMA JoinIs ==
    ASSUME NEW f \in Replacements, NEW g \in Replacements
    PROVE  /\ f ++ g \in Replacements
           /\ DOMAIN (f ++ g) = DOMAIN f \cup DOMAIN g
           /\ \A s \in DOMAIN f : (f ++ g)[s] = f[s]
           /\ \A s \in DOMAIN g \ DOMAIN f : (f ++ g)[s] = g[s]
  <1> DEFINE r == f ++ g
  <1>1. DOMAIN r = DOMAIN f \cup DOMAIN g /\ r = [s \in DOMAIN r |-> r[s]]
    BY DEF ++
  <1>2. \A s \in DOMAIN f : r[s] = f[s]
    BY DEF ++
  <1>3. \A s \in DOMAIN g \ DOMAIN f : r[s] = g[s]
    BY DEF ++
  <1>4. \A s \in DOMAIN f : f[s] \in Expr
    BY ReplacementsAre
  <1>5. \A s \in DOMAIN g : g[s] \in Expr
    BY ReplacementsAre
  <1>6. DOMAIN f \in SUBSET (Signal \ {One}) /\ DOMAIN g \in SUBSET (Signal \ {One})
    BY ReplacementsAre
  <1> HIDE DEF r
  <1>7. \A s \in DOMAIN r : r[s] \in Expr
    BY <1>1, <1>2, <1>3, <1>4, <1>5
  <1>8. DOMAIN r \in SUBSET (Signal \ {One})
    BY <1>1, <1>6
  <1>9. r \in [DOMAIN r -> Expr]
    BY <1>1, <1>7
  <1> QED  BY <1>1, <1>2, <1>3, <1>8, <1>9 DEF Replacements, r

\* One substitution.
LEMMA OnlyIs ==
    ASSUME NEW s \in Signal \ {One}, NEW e \in Expr
    PROVE  Only(s, e) \in Replacements /\ DOMAIN Only(s, e) = {s} /\ Only(s, e)[s] = e
  <1>1. Only(s, e) \in [{s} -> Expr] /\ DOMAIN Only(s, e) = {s} /\ Only(s, e)[s] = e
    BY DEF Only
  <1>2. {s} \in SUBSET (Signal \ {One})
    OBVIOUS
  <1> QED  BY <1>1, <1>2 DEF Replacements

\* No substitutions.
LEMMA NoReplacements == <<>> \in Replacements /\ DOMAIN <<>> = {}
  <1>1. <<>> \in [{} -> Expr] /\ DOMAIN <<>> = {} /\ {} \in SUBSET (Signal \ {One})
    OBVIOUS
  <1> QED  BY <1>1 DEF Replacements

\* The definitions of the signals H by h, in the order q, can be made free of
\* each other: no definition has a signal that comes at its place or later.
Orderly(H, h, q) ==
    /\ H \in SUBSET (Signal \ {One}) /\ h \in [H -> Definition]
    /\ q \in Seq(H) /\ \A s \in H : \E i \in DOMAIN q : q[i] = s
    /\ \A i, j \in DOMAIN q : i < j => q[i] # q[j]
    /\ \A i, j \in DOMAIN q : i <= j => q[j] \notin DOMAIN h[q[i]].to

\* What they are when those of the signals G are: a substitution of G, by
\* signals outside of H.
Freed(H, h, G, m) ==
    /\ m \in Replacements /\ DOMAIN m = G
    /\ \A s \in G : /\ DOMAIN m[s] \cap H = {}
                    /\ DOMAIN m[s] \subseteq {One} \cup UNION {DOMAIN h[t].to : t \in G}
    /\ \A v \in [Signal -> Field] : (\A s \in G : Defines(v, s, h[s])) <=> Satisfies(v, m)

\* A definition is freed of the signals that have been freed before.
LEMMA FreedStep ==
    ASSUME NEW H \in SUBSET (Signal \ {One}), NEW h \in [H -> Definition],
           NEW G \in SUBSET H, NEW m, Freed(H, h, G, m),
           NEW s \in H \ G, DOMAIN h[s].to \cap H \subseteq G
    PROVE  Freed(H, h, G \cup {s}, Only(s, Replaced(Normal(h[s]), m)) ++ m)
  <1> DEFINE e == Normal(h[s])
             x == Replaced(e, m)
             r == Only(s, x) ++ m
  <1>0. /\ m \in Replacements /\ DOMAIN m = G
        /\ \A t \in G : /\ DOMAIN m[t] \cap H = {}
                        /\ DOMAIN m[t] \subseteq {One} \cup UNION {DOMAIN h[u].to : u \in G}
        /\ \A v \in [Signal -> Field] : (\A t \in G : Defines(v, t, h[t])) <=> Satisfies(v, m)
    BY DEF Freed
  <1>1. s \in Signal \ {One} /\ s \in Signal /\ h[s] \in Definition
    OBVIOUS
  <1>2. /\ e \in Expr /\ DOMAIN e = DOMAIN h[s].to
        /\ \A v \in [Signal -> Field] : Defines(v, s, h[s]) <=> v[s] = Value(e, v)
    BY <1>1, NormalIs
  <1> HIDE DEF e
  <1>3. /\ x \in Expr
        /\ DOMAIN x \subseteq {One} \cup (DOMAIN e \ DOMAIN m) \cup Images(m, DOMAIN e)
        /\ \A v \in [Signal -> Field] : Satisfies(v, m) => Value(x, v) = Value(e, v)
    BY <1>0, <1>2, ReplacedIs
  <1> HIDE DEF x
  <1>4. Only(s, x) \in Replacements /\ DOMAIN Only(s, x) = {s} /\ Only(s, x)[s] = x
    BY <1>1, <1>3, OnlyIs
  <1>5. /\ r \in Replacements /\ DOMAIN r = G \cup {s} /\ r[s] = x
        /\ \A t \in G : r[t] = m[t]
    <2> DEFINE o == Only(s, x)
    <2> HIDE DEF o
    <2>1. /\ o ++ m \in Replacements /\ DOMAIN (o ++ m) = DOMAIN o \cup DOMAIN m
          /\ \A t \in DOMAIN o : (o ++ m)[t] = o[t]
          /\ \A t \in DOMAIN m \ DOMAIN o : (o ++ m)[t] = m[t]
      <3>1. o \in Replacements
        BY <1>4 DEF o
      <3> QED  BY <3>1, <1>0, JoinIs
    <2> QED  BY <2>1, <1>0, <1>4 DEF o
  <1> HIDE DEF r
  <1>6. \A t \in Images(m, DOMAIN e) :
           t \notin H /\ t \in UNION {DOMAIN h[u].to : u \in G}
    <2>0. One \notin H
      OBVIOUS
    <2>1. ASSUME NEW t \in Images(m, DOMAIN e)
          PROVE  \E y \in G : t \in DOMAIN m[y] /\ t # One
      BY <2>1, <1>0 DEF Images
    <2> QED  BY <1>0, <2>1
  <1>7. \A t \in DOMAIN x : t \notin H /\ t \in {One} \cup UNION {DOMAIN h[u].to : u \in G \cup {s}}
    <2>1. ASSUME NEW t \in DOMAIN x
          PROVE  t = One \/ (t \in DOMAIN h[s].to /\ t \notin G) \/ t \in Images(m, DOMAIN e)
      BY <1>0, <1>2, <1>3
    <2>2. One \notin H
      OBVIOUS
    <2> QED  BY <2>1, <2>2, <1>6
  <1>8. \A t \in G \cup {s} : /\ DOMAIN r[t] \cap H = {}
                    /\ DOMAIN r[t] \subseteq {One} \cup UNION {DOMAIN h[u].to : u \in G \cup {s}}
    <2>1. \A t \in G : DOMAIN r[t] \cap H = {}
                    /\ DOMAIN r[t] \subseteq {One} \cup UNION {DOMAIN h[u].to : u \in G \cup {s}}
      BY <1>0, <1>5
    <2> QED  BY <2>1, <1>5, <1>7
  <1>9. ASSUME NEW v \in [Signal -> Field]
        PROVE  (\A t \in G \cup {s} : Defines(v, t, h[t])) <=> Satisfies(v, r)
    <2>1. Satisfies(v, r) <=> Satisfies(v, m) /\ v[s] = Value(x, v)
      BY <1>0, <1>5 DEF Satisfies
    <2>2. Satisfies(v, m) => Value(x, v) = Value(e, v)
      BY <1>3
    <2>3. (\A t \in G : Defines(v, t, h[t])) <=> Satisfies(v, m)
      BY <1>0
    <2>4. Defines(v, s, h[s]) <=> v[s] = Value(e, v)
      BY <1>2
    <2> QED  BY <2>1, <2>2, <2>3, <2>4
  <1> QED  BY <1>5, <1>8, <1>9 DEF Freed, r, x, e

\* The definitions of a cluster, each freed of the signals the others define
\* (create_nonoverlapping_substitutions), say together what they said before.
LEMMA NonOverlappingIs ==
    ASSUME NEW H, Orderly(H, job.holder, Order)
    PROVE  Freed(H, job.holder, H, NonOverlapping)
  <1> DEFINE q == Order
             h == job.holder
             n == Len(q)
             D == Replacements
             Put(s, m) == Only(s, Replaced(Normal(h[s]), m)) ++ m
             op == [p \in (1..n) \X D |-> Put(q[p[1]], p[2])]
             Steps(X) == X = [T \in SUBSET DOMAIN q |->
                                IF T = {} THEN <<>>
                                ELSE Only(q[Max(T)], Replaced(Normal(job.holder[q[Max(T)]]), X[T \ {Max(T)}]))
                                     ++ X[T \ {Max(T)}]]
             X == CHOOSE Y : Steps(Y)
  <1>0. /\ H \in SUBSET (Signal \ {One}) /\ h \in [H -> Definition] /\ q \in Seq(H)
        /\ \A s \in H : \E i \in DOMAIN q : q[i] = s
        /\ \A i, j \in DOMAIN q : i < j => q[i] # q[j]
        /\ \A i, j \in DOMAIN q : i <= j => q[j] \notin DOMAIN h[q[i]].to
    BY DEF Orderly
  <1>a. NonOverlapping = X[DOMAIN q]
    BY DEF NonOverlapping, FoldLeft, MapThenFoldSet
  <1>s. \A Y : Steps(Y) <=> Y = [T \in SUBSET DOMAIN q |->
                                IF T = {} THEN <<>> ELSE Put(q[Max(T)], Y[T \ {Max(T)}])]
    OBVIOUS
  <1> HIDE DEF q, h
  <1>1. n \in Nat /\ DOMAIN q = 1..n /\ \A i \in 1..n : q[i] \in H
    BY <1>0
  <1>2. \A T \in SUBSET (1..n) : T # {} => Max(T) \in T
    <2> SUFFICES ASSUME NEW T \in SUBSET (1..n), T # {}  PROVE  Max(T) \in T
      OBVIOUS
    <2>1. T \in SUBSET (0..n) /\ n \in Nat
      BY <1>1
    <2> QED  BY <2>1, Bounds
  <1>p. \A s \in H, m \in D : Put(s, m) \in D
    <2> TAKE s \in H, m \in D
    <2>1. s \in Signal \ {One} /\ s \in Signal /\ h[s] \in Definition
      BY <1>0
    <2> DEFINE e == Normal(h[s])
               x == Replaced(e, m)
               o == Only(s, x)
    <2>2. e \in Expr
      BY <2>1, NormalIs
    <2> HIDE DEF e
    <2>3. x \in Expr
      BY <2>2, ReplacedIs
    <2> HIDE DEF x
    <2>4. o \in Replacements
      BY <2>1, <2>3, OnlyIs
    <2> HIDE DEF o
    <2>5. o ++ m \in Replacements
      BY <2>4, JoinIs
    <2> QED  BY <2>5 DEF o, x, e
  <1> HIDE DEF Put
  <1>3. \E Y : Steps(Y)
    <2>1. op \in [(1..n) \X D -> D]
      <3>2. \A p \in (1..n) \X D : q[p[1]] \in H /\ p[2] \in D
        BY <1>1
      <3> HIDE DEF D
      <3> QED  BY <1>p, <3>2
    <2>2. <<>> \in D
      BY NoReplacements
    <2>3. \A i \in 1..n, m \in D : op[<<i, m>>] = Put(q[i], m)
      OBVIOUS
    <2> HIDE DEF op, n, D, Steps
    <2>4. HasLeft(n, D, <<>>, op)
      <3>1. n \in Nat
        BY <1>1
      <3> QED  BY <3>1, <2>1, <2>2, LeftExists, Zenon
    <2>5. PICK W \in [SUBSET (1..n) -> D] : \A T \in SUBSET (1..n) :
              W[T] = IF T = {} THEN <<>> ELSE op[<<Max(T), W[T \ {Max(T)}]>>]
      BY <2>4 DEF HasLeft
    <2>6. ASSUME NEW T \in SUBSET (1..n), T # {}
          PROVE  W[T] = Put(q[Max(T)], W[T \ {Max(T)}])
      <3>1. Max(T) \in 1..n /\ W[T \ {Max(T)}] \in D
        BY <1>2, <2>6
      <3>2. W[T] = op[<<Max(T), W[T \ {Max(T)}]>>]
        BY <2>5, <2>6, <3>1, <1>1
      <3> QED  BY <3>1, <3>2, <2>3
    <2>7. W = [T \in SUBSET DOMAIN q |->
                                IF T = {} THEN <<>> ELSE Put(q[Max(T)], W[T \ {Max(T)}])]
      BY <1>1, <2>5, <2>6
    <2>8. Steps(W)
      BY <2>7, <1>s
    <2> QED  BY <2>8
  <1>4. Steps(X)
    BY <1>3
  <1> HIDE DEF X, Steps
  <1>6. X[{}] = <<>> /\ \A T \in SUBSET (1..n) : T # {} =>
               X[T] = Put(q[Max(T)], X[T \ {Max(T)}])
    <2>1. X = [T \in SUBSET (1..n) |-> IF T = {} THEN <<>> ELSE Put(q[Max(T)], X[T \ {Max(T)}])]
      BY <1>4, <1>s, <1>1
    <2> QED  BY <2>1
  <1>7. \A k \in 1..n : X[1..k] = Put(q[k], X[1..k - 1])
    <2> TAKE k \in 1..n
    <2> HIDE DEF n
    <2>1. n \in Nat
      BY <1>1
    <2>2. /\ Max(1..k) = k /\ (1..k) \ {k} = 1..k - 1
          /\ 1..k \in SUBSET (1..n) /\ 1..k # {}
      BY <2>1, FirstOnes
    <2> QED  BY <2>2, <1>6, <1>1
  <1> DEFINE G(k) == {q[i] : i \in 1..k}
             Q == {k \in 0..n : Freed(H, h, G(k), X[1..k])}
  <1> HIDE DEF n
  <1>8. 0 \in Q
    <2>1. 1..0 = {} /\ G(0) = {} /\ 0 \in 0..n
      BY <1>1
    <2>2. Freed(H, h, {}, <<>>)
      BY NoReplacements DEF Freed, Satisfies
    <2>3. Freed(H, h, G(0), X[1..0])
      BY <2>1, <2>2, <1>6
    <2> QED  BY <2>1, <2>3
  <1>9. ASSUME NEW k \in 0..n - 1, k \in Q  PROVE  k + 1 \in Q
    <2>1. k \in Nat /\ k + 1 \in 1..n /\ k + 1 \in 0..n /\ k + 1 - 1 = k
          /\ 1..k + 1 = (1..k) \cup {k + 1} /\ 1..k \subseteq 1..n
      BY <1>1
    <2>2. X[1..k + 1] = Put(q[k + 1], X[1..k])
      BY <1>7, <2>1
    <2>3. Freed(H, h, G(k), X[1..k])
      BY <1>9
    <2> DEFINE s == q[k + 1]
               A == G(k)
               m == X[1..k]
    <2>4. A \in SUBSET H /\ s \in H \ A /\ G(k + 1) = A \cup {s}
      <3>1. A \in SUBSET H /\ G(k + 1) = A \cup {s} /\ s \in H
        BY <2>1, <1>1
      <3>2. \A i \in 1..k : q[i] # s
        <4>1. \A i \in 1..k : i < k + 1 /\ i \in 1..n
          BY <2>1
        <4> QED  BY <4>1, <2>1, <1>0, <1>1
      <3> QED  BY <3>1, <3>2
    <2>5. DOMAIN h[s].to \cap H \subseteq A
      <3> SUFFICES ASSUME NEW t \in H, t \in DOMAIN h[s].to  PROVE  t \in A
        OBVIOUS
      <3>1. PICK j \in 1..n : q[j] = t
        BY <1>0, <1>1
      <3>2. ~(k + 1 <= j)
        BY <3>1, <2>1, <1>0, <1>1
      <3>3. j \in 1..k
        BY <3>2, <2>1, <1>1
      <3> QED  BY <3>1, <3>3
    <2> HIDE DEF A, s, m
    <2>6. Freed(H, h, A \cup {s}, Put(s, m))
      <3>1. Freed(H, h, A, m) /\ H \in SUBSET (Signal \ {One}) /\ h \in [H -> Definition]
        BY <2>3, <1>0 DEF A, m
      <3> QED  BY <3>1, <2>4, <2>5, FreedStep DEF Put
    <2>7. Freed(H, h, G(k + 1), X[1..k + 1])
      <3> HIDE DEF G
      <3> QED  BY <2>2, <2>4, <2>6 DEF s, m
    <2> QED  BY <2>1, <2>7
  <1> HIDE DEF Q
  <1>10. n \in Q
    <2>1. n \in Nat /\ n \in 0..n
      BY <1>1
    <2>2. \A k \in 0..n - 1 : k \in Q => k + 1 \in Q
      BY <1>9
    <2>3. \A k \in 0..n : k \in Q
      BY <2>1, <2>2, <1>8, F!UpToInduct
    <2> QED  BY <2>1, <2>3
  <1>11. G(n) = H
    BY <1>0, <1>1
  <1> HIDE DEF G
  <1>12. Freed(H, h, H, X[1..n])
    BY <1>10, <1>11 DEF Q
  <1> QED  BY <1>1, <1>a, <1>12 DEF h

-----------------------------------------------------------------------------
(* Substitutions applied to the storage by its lists *)

\* Every constraint is listed under its signals.
Listing(sto, lst) == \A i \in DOMAIN sto : \A s \in SignalsOf(sto[i]) : s \in DOMAIN lst /\ i \in lst[s]
Lists(ids) == UNION {[D -> SUBSET ids] : D \in SUBSET Signal}
Accs(ids) == [storage : [ids -> CleanCon], linear : SUBSET ids, listed : Lists(ids)]

\* The constraints listed under a signal are constraints of the storage.
LEMMA ListsAre ==
    ASSUME NEW ids, NEW lst \in Lists(ids)
    PROVE  /\ DOMAIN lst \in SUBSET Signal /\ \A s \in DOMAIN lst : lst[s] \in SUBSET ids
           /\ \A s : ListedUnder(lst, s) \in SUBSET ids
  BY DEF Lists, ListedUnder

\* One signal replaced in the constraints listed under it
LEMMA ApplyIs ==
    ASSUME subs \in Replacements, NEW ids, NEW acc \in Accs(ids), NEW s \in DOMAIN subs,
           Listing(acc.storage, acc.listed)
    PROVE  /\ ApplyToMap(acc, s) \in Accs(ids)
           /\ Listing(ApplyToMap(acc, s).storage, ApplyToMap(acc, s).listed)
           /\ \A i \in ids : SignalsOf(ApplyToMap(acc, s).storage[i]) \subseteq
                                (SignalsOf(acc.storage[i]) \ {s}) \cup (DOMAIN subs[s] \ {One})
           /\ \A v \in Valuations : v[s] = Value(subs[s], v) =>
                 \A i \in ids : Holds(ApplyToMap(acc, s).storage[i], v) <=> Holds(acc.storage[i], v)
           /\ (\A i \in acc.linear : acc.storage[i] \in CleanLinear) =>
                 \A i \in ApplyToMap(acc, s).linear : ApplyToMap(acc, s).storage[i] \in CleanLinear
  <1> DEFINE r == ApplyToMap(acc, s)
             under == ListedUnder(acc.listed, s)
             fix(con) == Fixed(Substituted(con, s, subs[s]))
             new == IF under = {} THEN {} ELSE DOMAIN subs[s]
  <1>0. /\ s \in Signal \ {One} /\ subs[s] \in Expr /\ DOMAIN subs[s] \in SUBSET Signal
    <2>1. s \in Signal \ {One} /\ subs[s] \in Expr
      BY ReplacementsAre
    <2> QED  BY <2>1, ExprIs
  <1>1. /\ acc.storage \in [ids -> CleanCon] /\ acc.linear \in SUBSET ids
        /\ acc.listed \in Lists(ids)
    BY DEF Accs
  <1>2. under \in SUBSET ids /\ DOMAIN acc.listed \in SUBSET Signal
        /\ (\A t \in DOMAIN acc.listed : acc.listed[t] \in SUBSET ids)
        /\ \A t : ListedUnder(acc.listed, t) \in SUBSET ids
    BY <1>1, ListsAre
  <1>3. /\ r = [storage |-> r.storage, linear |-> r.linear, listed |-> r.listed]
        /\ r.storage = [i \in under |-> fix(acc.storage[i])] ++ acc.storage
        /\ r.linear = acc.linear \cup {i \in under : IsLinear(r.storage[i])}
        /\ r.listed = [t \in new |-> under \cup ListedUnder(acc.listed, t)] ++ acc.listed
    BY DEF ApplyToMap
  <1> HIDE DEF r, under, new
  <1>4. /\ DOMAIN r.storage = ids
        /\ \A i \in under : r.storage[i] = fix(acc.storage[i])
        /\ \A i \in ids \ under : r.storage[i] = acc.storage[i]
        /\ r.storage = [i \in ids |-> r.storage[i]]
    <2> HIDE DEF fix
    <2> DEFINE f == [i \in under |-> fix(acc.storage[i])]
    <2>1. DOMAIN f = under /\ \A i \in under : f[i] = fix(acc.storage[i])
      OBVIOUS
    <2>2. r.storage = [i \in DOMAIN f \cup DOMAIN acc.storage |->
                          IF i \in DOMAIN f THEN f[i] ELSE acc.storage[i]]
      BY <1>3 DEF ++
    <2> HIDE DEF f
    <2>3. DOMAIN f \cup DOMAIN acc.storage = ids
      BY <2>1, <1>1, <1>2
    <2> QED  BY <2>1, <2>2, <2>3
  <1>5. /\ DOMAIN r.listed = new \cup DOMAIN acc.listed
        /\ \A t \in new : r.listed[t] = under \cup ListedUnder(acc.listed, t)
        /\ \A t \in DOMAIN acc.listed \ new : r.listed[t] = acc.listed[t]
        /\ r.listed = [t \in DOMAIN r.listed |-> r.listed[t]]
    <2> DEFINE f == [t \in new |-> under \cup ListedUnder(acc.listed, t)]
    <2>1. DOMAIN f = new /\ \A t \in new : f[t] = under \cup ListedUnder(acc.listed, t)
      OBVIOUS
    <2>2. r.listed = [i \in DOMAIN f \cup DOMAIN acc.listed |->
                          IF i \in DOMAIN f THEN f[i] ELSE acc.listed[i]]
      BY <1>3 DEF ++
    <2> HIDE DEF f
    <2> QED  BY <2>1, <2>2
  \* the constraints that are rewritten
  <1>6. ASSUME NEW con \in CleanCon
        PROVE  /\ fix(con) \in CleanCon
               /\ SignalsOf(fix(con)) \subseteq (SignalsOf(con) \ {s}) \cup
                       (IF s \in SignalsOf(con) THEN DOMAIN subs[s] \ {One} ELSE {})
               /\ con \in CleanLinear => fix(con) \in CleanLinear
               /\ \A v \in Valuations : v[s] = Value(subs[s], v) => (Holds(fix(con), v) <=> Holds(con, v))
    <2> DEFINE x == Substituted(con, s, subs[s])
    <2>1. con \in Con
      BY ConIs
    <2>2. /\ x \in Con
          /\ SignalsOf(x) \subseteq (SignalsOf(con) \ {s}) \cup
                       (IF s \in SignalsOf(con) THEN DOMAIN subs[s] \ {One} ELSE {})
          /\ \A v \in [Signal -> Field] : v[s] = Value(subs[s], v) => (Holds(x, v) <=> Holds(con, v))
      <3> DEFINE to == subs[s]
      <3>1. to \in Expr /\ s \in Signal \ {One}
        BY <1>0
      <3> HIDE DEF to
      <3>2. /\ Substituted(con, s, to) \in Con
            /\ SignalsOf(Substituted(con, s, to)) \subseteq (SignalsOf(con) \ {s}) \cup
                       (IF s \in SignalsOf(con) THEN DOMAIN to \ {One} ELSE {})
            /\ \A v \in [Signal -> Field] : v[s] = Value(to, v) =>
                  (Holds(Substituted(con, s, to), v) <=> Holds(con, v))
        BY <3>1, <2>1, SubstitutedIs
      <3> QED  BY <3>2 DEF to
    <2>3. con \in CleanLinear => Plain(x)
      <3>1. con \in CleanLinear => Plain(con)
        BY PlainIs, ConIs
      <3> QED  BY <3>1, <1>0, PlainIs
    <2> HIDE DEF x
    <2>4. /\ Fixed(x) \in CleanCon /\ SignalsOf(Fixed(x)) \subseteq SignalsOf(x)
          /\ \A v \in Valuations : Holds(Fixed(x), v) <=> Holds(x, v)
      BY <2>2, FixedIs
    <2>5. Plain(x) => Fixed(x) \in CleanLinear
      BY PlainIs
    <2>6. \A v \in Valuations : v \in [Signal -> Field]
      BY DEF Valuations
    <2>7. fix(con) = Fixed(x)
      BY DEF x
    <2> HIDE DEF fix
    <2> QED  BY <2>2, <2>3, <2>4, <2>5, <2>6, <2>7
  <1> HIDE DEF fix
  <1>7. r \in Accs(ids)
    <2>1. r.storage \in [ids -> CleanCon]
      <3>1. \A i \in ids : r.storage[i] \in CleanCon
        BY <1>1, <1>4, <1>6
      <3> QED  BY <3>1, <1>4
    <2>2. r.linear \in SUBSET ids
      BY <1>1, <1>2, <1>3
    <2>3. r.listed \in Lists(ids)
      <3>1. DOMAIN r.listed \in SUBSET Signal
        BY <1>0, <1>2, <1>5 DEF new
      <3>2. \A t \in DOMAIN r.listed : r.listed[t] \in SUBSET ids
        BY <1>2, <1>5
      <3> QED  BY <3>1, <3>2, <1>5 DEF Lists
    <2> QED  BY <2>1, <2>2, <2>3, <1>3 DEF Accs
  <1>8. \A i \in ids : SignalsOf(r.storage[i]) \subseteq
                          (SignalsOf(acc.storage[i]) \ {s}) \cup (DOMAIN subs[s] \ {One})
    <2> TAKE i \in ids
    <2>1. CASE i \in under
      BY <2>1, <1>1, <1>4, <1>6
    <2>2. CASE i \notin under
      <3>1. s \notin SignalsOf(acc.storage[i])
        BY <2>2, <1>1 DEF Listing, under, ListedUnder
      <3> QED  BY <2>2, <3>1, <1>4
    <2> QED  BY <2>1, <2>2
  <1>9. Listing(r.storage, r.listed)
    <2> SUFFICES ASSUME NEW i \in ids, NEW t \in SignalsOf(r.storage[i])
                 PROVE  t \in DOMAIN r.listed /\ i \in r.listed[t]
      BY <1>4 DEF Listing
    <2>0. \A u \in SignalsOf(acc.storage[i]) : u \in DOMAIN acc.listed /\ i \in acc.listed[u]
      BY <1>1 DEF Listing
    <2>1. CASE t \in SignalsOf(acc.storage[i])
      <3>1. t \in DOMAIN acc.listed /\ i \in acc.listed[t] /\ i \in ListedUnder(acc.listed, t)
        BY <2>0, <2>1 DEF ListedUnder
      <3> QED  BY <3>1, <1>5
    <2>2. CASE t \notin SignalsOf(acc.storage[i])
      <3>1. i \in under
        BY <2>2, <1>4
      <3>2. t \in DOMAIN subs[s]
        BY <2>2, <1>8
      <3>3. t \in new
        BY <3>1, <3>2 DEF new
      <3> QED  BY <3>1, <3>3, <1>5
    <2> QED  BY <2>1, <2>2
  <1>10. \A v \in Valuations : v[s] = Value(subs[s], v) =>
                 \A i \in ids : Holds(r.storage[i], v) <=> Holds(acc.storage[i], v)
    BY <1>1, <1>4, <1>6
  <1>11. ASSUME \A i \in acc.linear : acc.storage[i] \in CleanLinear
         PROVE  \A i \in r.linear : r.storage[i] \in CleanLinear
    <2> TAKE i \in r.linear
    <2>0. i \in ids /\ r.storage[i] \in CleanCon
      BY <1>7 DEF Accs
    <2>1. CASE i \in acc.linear
      <3>1. acc.storage[i] \in CleanLinear /\ acc.storage[i] \in CleanCon
        BY <2>0, <2>1, <1>1, <1>11
      <3> QED  BY <3>1, <2>0, <1>4, <1>6
    <2>2. CASE i \notin acc.linear
      <3>1. IsLinear(r.storage[i])
        BY <2>2, <1>3
      <3> QED  BY <3>1, <2>0, ConIs
    <2> QED  BY <2>1, <2>2
  <1> QED  BY <1>7, <1>8, <1>9, <1>10, <1>11 DEF r

\* The result of all the substitutions of a round
RoundResult ==
    FoldSet(LAMBDA s, acc : ApplyToMap(acc, s),
            [storage |-> storage, linear |-> {}, listed |-> listed],
            DOMAIN subs)

\* A round of apply_substitution_to_map: every constraint of the storage that has a signal
\* to replace is replaced, and holds where it did.
LEMMA RoundIs ==
    ASSUME subs \in Replacements, Images(subs, DOMAIN subs) \cap DOMAIN subs = {},
           storage \in Seq(CleanCon), listed \in Lists(DOMAIN storage), Listing(storage, listed)
    PROVE  /\ RoundResult \in Accs(DOMAIN storage)
           /\ Listing(RoundResult.storage, RoundResult.listed)
           /\ \A i \in DOMAIN storage : SignalsOf(RoundResult.storage[i]) \subseteq
                 (SignalsOf(storage[i]) \ DOMAIN subs) \cup Images(subs, DOMAIN subs)
           /\ \A v \in Valuations : Satisfies(v, subs) =>
                 \A i \in DOMAIN storage : Holds(RoundResult.storage[i], v) <=> Holds(storage[i], v)
           /\ \A i \in RoundResult.linear : RoundResult.storage[i] \in CleanLinear
  <1> DEFINE ids == DOMAIN storage
             D == DOMAIN subs
             A == Accs(ids)
             base == [storage |-> storage, linear |-> {}, listed |-> listed]
             Good(T, acc) ==
                 /\ acc \in A
                 /\ Listing(acc.storage, acc.listed)
                 /\ \A i \in ids : SignalsOf(acc.storage[i]) \subseteq
                       (SignalsOf(storage[i]) \ T) \cup Images(subs, DOMAIN subs)
                 /\ \A v \in Valuations : Satisfies(v, subs) =>
                       \A i \in ids : Holds(acc.storage[i], v) <=> Holds(storage[i], v)
                 /\ \A i \in acc.linear : acc.storage[i] \in CleanLinear
             B == {acc \in A : Listing(acc.storage, acc.listed)}
             pick == [T \in SUBSET D |-> CHOOSE x \in T : TRUE]
             op == [p \in D \X B |-> ApplyToMap(p[2], p[1])]
             Steps(W) == W = [T \in SUBSET D |->
                                IF T = {} THEN base
                                ELSE ApplyToMap(W[T \ {CHOOSE x \in T : TRUE}], CHOOSE x \in T : TRUE)]
             X == CHOOSE Y : Steps(Y)
  <1>1. D \in SUBSET (Signal \ {One}) /\ IsFiniteSet(D)
    <2>1. D \in SUBSET (Signal \ {One})
      BY ReplacementsAre
    <2>2. D \in SUBSET Signal
      BY <2>1
    <2> HIDE DEF D
    <2> QED  BY <2>1, <2>2, SignalSets
  <1>2. RoundResult = X[D]
    BY DEF RoundResult, FoldSet, MapThenFoldSet
  <1>3. Good({}, base) /\ base \in B
    <2>1. storage \in [ids -> CleanCon]
      OBVIOUS
    <2>2. base.storage = storage /\ base.linear = {} /\ base.listed = listed
      OBVIOUS
    <2>3. base \in A
      BY <2>1 DEF Accs
    <2> HIDE DEF base
    <2> QED  BY <2>2, <2>3
  <1>4. ASSUME NEW acc \in B, NEW s \in D  PROVE  ApplyToMap(acc, s) \in B
    <2>1. acc \in Accs(ids) /\ s \in DOMAIN subs /\ Listing(acc.storage, acc.listed)
      OBVIOUS
    <2>2. /\ ApplyToMap(acc, s) \in Accs(ids)
          /\ Listing(ApplyToMap(acc, s).storage, ApplyToMap(acc, s).listed)
      BY <2>1, ApplyIs
    <2> QED  BY <2>2
  <1>5. \E Y : Steps(Y)
    <2>1. op \in [D \X B -> B]
      <3>1. \A p \in D \X B : p[1] \in D /\ p[2] \in B
        OBVIOUS
      <3> HIDE DEF B, D
      <3> QED  BY <1>4, <3>1
    <2>2. \A T \in SUBSET D : T # {} => pick[T] \in T
      OBVIOUS
    <2>3. PICK W \in [SUBSET D -> B] : FoldTable(D, base, op, pick, W)
      <3>1. base \in B
        BY <1>3
      <3> HIDE DEF D, op, pick, B, base
      <3>2. HasFold(D, B, base, op, pick)
        BY <1>1, <2>1, <2>2, <3>1, FoldExists, Zenon
      <3> QED  BY <3>2 DEF HasFold
    <2>4. ASSUME NEW T \in SUBSET D, T # {}
          PROVE  W[T] = ApplyToMap(W[T \ {CHOOSE x \in T : TRUE}], CHOOSE x \in T : TRUE)
      <3> DEFINE y == CHOOSE x \in T : TRUE
      <3>1. y \in T /\ y \in D /\ pick[T] = y /\ W[T \ {y}] \in B
        BY <2>4
      <3>2. W[T] = op[<<y, W[T \ {y}]>>]
        BY <2>3, <2>4, <3>1 DEF FoldTable
      <3> HIDE DEF y, B, D
      <3>3. op[<<y, W[T \ {y}]>>] = ApplyToMap(W[T \ {y}], y)
        BY <3>1
      <3> QED  BY <3>2, <3>3 DEF y
    <2>5. Steps(W)
      <3> HIDE DEF D, B, base
      <3> QED  BY <2>3, <2>4 DEF FoldTable
    <2> HIDE DEF Steps
    <2> QED  BY <2>5
  <1>6. Steps(X)
    BY <1>5
  <1> HIDE DEF X, base
  <1>7. X[{}] = base /\ \A T \in SUBSET D : T # {} => \E x \in T : X[T] = ApplyToMap(X[T \ {x}], x)
    <2>1. X[{}] = base
      BY <1>6
    <2>2. ASSUME NEW T \in SUBSET D, T # {}
          PROVE  \E x \in T : X[T] = ApplyToMap(X[T \ {x}], x)
      <3> DEFINE y == CHOOSE x \in T : TRUE
      <3>1. y \in T
        BY <2>2
      <3>2. X[T] = ApplyToMap(X[T \ {y}], y)
        BY <1>6, <2>2
      <3> HIDE DEF y
      <3> QED  BY <3>1, <3>2
    <2> QED  BY <2>1, <2>2
  <1> DEFINE Q == {T \in SUBSET D : Good(T, X[T])}
  <1>8. ASSUME NEW T \in SUBSET D, \A x \in T : T \ {x} \in Q  PROVE  T \in Q
    <2>1. CASE T = {}
      <3> HIDE DEF Good
      <3> QED  BY <2>1, <1>3, <1>7
    <2>2. CASE T # {}
      <3>1. PICK s \in T : X[T] = ApplyToMap(X[T \ {s}], s)
        BY <2>2, <1>7
      <3> DEFINE acc == X[T \ {s}]
                 r == ApplyToMap(acc, s)
      <3>2. Good(T \ {s}, acc) /\ s \in DOMAIN subs
        BY <1>8
      <3> HIDE DEF acc, r
      <3>3. /\ r \in Accs(ids) /\ Listing(r.storage, r.listed)
            /\ \A i \in ids : SignalsOf(r.storage[i]) \subseteq
                                (SignalsOf(acc.storage[i]) \ {s}) \cup (DOMAIN subs[s] \ {One})
            /\ \A v \in Valuations : v[s] = Value(subs[s], v) =>
                 \A i \in ids : Holds(r.storage[i], v) <=> Holds(acc.storage[i], v)
            /\ (\A i \in acc.linear : acc.storage[i] \in CleanLinear) =>
                 \A i \in r.linear : r.storage[i] \in CleanLinear
        <4>1. acc \in Accs(ids) /\ s \in DOMAIN subs /\ Listing(acc.storage, acc.listed)
          BY <3>2
        <4>2. DOMAIN r.storage = ids
          BY <4>1, ApplyIs DEF r, Accs
        <4> QED  BY <4>1, <4>2, ApplyIs DEF r
      <3>4. \A i \in ids : SignalsOf(r.storage[i]) \subseteq
                       (SignalsOf(storage[i]) \ T) \cup Images(subs, DOMAIN subs)
        <4>1. DOMAIN subs[s] \ {One} \subseteq Images(subs, DOMAIN subs)
          BY <3>2 DEF Images
        <4>2. s \notin Images(subs, DOMAIN subs)
          BY <3>2
        <4> QED  BY <3>2, <3>3, <4>1, <4>2
      <3>5. ASSUME NEW v \in Valuations, Satisfies(v, subs)
            PROVE  \A i \in ids : Holds(r.storage[i], v) <=> Holds(storage[i], v)
        <4>1. v[s] = Value(subs[s], v)
          BY <3>2, <3>5 DEF Satisfies
        <4> QED  BY <4>1, <3>2, <3>3, <3>5
      <3>6. Good(T, r)
        BY <3>2, <3>3, <3>4, <3>5
      <3> QED  BY <3>1, <3>6 DEF r, acc
    <2> QED  BY <2>1, <2>2
  <1> HIDE DEF Q, D
  <1>9. D \in Q
    <2> HIDE DEF A, B, Good, Steps, op, pick
    <2>1. IsFiniteSet(D) /\ \A T \in SUBSET D : (\A x \in T : T \ {x} \in Q) => T \in Q
      BY <1>1, <1>8
    <2>2. \A T \in SUBSET D : T \in Q
      BY <2>1, SubsetsInduct
    <2> QED  BY <2>2
  <1> QED  BY <1>2, <1>9 DEF Q, D

-----------------------------------------------------------------------------
(* The places in the witness *)

LastPublic == NoPublicOutputs + NoPublicInputs
Unlisted(lst) == {s \in Signal : s \notin Forbidden /\ s \notin DOMAIN lst}

\* The signals before k have their places, the first m ones; the places from m
\* to k - 1 are free, in this order.
Placed(lst, del, k, m, acc) ==
    /\ acc = [map |-> acc.map, free |-> acc.free, deleted |-> acc.deleted, listed |-> acc.listed]
    /\ acc.listed = lst
    /\ acc.deleted = del \cup {s \in Unlisted(lst) : s < k}
    /\ m \in 0..k
    /\ DOMAIN acc.map = (0..k - 1) \ acc.deleted /\ Cardinality(DOMAIN acc.map) = m
    /\ acc.map \in [DOMAIN acc.map -> 0..m - 1]
    /\ \A s, t \in DOMAIN acc.map : s < t => acc.map[s] < acc.map[t]
    /\ \A p \in 0..m - 1 : \E s \in DOMAIN acc.map : acc.map[s] = p
    /\ acc.free \in Seq(Nat) /\ Len(acc.free) = k - m
    /\ \A i \in 1..k - m : acc.free[i] = m + i - 1
    /\ \A s \in DOMAIN acc.map : s <= LastPublic => acc.map[s] = s
    /\ k <= LastPublic + 1 => m = k

\* The next signal gets the next place, or none.
LEMMA PlaceStep ==
    ASSUME NEW lst, NEW del \in SUBSET (Signal \ Forbidden), NEW k \in Signal, NEW m, NEW acc,
           Placed(lst, del, k, m, acc)
    PROVE  \E n : Placed(lst, del, k + 1, n, PlaceSignal(acc, k))
  <1> DEFINE r == PlaceSignal(acc, k)
             dead == k \in del \/ k \in Unlisted(lst)
             f == acc.map
             q == acc.free
             K == DOMAIN f
  <1>0. /\ k \in Nat /\ k + 1 \in Nat /\ LastPublic \in Nat /\ k \in Int
        /\ 0..k = (0..k - 1) \cup {k} /\ k \notin 0..k - 1
    BY Numbers, CircuitsAssumption DEF LastPublic
  <1>1. /\ acc = [map |-> f, free |-> q, deleted |-> acc.deleted, listed |-> lst]
        /\ acc.deleted = del \cup {s \in Unlisted(lst) : s < k}
        /\ m \in 0..k
        /\ K = (0..k - 1) \ acc.deleted /\ Cardinality(K) = m
        /\ f \in [K -> 0..m - 1]
        /\ \A s, t \in K : s < t => f[s] < f[t]
        /\ \A p \in 0..m - 1 : \E s \in K : f[s] = p
        /\ q \in Seq(Nat) /\ Len(q) = k - m
        /\ \A i \in 1..k - m : q[i] = m + i - 1
        /\ \A s \in K : s <= LastPublic => f[s] = s
        /\ k <= LastPublic + 1 => m = k
    BY DEF Placed
  <1>2. m \in Nat /\ m \in Int /\ k - m \in Nat
    BY <1>0, <1>1
  <1>3. k \in acc.deleted <=> k \in del
    BY <1>0, <1>1
  <1>4. k \in Unlisted(lst) <=> k \notin Forbidden /\ k \notin DOMAIN lst
    BY DEF Unlisted
  <1>5. k <= LastPublic => k \in Forbidden
    BY <1>0 DEF Forbidden, Public, LastPublic, One
  <1>6. k \in Forbidden => ~dead
    BY DEF Unlisted
  <1>7. \A s \in Unlisted(lst) : s < k + 1 <=> s < k \/ s = k
    BY <1>0, Numbers DEF Unlisted
  <1> HIDE DEF f, q
  <1> DEFINE e == acc.deleted
  <1>e. acc.deleted = e
    OBVIOUS
  <1> HIDE DEF e
  <1>a. acc = [map |-> f, free |-> q, deleted |-> e, listed |-> lst]
    BY <1>1, <1>e
  <1>8. CASE dead
    <2> DEFINE d == del \cup {s \in Unlisted(lst) : s < k + 1}
    <2>1. d = acc.deleted \cup {k}
      BY <1>1, <1>7, <1>8
    <2>2. r = [map |-> f, free |-> Append(q, k), deleted |-> d, listed |-> lst]
      <3>1. CASE k \in del
        <4>1. d = acc.deleted
          BY <2>1, <1>3, <3>1
        <4>2. r = [acc EXCEPT !.free = Append(@, k)]
          BY <1>3, <3>1 DEF PlaceSignal
        <4> HIDE DEF r, d
        <4>3. d = e
          BY <4>1, <1>e
        <4> QED  BY <4>2, <4>3, <1>a
      <3>2. CASE k \notin del
        <4>1. k \notin acc.deleted /\ k \notin Forbidden /\ k \notin DOMAIN acc.listed
          BY <1>1, <1>3, <1>4, <1>8, <3>2
        <4>2. r = [acc EXCEPT !.free = Append(@, k), !.deleted = @ \cup {k}]
          BY <4>1 DEF PlaceSignal
        <4> HIDE DEF r, d
        <4>3. d = e \cup {k}
          BY <2>1, <1>e
        <4> QED  BY <4>2, <4>3, <1>a
      <3> QED  BY <3>1, <3>2
    <2> HIDE DEF r, d
    <2>3. /\ r.map = f /\ r.free = Append(q, k) /\ r.deleted = d /\ r.listed = lst
          /\ r = [map |-> r.map, free |-> r.free, deleted |-> r.deleted, listed |-> r.listed]
      BY <2>2
    <2>4. K = (0..k) \ d
      BY <1>0, <1>1, <2>1
    <2>5. /\ Append(q, k) \in Seq(Nat) /\ Len(Append(q, k)) = k + 1 - m
          /\ \A i \in 1..k + 1 - m : Append(q, k)[i] = m + i - 1
      <3>1. /\ Append(q, k) \in Seq(Nat) /\ Len(Append(q, k)) = k - m + 1
            /\ \A i \in 1..k - m : Append(q, k)[i] = q[i]
            /\ Append(q, k)[k - m + 1] = k
        BY <1>0, <1>1
      <3>2. k - m + 1 = k + 1 - m /\ k = m + (k + 1 - m) - 1
        BY <1>0, <1>2
      <3>3. ASSUME NEW i \in 1..k + 1 - m  PROVE  i \in 1..k - m \/ i = k + 1 - m
        BY <1>0, <1>2
      <3> QED  BY <3>1, <3>2, <3>3, <1>1
    <2>6. ~(k <= LastPublic) /\ ~(k + 1 <= LastPublic + 1)
      BY <1>0, <1>5, <1>6, <1>8
    <2>7. k + 1 - 1 = k /\ m \in 0..k + 1
      BY <1>0, <1>1
    <2>8. Placed(lst, del, k + 1, m, r)
      BY <2>3, <2>4, <2>5, <2>6, <2>7, <1>1 DEF Placed, d
    <2> QED  BY <2>8 DEF r
  <1>9. CASE ~dead
    <2> DEFINE p == IF q # <<>> THEN Head(q) ELSE k
               x == IF q # <<>> THEN Append(Tail(q), k) ELSE q
               g == Only(k, p) ++ f
               d == del \cup {s \in Unlisted(lst) : s < k + 1}
    <2>1. d = acc.deleted /\ k \notin acc.deleted
      BY <1>1, <1>3, <1>7, <1>9
    <2>2. r = [map |-> g, free |-> x, deleted |-> d, listed |-> lst]
      <3>1. k \notin acc.deleted /\ ~(k \notin Forbidden /\ k \notin DOMAIN acc.listed)
        BY <1>1, <2>1, <1>4, <1>9
      <3>2. acc.free = q /\ acc.map = f
        BY DEF q, f
      <3>3. CASE q # <<>>
        <4>1. r = [acc EXCEPT !.map = Only(k, Head(acc.free)) ++ @, !.free = Append(Tail(@), k)]
          BY <3>1, <3>2, <3>3 DEF PlaceSignal
        <4> HIDE DEF r
        <4>2. p = Head(q) /\ x = Append(Tail(q), k)
          BY <3>3
        <4> HIDE DEF p, x, d
        <4>3. d = e
          BY <2>1, <1>e
        <4>4. Only(k, Head(acc.free)) ++ acc.map = g /\ Append(Tail(acc.free), k) = x
          BY <4>2, <3>2
        <4>5. r = [acc EXCEPT !.map = Only(k, Head(acc.free)) ++ acc.map,
                              !.free = Append(Tail(acc.free), k)]
          BY <4>1, <1>a
        <4>6. r = [acc EXCEPT !.map = g, !.free = x]
          BY <4>4, <4>5
        <4> HIDE DEF g
        <4> QED  BY <4>6, <4>3, <1>a
      <3>4. CASE q = <<>>
        <4>1. r = [acc EXCEPT !.map = Only(k, k) ++ @]
          BY <3>1, <3>2, <3>4 DEF PlaceSignal
        <4> HIDE DEF r
        <4>2. p = k /\ x = q
          BY <3>4
        <4> HIDE DEF p, x, d
        <4>3. d = e
          BY <2>1, <1>e
        <4> QED  BY <4>1, <4>2, <4>3, <3>2, <1>a
      <3> QED  BY <3>3, <3>4
    <2>3. /\ p = m
          /\ x \in Seq(Nat) /\ Len(x) = k - m
          /\ \A i \in 1..k - m : x[i] = m + 1 + i - 1
      <3>1. CASE q # <<>>
        <4>1. Len(q) # 0 /\ k - m # 0
          BY <3>1, <1>1
        <4>2. p = q[1] /\ 1 \in 1..k - m
          BY <3>1, <4>1, <1>2
        <4>3. p = m
          BY <4>2, <1>1, <1>2
        <4>4. /\ Tail(q) \in Seq(Nat) /\ Len(Tail(q)) = k - m - 1
              /\ \A i \in 1..k - m - 1 : Tail(q)[i] = q[i + 1]
          BY <3>1, <1>1, <1>2, <4>1
        <4> DEFINE y == Tail(q)
        <4> HIDE DEF y
        <4>5. /\ Append(y, k) \in Seq(Nat) /\ Len(Append(y, k)) = k - m
              /\ \A i \in 1..k - m - 1 : Append(y, k)[i] = y[i]
              /\ Append(y, k)[k - m] = k
          <5>1. y \in Seq(Nat) /\ Len(y) = k - m - 1
            BY <4>4 DEF y
          <5> QED  BY <5>1, <1>0, <1>2
        <4>6. ASSUME NEW i \in 1..k - m  PROVE  Append(y, k)[i] = m + 1 + i - 1
          <5>1. CASE i = k - m
            BY <5>1, <4>5, <1>0, <1>2
          <5>2. CASE i # k - m
            <6>1. i \in 1..k - m - 1 /\ i + 1 \in 1..k - m
              BY <5>2, <1>2
            <6>2. Append(y, k)[i] = q[i + 1] /\ q[i + 1] = m + (i + 1) - 1
              BY <6>1, <4>4, <4>5, <1>1 DEF y
            <6> QED  BY <6>2, <6>1, <1>2
          <5> QED  BY <5>1, <5>2
        <4>7. x = Append(y, k)
          BY <3>1 DEF y
        <4> HIDE DEF x, p
        <4> QED  BY <4>3, <4>5, <4>6, <4>7
      <3>2. CASE q = <<>>
        <4>1. Len(q) = 0 /\ k = m
          BY <3>2, <1>0, <1>1, <1>2
        <4> QED  BY <3>2, <4>1, <1>1
      <3> QED  BY <3>1, <3>2
    <2> HIDE DEF p, x, r, d
    <2>4. /\ DOMAIN g = K \cup {k} /\ g[k] = m /\ k \notin K
          /\ (\A s \in K : g[s] = f[s]) /\ g = [s \in K \cup {k} |-> g[s]]
      <3>1. k \notin K
        BY <1>0, <1>1
      <3>2. DOMAIN Only(k, p) = {k} /\ Only(k, p)[k] = p
        BY DEF Only
      <3> DEFINE o == Only(k, p)
      <3> HIDE DEF o
      <3>3. o ++ f = [s \in DOMAIN o \cup K |-> IF s \in DOMAIN o THEN o[s] ELSE f[s]]
        BY DEF ++
      <3>4. DOMAIN o \cup K = K \cup {k}
        BY <3>2 DEF o
      <3>5. g = o ++ f
        BY DEF o
      <3> HIDE DEF g
      <3>6. o[k] = m /\ k \in DOMAIN o /\ DOMAIN o = {k}
        BY <3>2, <2>3 DEF o
      <3> QED  BY <3>1, <3>3, <3>4, <3>5, <3>6
    <2> HIDE DEF g
    <2>5. /\ r.map = g /\ r.free = x /\ r.deleted = d /\ r.listed = lst
          /\ r = [map |-> r.map, free |-> r.free, deleted |-> r.deleted, listed |-> r.listed]
      BY <2>2
    <2>6. DOMAIN g = (0..k) \ d /\ K \subseteq Nat /\ \A s \in K : s < k /\ s \in Nat
      BY <2>1, <2>4, <1>0, <1>1
    <2>7. Cardinality(DOMAIN g) = m + 1
      <3>1. IsFiniteSet(K)
        <4>1. IsFiniteSet(0..k - 1)
          BY <1>0, FS_Interval
        <4>2. K \in SUBSET (0..k - 1)
          BY <1>1
        <4> QED  BY <4>1, <4>2, FS_Subset
      <3>2. Cardinality(K \cup {k}) = IF k \in K THEN Cardinality(K) ELSE Cardinality(K) + 1
        BY <3>1, FS_AddElement
      <3> QED  BY <3>2, <2>4, <1>1
    <2>8. \A s \in K : f[s] \in 0..m - 1
      BY <1>1
    <2>9. m \in 0..m /\ \A i \in 0..m - 1 : i \in 0..m /\ i < m
      BY <1>2
    <2>10. g \in [DOMAIN g -> 0..m + 1 - 1]
      <3>1. m + 1 - 1 = m
        BY <1>2
      <3>2. \A s \in DOMAIN g : g[s] \in 0..m
        BY <2>4, <2>8, <2>9
      <3> QED  BY <3>1, <3>2, <2>4
    <2>11. \A s, t \in DOMAIN g : s < t => g[s] < g[t]
      <3> SUFFICES ASSUME NEW s \in DOMAIN g, NEW t \in DOMAIN g, s < t  PROVE  g[s] < g[t]
        OBVIOUS
      <3>1. CASE t = k
        <4>1. s \in K
          BY <3>1, <2>4, <1>0
        <4> QED  BY <3>1, <4>1, <2>4, <2>8, <2>9
      <3>2. CASE t # k
        <4>1. t \in K /\ t < k
          BY <3>2, <2>4, <2>6
        <4>2. s \in K
          BY <4>1, <2>4, <2>6, <1>0
        <4> QED  BY <4>1, <4>2, <2>4, <1>1
      <3> QED  BY <3>1, <3>2
    <2>12. \A i \in 0..m + 1 - 1 : \E s \in DOMAIN g : g[s] = i
      <3> TAKE i \in 0..m + 1 - 1
      <3>1. i \in 0..m - 1 \/ i = m
        BY <1>2
      <3> QED  BY <3>1, <2>4, <1>1
    <2>13. (k + 1) - (m + 1) = k - m /\ k + 1 - 1 = k /\ m + 1 \in 0..k + 1
      BY <1>0, <1>1, <1>2
    <2>14. \A s \in DOMAIN g : s <= LastPublic => g[s] = s
      <3>1. k <= LastPublic => m = k
        BY <1>0, <1>1
      <3> QED  BY <3>1, <2>4, <1>1
    <2>15. k + 1 <= LastPublic + 1 => m + 1 = k + 1
      BY <1>0, <1>1
    <2>16. DOMAIN g = (0..k + 1 - 1) \ r.deleted /\ r.deleted = del \cup {s \in Unlisted(lst) : s < k + 1}
      BY <2>5, <2>6, <2>13 DEF d
    <2>17. Len(x) = (k + 1) - (m + 1) /\ \A i \in 1..(k + 1) - (m + 1) : x[i] = m + 1 + i - 1
      BY <2>3, <2>13
    <2> HIDE DEF K
    <2>18. Placed(lst, del, k + 1, m + 1, r)
      <3> DEFINE a == k + 1
                 b == m + 1
                 h == r.map
      <3>h. h = g
        BY <2>5
      <3>1. b \in 0..a /\ Cardinality(DOMAIN r.map) = b
        BY <2>5, <2>7, <2>13
      <3>x. a - 1 = k + 1 - 1 /\ b - 1 = m + 1 - 1 /\ a = k + 1
        BY <1>0, <1>2
      <3> HIDE DEF a, b, h
      <3>a. DOMAIN g = (0..a - 1) \ r.deleted /\ r.deleted = del \cup {s \in Unlisted(lst) : s < a}
        BY <2>16, <3>x
      <3>b. g \in [DOMAIN g -> 0..b - 1]
        BY <2>10, <3>x
      <3>c. \A i \in 0..b - 1 : \E s \in DOMAIN g : g[s] = i
        BY <2>12, <3>x
      <3>2. DOMAIN r.map = (0..a - 1) \ r.deleted /\ r.deleted = del \cup {s \in Unlisted(lst) : s < a}
        BY <3>a, <2>5
      <3>3. r.map \in [DOMAIN r.map -> 0..b - 1]
        <4>1. h \in [DOMAIN h -> 0..b - 1]
          BY <3>h, <3>b
        <4> QED  BY <4>1 DEF h
      <3>4. \A s, t \in DOMAIN r.map : s < t => r.map[s] < r.map[t]
        BY <2>5, <2>11
      <3>5. \A i \in 0..b - 1 : \E s \in DOMAIN r.map : r.map[s] = i
        <4>1. \A i \in 0..b - 1 : \E s \in DOMAIN h : h[s] = i
          BY <3>h, <3>c
        <4> QED  BY <4>1 DEF h
      <3>6. r.free \in Seq(Nat) /\ Len(r.free) = a - b /\ \A i \in 1..a - b : r.free[i] = b + i - 1
        BY <2>3, <2>5, <2>17 DEF a, b
      <3>7. \A s \in DOMAIN r.map : s <= LastPublic => r.map[s] = s
        BY <2>5, <2>14
      <3>8. a <= LastPublic + 1 => b = a
        BY <2>15 DEF a, b
      <3>9. Placed(lst, del, a, b, r)
        BY <3>1, <3>2, <3>3, <3>4, <3>5, <3>6, <3>7, <3>8, <2>5 DEF Placed
      <3> QED  BY <3>9 DEF a, b
    <2> QED  BY <2>18 DEF r
  <1> QED  BY <1>8, <1>9

\* All signals have been placed or left out (rebuild_witness).
LEMMA WitnessIs ==
    ASSUME NEW lst, NEW del \in SUBSET (Signal \ Forbidden)
    PROVE  \E m : Placed(lst, del, NoLabels, m, Witness(lst, del))
  <1> DEFINE n == NoLabels
             seq == [i \in 1..NoLabels |-> i - 1]
             base == [map |-> <<>>, free |-> <<>>, deleted |-> del, listed |-> lst]
             Maps == UNION {[E -> Nat] : E \in SUBSET Nat}
             D == [map : Maps, free : Seq(Nat), deleted : SUBSET Nat, listed : {lst}]
             op == [p \in (1..n) \X D |-> PlaceSignal(p[2], seq[p[1]])]
             Steps(X) == X = [T \in SUBSET DOMAIN seq |->
                                IF T = {} THEN base
                                ELSE PlaceSignal(X[T \ {Max(T)}], seq[Max(T)])]
             X == CHOOSE Y : Steps(Y)
  <1>1. n \in Nat /\ DOMAIN seq = 1..n /\ (\A i \in 1..n : seq[i] = i - 1 /\ i - 1 \in Signal)
    BY Numbers DEF Signal
  <1>2. Witness(lst, del) = X[DOMAIN seq]
    BY DEF Witness, FoldLeft, MapThenFoldSet
  <1>3. \A T \in SUBSET (1..n) : T # {} => Max(T) \in T
    <2> SUFFICES ASSUME NEW T \in SUBSET (1..n), T # {}  PROVE  Max(T) \in T
      OBVIOUS
    <2>1. T \in SUBSET (0..n) /\ n \in Nat
      BY <1>1
    <2> QED  BY <2>1, Bounds
  <1>4. base \in D
    <2>1. <<>> \in [{} -> Nat] /\ {} \in SUBSET Nat /\ <<>> \in Seq(Nat)
      OBVIOUS
    <2>2. <<>> \in Maps
      BY <2>1
    <2>3. del \in SUBSET Nat
      BY Numbers
    <2> HIDE DEF Maps
    <2> QED  BY <2>1, <2>2, <2>3
  <1>5. ASSUME NEW s \in Nat, NEW acc \in D  PROVE  PlaceSignal(acc, s) \in D
    <2>1. /\ acc = [map |-> acc.map, free |-> acc.free, deleted |-> acc.deleted, listed |-> acc.listed]
          /\ acc.map \in Maps /\ acc.free \in Seq(Nat) /\ acc.deleted \in SUBSET Nat /\ acc.listed = lst
      <3> HIDE DEF Maps
      <3> QED  OBVIOUS
    <2>2. \A p \in Nat : Only(s, p) ++ acc.map \in Maps
      <3> TAKE p \in Nat
      <3> DEFINE f == acc.map
                 g == Only(s, p) ++ f
      <3>1. PICK E \in SUBSET Nat : f \in [E -> Nat]
        BY <2>1
      <3> HIDE DEF f
      <3>2. g \in [{s} \cup E -> Nat] /\ {s} \cup E \in SUBSET Nat
        BY <3>1 DEF ++, Only
      <3> HIDE DEF g
      <3> QED  BY <3>2 DEF g, f
    <2>3. \A q \in Seq(Nat) : q # <<>> => Head(q) \in Nat /\ Append(Tail(q), s) \in Seq(Nat)
      OBVIOUS
    <2>4. \A q \in Seq(Nat) : Append(q, s) \in Seq(Nat)
      OBVIOUS
    <2> HIDE DEF Maps
    <2>5. CASE s \in acc.deleted
      <3>1. PlaceSignal(acc, s) = [acc EXCEPT !.free = Append(@, s)]
        BY <2>5 DEF PlaceSignal
      <3> QED  BY <3>1, <2>1, <2>4
    <2>6. CASE s \notin acc.deleted /\ s \notin Forbidden /\ s \notin DOMAIN acc.listed
      <3>1. PlaceSignal(acc, s) = [acc EXCEPT !.free = Append(@, s), !.deleted = @ \cup {s}]
        BY <2>6 DEF PlaceSignal
      <3> QED  BY <3>1, <2>1, <2>4
    <2>7. CASE s \notin acc.deleted /\ ~(s \notin Forbidden /\ s \notin DOMAIN acc.listed)
      <3>1. CASE acc.free # <<>>
        <4>1. PlaceSignal(acc, s) =
                 [acc EXCEPT !.map = Only(s, Head(acc.free)) ++ @, !.free = Append(Tail(@), s)]
          BY <2>7, <3>1 DEF PlaceSignal
        <4>2. Only(s, Head(acc.free)) ++ acc.map \in Maps /\ Append(Tail(acc.free), s) \in Seq(Nat)
          BY <3>1, <2>1, <2>2, <2>3
        <4> QED  BY <4>1, <4>2, <2>1
      <3>2. CASE acc.free = <<>>
        <4>1. PlaceSignal(acc, s) = [acc EXCEPT !.map = Only(s, s) ++ @]
          BY <2>7, <3>2 DEF PlaceSignal
        <4>2. Only(s, s) ++ acc.map \in Maps
          BY <2>2
        <4> QED  BY <4>1, <4>2, <2>1
      <3> QED  BY <3>1, <3>2
    <2> QED  BY <2>5, <2>6, <2>7
  <1>6. \E Y : Steps(Y)
    <2>1. op \in [(1..n) \X D -> D]
      <3>1. \A p \in (1..n) \X D : seq[p[1]] \in Nat /\ p[2] \in D
        <4>1. \A p \in (1..n) \X D : p[1] \in 1..n /\ p[2] \in D
          OBVIOUS
        <4> HIDE DEF D
        <4> QED  BY <4>1, <1>1, Numbers
      <3> HIDE DEF D
      <3> QED  BY <1>5, <3>1
    <2>3. \A i \in 1..n, m \in D : op[<<i, m>>] = PlaceSignal(m, seq[i])
      <3> HIDE DEF D
      <3> QED  OBVIOUS
    <2> HIDE DEF op, n, D, Steps, base, seq
    <2>4. HasLeft(n, D, base, op)
      <3>1. n \in Nat
        BY <1>1
      <3> QED  BY <3>1, <2>1, <1>4, LeftExists, Zenon
    <2>5. PICK W \in [SUBSET (1..n) -> D] : \A T \in SUBSET (1..n) :
              W[T] = IF T = {} THEN base ELSE op[<<Max(T), W[T \ {Max(T)}]>>]
      BY <2>4 DEF HasLeft
    <2>6. ASSUME NEW T \in SUBSET (1..n), T # {}
          PROVE  W[T] = PlaceSignal(W[T \ {Max(T)}], seq[Max(T)])
      <3>1. Max(T) \in 1..n /\ W[T \ {Max(T)}] \in D
        BY <1>3, <2>6
      <3>2. W[T] = op[<<Max(T), W[T \ {Max(T)}]>>]
        BY <2>5, <2>6, <3>1, <1>1
      <3> QED  BY <3>1, <3>2, <2>3
    <2>7. W = [T \in SUBSET DOMAIN seq |->
                                IF T = {} THEN base ELSE PlaceSignal(W[T \ {Max(T)}], seq[Max(T)])]
      BY <1>1, <2>5, <2>6
    <2>8. Steps(W)
      BY <2>7 DEF Steps
    <2> QED  BY <2>8
  <1>7. Steps(X)
    BY <1>6
  <1> HIDE DEF X, base, seq
  <1>8. X[{}] = base /\ \A T \in SUBSET (1..n) : T # {} =>
               X[T] = PlaceSignal(X[T \ {Max(T)}], seq[Max(T)])
    BY <1>7, <1>1
  <1> HIDE DEF Steps
  <1>9. \A k \in 1..n : X[1..k] = PlaceSignal(X[1..k - 1], k - 1)
    <2> TAKE k \in 1..n
    <2> HIDE DEF n
    <2>1. n \in Nat
      BY <1>1
    <2>2. /\ Max(1..k) = k /\ (1..k) \ {k} = 1..k - 1
          /\ 1..k \in SUBSET (1..n) /\ 1..k # {}
      BY <2>1, FirstOnes
    <2> QED  BY <2>2, <1>8, <1>1
  <1> DEFINE Q == {k \in 0..n : \E m : Placed(lst, del, k, m, X[1..k])}
  <1> HIDE DEF n
  <1>10. 0 \in Q
    <2>1. 1..0 = {} /\ 0 \in 0..n /\ 0..0 - 1 = {} /\ 0 - 0 = 0
      BY <1>1
    <2>2. base = [map |-> <<>>, free |-> <<>>, deleted |-> del, listed |-> lst]
      BY DEF base
    <2> DEFINE acc == base
    <2>3. /\ acc.map = <<>> /\ acc.free = <<>> /\ acc.deleted = del /\ acc.listed = lst
          /\ acc = [map |-> acc.map, free |-> acc.free, deleted |-> acc.deleted, listed |-> acc.listed]
      BY <2>2
    <2>4. del \cup {s \in Unlisted(lst) : s < 0} = del
      <3>1. \A s \in Unlisted(lst) : ~(s < 0)
        BY Numbers DEF Unlisted
      <3> QED  BY <3>1
    <2>5. /\ 0 \in 0..0 /\ DOMAIN <<>> = (0..0 - 1) \ del /\ Cardinality(DOMAIN <<>>) = 0
          /\ <<>> \in [DOMAIN <<>> -> 0..0 - 1]
          /\ <<>> \in Seq(Nat) /\ Len(<<>>) = 0 - 0
      BY <2>1, FS_EmptySet
    <2>6. \A i \in 0..0 - 1 : FALSE
      BY <2>1
    <2>7. \A i \in 1..0 - 0 : FALSE
      OBVIOUS
    <2>8. \A s \in DOMAIN <<>> : FALSE
      OBVIOUS
    <2> HIDE DEF base
    <2>9. Placed(lst, del, 0, 0, acc)
      BY <2>3, <2>4, <2>5, <2>6, <2>7, <2>8 DEF Placed
    <2> QED  BY <2>1, <2>9, <1>8
  <1>11. ASSUME NEW k \in 0..n - 1, k \in Q  PROVE  k + 1 \in Q
    <2>1. k \in Nat /\ k + 1 \in 1..n /\ k + 1 \in 0..n /\ k + 1 - 1 = k
      BY <1>1
    <2>2. X[1..k + 1] = PlaceSignal(X[1..k], k)
      <3>1. X[1..k + 1] = PlaceSignal(X[1..k + 1 - 1], k + 1 - 1)
        BY <1>9, <2>1
      <3> QED  BY <3>1, <2>1
    <2>3. PICK m : Placed(lst, del, k, m, X[1..k])
      BY <1>11
    <2> DEFINE acc == X[1..k]
    <2>4. k \in Signal
      BY <1>1 DEF Signal, n
    <2> HIDE DEF acc
    <2>5. \E l : Placed(lst, del, k + 1, l, PlaceSignal(acc, k))
      <3>1. Placed(lst, del, k, m, acc)
        BY <2>3 DEF acc
      <3> QED  BY <3>1, <2>4, PlaceStep
    <2> QED  BY <2>1, <2>2, <2>5 DEF acc
  <1> HIDE DEF Q
  <1>12. n \in Q
    <2>1. n \in Nat /\ n \in 0..n
      BY <1>1
    <2>2. \A k \in 0..n - 1 : k \in Q => k + 1 \in Q
      BY <1>11
    <2>3. \A k \in 0..n : k \in Q
      BY <2>1, <2>2, <1>10, F!UpToInduct
    <2> QED  BY <2>1, <2>3
  <1>13. \E m : Placed(lst, del, n, m, X[1..n])
    BY <1>12 DEF Q
  <1> QED  BY <1>1, <1>2, <1>13 DEF n

-----------------------------------------------------------------------------
(* The inductive invariant *)

Removable  == Signal \ Forbidden
Removals   == {m \in Replacements : DOMAIN m \subseteq Removable}

AllHold(cs, v) == \A i \in DOMAIN cs : Holds(cs[i], v)
Obeys(v, lg)   == \A r \in lg : v[r.from] = Value(r.to, v)
InLog(m, lg)   == \A s \in DOMAIN m : [from |-> s, to |-> m[s]] \in lg
Gone(lg)       == {r.from : r \in lg}
Entries(m)     == {[from |-> t, to |-> m[t]] : t \in DOMAIN m}
Logs           == SUBSET [from : Removable, to : Expr]

\* Whatever the values of the other signals, those of R can be chosen so that
\* the logged substitutions hold.
Extendable(R, lg) ==
    \A w \in Valuations : \E v \in Valuations :
        (\A s \in Signal \ R : v[s] = w[s]) /\ Obeys(v, lg)

Source(v)  == AllHold(circuit.constraints, v)
SimpleCons == Those(circuit.constraints, LAMBDA con : IsConstantEquality(con) \/ IsEquality(con))
Simple(v)  == AllHold(SimpleCons, v)

Jobs == [cluster : SUBSET Nat, todo : Seq(CleanLinear), uniques : SUBSET Signal,
         occurrences : UNION {[D -> Int] : D \in SUBSET Signal},
         work : Seq(CleanLinear), holder : UNION {[D -> Definition] : D \in SUBSET Signal},
         order : Seq(Signal)]

Typed ==
    /\ circuit \in Circuits /\ options \in Options
    /\ stage \in {"equalities", "constants", "linear", "nonlinear", "round", "witness", "done"}
    /\ equalities \in Seq(Equalities) /\ consEqualities \in Seq(OneSignal)
    /\ linear \in Seq(CleanLinear) /\ lconst \in Seq(Linear) /\ storage \in Seq(CleanCon)
    /\ single \in Removals /\ cons \in Removals /\ linearSubs \in Removals /\ subs \in Removals
    /\ deleted \subseteq Removable
    /\ log \in Logs
    /\ job \in Jobs

\* The clusters cls are of constraints of cs and have no signals in common.
Apart(cls, cs) ==
    /\ \A cl \in cls : cl # {} /\ cl \subseteq DOMAIN cs
    /\ \A c1, c2 \in cls : c1 # c2 => SigsIn(cs, c1) \cap SigsIn(cs, c2) = {}
ClustersHold(cls, cs, v) == \A cl \in cls : \A i \in cl : Holds(cs[i], v)

AtEqualities ==
    /\ Apart(clusters, equalities) /\ \A cl \in clusters : Connected(equalities, cl)
    /\ \A s \in DOMAIN single : \E r \in Signal \ {One} :
          /\ single[s] = Only(r, 1) /\ r \notin DOMAIN single
          /\ \A cl \in clusters : s \notin SigsIn(equalities, cl) /\ r \notin SigsIn(equalities, cl)
    /\ cons = <<>> /\ linearSubs = <<>> /\ subs = <<>> /\ job = Idle
    /\ storage = <<>> /\ listed = <<>>
    /\ InLog(single, log) /\ Gone(log) \subseteq DOMAIN single
    /\ AllSignalsOf(lconst) \subseteq Forbidden
    /\ ConstantsAgree => Extendable(DOMAIN single, log)
    /\ \A v \in Valuations :
          /\ Source(v) <=> /\ ClustersHold(clusters, equalities, v) /\ AllHold(consEqualities, v)
                           /\ AllHold(linear, v) /\ AllHold(NonLinear, v)
                           /\ AllHold(lconst, v) /\ Obeys(v, log)
          /\ Simple(v) => /\ ClustersHold(clusters, equalities, v) /\ AllHold(consEqualities, v)
                          /\ Obeys(v, log)

\* What the non-linear constraints will be told of the equalities and constants.
Framed ==
    /\ \A s \in DOMAIN single : \E r \in Signal \ {One} :
          single[s] = Only(r, 1) /\ Renamed(s) = r
    /\ \A s \in DOMAIN cons : DOMAIN cons[s] \subseteq {One}
    /\ InLog(single, log) /\ InLog(cons, log)

AtConstants ==
    /\ Framed
    /\ AllSignalsOf(linear) \cap deleted = {} /\ AllSignalsOf(consEqualities) \cap deleted = {}
    /\ \A s \in AllSignalsOf(NonLinear) : Renamed(s) \notin deleted
    /\ clusters = {} /\ linearSubs = <<>> /\ subs = <<>> /\ job = Idle
    /\ storage = <<>> /\ listed = <<>>
    /\ Gone(log) \subseteq deleted \cup DOMAIN cons
    /\ AllSignalsOf(lconst) \subseteq Forbidden
    /\ ConstantsAgree => Extendable(deleted \cup DOMAIN cons, log)
    /\ \A v \in Valuations :
          /\ Source(v) <=> /\ AllHold(consEqualities, v) /\ AllHold(linear, v)
                           /\ AllHold(NonLinear, v) /\ AllHold(lconst, v) /\ Obeys(v, log)
          /\ Simple(v) => AllHold(consEqualities, v) /\ Obeys(v, log)

Logged ==
    /\ Gone(log) \subseteq deleted
    /\ ConstantsAgree => Extendable(deleted, log)

AtNonLinear ==
    /\ Framed /\ Logged
    /\ InLog(linearSubs, log) /\ Images(linearSubs, DOMAIN linearSubs) \cap deleted = {}
    /\ \A s \in AllSignalsOf(NonLinear) :
          Renamed(s) \in deleted => Renamed(s) \in DOMAIN cons \cup DOMAIN linearSubs
    /\ clusters = {} /\ subs = <<>> /\ job = Idle
    /\ AllSignalsOf(lconst) \cap deleted = {}
    /\ options.linear => AllSignalsOf(lconst) \subseteq Forbidden
    /\ \A v \in Valuations :
          Source(v) <=> AllHold(NonLinear, v) /\ AllHold(lconst, v) /\ Obeys(v, log)

\* Every constraint of the storage is listed under all its signals.
Stored ==
    /\ listed \in Lists(DOMAIN storage) /\ Listing(storage, listed)
    /\ AllSignalsOf(storage) \cap deleted = {}

JobSignals == SigsIn(linear, job.cluster)

\* The order in which the definitions are to be made free of each other.
EarlierFree ==
    /\ \A s \in DOMAIN job.holder : s \notin DOMAIN job.holder[s].to
    /\ IF LessOccurrences
       THEN \A i, j \in DOMAIN job.order :
               i < j => job.order[j] \notin DOMAIN job.holder[job.order[i]].to
       ELSE \A s \in DOMAIN job.holder : \A t \in DOMAIN job.holder[s].to \ Forbidden : t < s

JobFits ==
    /\ job.cluster \subseteq DOMAIN linear
    /\ AllSignalsOf(job.todo) \subseteq JobSignals /\ AllSignalsOf(job.work) \subseteq JobSignals
    /\ Len(job.work) <= 1
    /\ DOMAIN job.holder \subseteq JobSignals \ Forbidden
    /\ \A s \in DOMAIN job.holder : DOMAIN job.holder[s].to \subseteq {One} \cup JobSignals
    /\ \A i \in DOMAIN job.order : job.order[i] \in DOMAIN job.holder
    /\ \A s \in DOMAIN job.holder : \E i \in DOMAIN job.order : job.order[i] = s
    /\ \A i, j \in DOMAIN job.order : i # j => job.order[i] # job.order[j]
    /\ EarlierFree
    /\ LessOccurrences => DOMAIN job.occurrences = (JobSignals \ Forbidden) \ DOMAIN job.holder

\* While the signals that one constraint has are taken.
UniquesFit ==
    job.uniques # {} =>
        /\ LessOccurrences /\ job.work = <<>> /\ job.uniques \subseteq Removable
        /\ AllSignalsOf(job.todo) \cap DOMAIN job.holder = {}
        /\ \A s \in job.uniques : \A i, j \in DOMAIN job.todo :
              s \in SignalsOf(job.todo[i]) /\ s \in SignalsOf(job.todo[j]) => i = j

JobHolds(v) ==
    /\ AllHold(job.todo, v) /\ AllHold(job.work, v)
    /\ \A s \in DOMAIN job.holder : Defines(v, s, job.holder[s])

Mentioned(m) == DOMAIN m \cup Images(m, DOMAIN m)
Eliminating ==
    /\ Apart(clusters, linear) /\ AllSignalsOf(linear) \cap deleted = {}
    /\ Images(subs, DOMAIN subs) \cap DOMAIN subs = {}
    /\ Mentioned(subs) \subseteq AllSignalsOf(linear)
    /\ \A cl \in clusters : SigsIn(linear, cl) \cap (Mentioned(subs) \cup JobSignals) = {}
    /\ JobSignals \cap Mentioned(subs) = {}
    /\ JobFits /\ UniquesFit
    /\ Logged
    /\ AllSignalsOf(lconst) \subseteq Forbidden
ClustersMean(v) ==
    ClustersHold(clusters, linear, v) /\ JobHolds(v) /\ Satisfies(v, subs)

AtLinear ==
    /\ Framed /\ Eliminating
    /\ \A s \in AllSignalsOf(NonLinear) : Renamed(s) \in deleted => Renamed(s) \in DOMAIN cons
    /\ linearSubs = <<>>
    /\ \A v \in Valuations :
          Source(v) <=> /\ ClustersMean(v) /\ AllHold(NonLinear, v) /\ AllHold(lconst, v)
                        /\ Obeys(v, log)
AtRound ==
    /\ Stored /\ Eliminating
    /\ \A v \in Valuations :
          Source(v) <=> /\ ClustersMean(v) /\ AllHold(storage, v) /\ AllHold(lconst, v)
                        /\ Obeys(v, log)
AtWitness ==
    /\ Stored /\ Logged
    /\ AllSignalsOf(linear) \cap deleted = {} /\ AllSignalsOf(lconst) \cap deleted = {}
    /\ clusters = {} /\ subs = <<>> /\ job = Idle
    /\ \A v \in Valuations :
          Source(v) <=> /\ AllHold(linear, v) /\ AllHold(storage, v) /\ AllHold(lconst, v)
                        /\ Obeys(v, log)
AtDone ==
    /\ WitnessLayout /\ Logged /\ job = Idle
    /\ Kept = Signal \ deleted
    /\ \A v \in Valuations : Source(v) <=> AllHold(storage, v) /\ Obeys(v, log)

Stages ==
    /\ stage = "equalities" => AtEqualities
    /\ stage = "constants" => AtConstants
    /\ stage = "linear" => AtLinear
    /\ stage = "nonlinear" => AtNonLinear
    /\ stage = "round" => AtRound
    /\ stage = "witness" => AtWitness
    /\ stage = "done" => AtDone

IInv == Typed /\ Stages

\* What is removed is never a signal that must stay.
LEMMA RemovesIs ==
    ASSUME NEW m, m \in Removals
    PROVE  /\ m \in Replacements /\ DOMAIN m \subseteq Removable /\ DOMAIN m \subseteq Signal \ {One}
           /\ \A s \in DOMAIN m : m[s] \in Expr
  BY ReplacementsAre DEF Removals

\* What a valuation is.
LEMMA ValuationsAre ==
    ASSUME NEW v \in Valuations
    PROVE  v \in [Signal -> Field] /\ v[One] = 1
  BY DEF Valuations

\* New entries of the log: the signals they replace, and when they hold.
LEMMA EntriesAre ==
    ASSUME NEW lg, NEW m
    PROVE  /\ InLog(m, lg \cup Entries(m))
           /\ \A f : InLog(f, lg) => InLog(f, lg \cup Entries(m))
           /\ Gone(lg \cup Entries(m)) = Gone(lg) \cup DOMAIN m
           /\ lg \in Logs /\ m \in Removals => lg \cup Entries(m) \in Logs
           /\ \A v : Obeys(v, lg \cup Entries(m)) <=> Obeys(v, lg) /\ Satisfies(v, m)
  <1> DEFINE E == Entries(m)
  <1>1. \A t \in DOMAIN m : [from |-> t, to |-> m[t]] \in E
    BY DEF Entries
  <1>2. \A r \in E : \E t \in DOMAIN m : r = [from |-> t, to |-> m[t]]
    BY DEF Entries
  <1>3. \A r \in E : r.from \in DOMAIN m /\ r.to = m[r.from]
    BY <1>2
  <1>4. \A t \in DOMAIN m : \E r \in E : r.from = t /\ r.to = m[t]
    <2> TAKE t \in DOMAIN m
    <2>1. [from |-> t, to |-> m[t]].from = t /\ [from |-> t, to |-> m[t]].to = m[t]
      OBVIOUS
    <2> HIDE DEF E
    <2> QED  BY <2>1, <1>1
  <1>5. m \in Removals => E \subseteq [from : Removable, to : Expr]
    <2> SUFFICES ASSUME m \in Removals, NEW r \in E  PROVE  r \in [from : Removable, to : Expr]
      OBVIOUS
    <2>1. PICK t \in DOMAIN m : r = [from |-> t, to |-> m[t]]
      BY <1>2
    <2>2. t \in Removable /\ m[t] \in Expr
      BY RemovesIs
    <2> QED  BY <2>1, <2>2
  <1> HIDE DEF E
  <1>6. InLog(m, lg \cup E)
    BY <1>1 DEF InLog
  <1>7. \A f : InLog(f, lg) => InLog(f, lg \cup E)
    BY DEF InLog
  <1>8. Gone(lg \cup E) = Gone(lg) \cup DOMAIN m
    BY <1>3, <1>4 DEF Gone
  <1>9. lg \in Logs /\ m \in Removals => lg \cup E \in Logs
    BY <1>5 DEF Logs
  <1>10. \A v : Obeys(v, lg \cup E) <=> Obeys(v, lg) /\ Satisfies(v, m)
    BY <1>3, <1>4 DEF Obeys, Satisfies
  <1> QED  BY <1>6, <1>7, <1>8, <1>9, <1>10 DEF E

\* Substitutions that are in the log hold where the log does.
LEMMA LoggedHolds ==
    ASSUME NEW lg, NEW m, InLog(m, lg), NEW v, Obeys(v, lg)
    PROVE  Satisfies(v, m)
  <1> SUFFICES ASSUME NEW s \in DOMAIN m  PROVE  v[s] = Value(m[s], v)
    BY DEF Satisfies
  <1> DEFINE r == [from |-> s, to |-> m[s]]
  <1>1. r \in lg /\ r.from = s /\ r.to = m[s]
    BY DEF InLog
  <1> HIDE DEF r
  <1> QED  BY <1>1 DEF Obeys

\* The removed signals are computed from the others.
LEMMA ExtendedBy ==
    ASSUME NEW R, NEW lg, Extendable(R, lg), NEW m \in Replacements,
           (DOMAIN m \cup Images(m, DOMAIN m)) \cap R = {},
           Images(m, DOMAIN m) \cap DOMAIN m = {}
    PROVE  Extendable(R \cup DOMAIN m, lg \cup Entries(m))
  <1> SUFFICES ASSUME NEW w \in Valuations
               PROVE  \E v \in Valuations : (\A s \in Signal \ (R \cup DOMAIN m) : v[s] = w[s])
                                            /\ Obeys(v, lg \cup Entries(m))
    BY DEF Extendable
  <1> DEFINE x == [s \in Signal |-> IF s \in DOMAIN m THEN Value(m[s], w) ELSE w[s]]
  <1>1. w \in [Signal -> Field] /\ w[One] = 1
    BY ValuationsAre
  <1>2. DOMAIN m \in SUBSET (Signal \ {One}) /\ \A s \in DOMAIN m : m[s] \in Expr
    BY ReplacementsAre
  <1>3. x \in Valuations /\ (\A s \in DOMAIN m : x[s] = Value(m[s], w))
        /\ \A s \in Signal \ DOMAIN m : x[s] = w[s]
    <2>1. \A s \in DOMAIN m : Value(m[s], w) \in Field
      BY <1>1, <1>2, ValueIn
    <2> QED  BY <1>1, <1>2, <2>1, Numbers DEF Valuations
  <1> HIDE DEF x
  <1>4. PICK v \in Valuations : (\A s \in Signal \ R : v[s] = x[s]) /\ Obeys(v, lg)
    BY <1>3 DEF Extendable
  <1>5. v \in [Signal -> Field] /\ v[One] = 1
    BY ValuationsAre
  <1>6. ASSUME NEW s \in DOMAIN m  PROVE  v[s] = Value(m[s], v)
    <2>1. v[s] = Value(m[s], w)
      BY <1>2, <1>3, <1>4, <1>6
    <2>2. ASSUME NEW t \in DOMAIN m[s]  PROVE  v[t] = w[t]
      <3>1. CASE t = One
        BY <3>1, <1>1, <1>5
      <3>2. CASE t # One
        <4>1. t \in Images(m, DOMAIN m)
          BY <3>2, <2>2, <1>6 DEF Images
        <4>2. t \in Signal
          <5>1. m[s] \in Expr
            BY <1>2, <1>6
          <5> QED  BY <5>1, <2>2, ExprIs
        <4> QED  BY <4>1, <4>2, <1>3, <1>4
      <3> QED  BY <3>1, <3>2
    <2>3. m[s] \in Expr
      BY <1>2, <1>6
    <2>4. Value(m[s], v) = Value(m[s], w)
      BY <2>2, <2>3, <1>1, <1>5, ValueDepends
    <2> QED  BY <2>1, <2>4
  <1>7. Obeys(v, lg \cup Entries(m))
    BY <1>4, <1>6, EntriesAre DEF Satisfies
  <1>8. \A s \in Signal \ (R \cup DOMAIN m) : v[s] = w[s]
    BY <1>3, <1>4
  <1> QED  BY <1>7, <1>8

\* What holds of all constraints of a sequence.
LEMMA AtHolds ==
    ASSUME NEW S, NEW cs \in Seq(S), NEW ids, NEW v
    PROVE  AllHold(At(cs, ids), v) <=> \A j \in ids \cap DOMAIN cs : Holds(cs[j], v)
  <1> DEFINE A == At(cs, ids)
  <1>1. (\A i \in DOMAIN A : \E j \in ids \cap DOMAIN cs : A[i] = cs[j])
        /\ \A j \in ids \cap DOMAIN cs : \E i \in DOMAIN A : A[i] = cs[j]
    BY AtIs
  <1> HIDE DEF A
  <1>2. AllHold(A, v) <=> \A j \in ids \cap DOMAIN cs : Holds(cs[j], v)
    BY <1>1 DEF AllHold
  <1> QED  BY <1>2 DEF A

\* The signals of the constraints that are picked from a sequence.
LEMMA AtSignals ==
    ASSUME NEW S, NEW cs \in Seq(S), NEW ids
    PROVE  AllSignalsOf(At(cs, ids)) = UNION {SignalsOf(cs[j]) : j \in ids \cap DOMAIN cs}
  <1> DEFINE A == At(cs, ids)
  <1>1. (\A i \in DOMAIN A : \E j \in ids \cap DOMAIN cs : A[i] = cs[j])
        /\ \A j \in ids \cap DOMAIN cs : \E i \in DOMAIN A : A[i] = cs[j]
    BY AtIs
  <1> HIDE DEF A
  <1>2. AllSignalsOf(A) = UNION {SignalsOf(cs[j]) : j \in ids \cap DOMAIN cs}
    BY <1>1 DEF AllSignalsOf
  <1> QED  BY <1>2 DEF A

\* One sequence of constraints after the other.
LEMMA JoinedSequences ==
    ASSUME NEW S, NEW a \in Seq(S), NEW b \in Seq(S)
    PROVE  /\ a \o b \in Seq(S)
           /\ \A v : AllHold(a \o b, v) <=> AllHold(a, v) /\ AllHold(b, v)
           /\ AllSignalsOf(a \o b) = AllSignalsOf(a) \cup AllSignalsOf(b)
           /\ \A i \in DOMAIN a : i \in DOMAIN (a \o b) /\ (a \o b)[i] = a[i]
  <1> DEFINE c == a \o b
  <1>1. /\ c \in Seq(S) /\ Len(c) = Len(a) + Len(b)
        /\ \A i \in 1..Len(a) + Len(b) : c[i] = IF i <= Len(a) THEN a[i] ELSE b[i - Len(a)]
        /\ Len(a) \in Nat /\ Len(b) \in Nat /\ DOMAIN a = 1..Len(a) /\ DOMAIN b = 1..Len(b)
        /\ DOMAIN c = 1..Len(c)
    OBVIOUS
  <1> HIDE DEF c
  <1>2. \A i \in DOMAIN a : i \in DOMAIN c /\ c[i] = a[i]
    BY <1>1
  <1>3. \A i \in DOMAIN b : Len(a) + i \in DOMAIN c /\ c[Len(a) + i] = b[i]
    BY <1>1
  <1>4. \A i \in DOMAIN c : (i \in DOMAIN a /\ c[i] = a[i]) \/ \E j \in DOMAIN b : c[i] = b[j]
    <2> TAKE i \in DOMAIN c
    <2>1. CASE i <= Len(a)
      BY <2>1, <1>1
    <2>2. CASE ~(i <= Len(a))
      <3>1. i - Len(a) \in DOMAIN b /\ c[i] = b[i - Len(a)]
        BY <2>2, <1>1
      <3> QED  BY <3>1
    <2> QED  BY <2>1, <2>2
  <1>5. \A v : AllHold(c, v) <=> AllHold(a, v) /\ AllHold(b, v)
    BY <1>2, <1>3, <1>4 DEF AllHold
  <1>6. AllSignalsOf(c) = AllSignalsOf(a) \cup AllSignalsOf(b)
    BY <1>2, <1>3, <1>4 DEF AllSignalsOf
  <1> QED  BY <1>1, <1>2, <1>5, <1>6 DEF c

\* The clusters are of all constraints that say anything.
LEMMA ClustersFit ==
    ASSUME NEW cs \in Seq(CleanLinear)
    PROVE  /\ Apart(Clusters(cs), cs)
           /\ \A cl \in Clusters(cs) : Connected(cs, cl)
           /\ \A v \in Valuations : ClustersHold(Clusters(cs), cs, v) <=> AllHold(cs, v)
  <1> DEFINE cls == Clusters(cs)
  <1>1. AreClusters(cs, DOMAIN cs, cls)
    BY ClustersAre
  <1> HIDE DEF cls
  <1>2. /\ \A cl \in cls : cl # {} /\ cl \subseteq DOMAIN cs /\ Connected(cs, cl)
        /\ \A c1, c2 \in cls : c1 # c2 => SigsIn(cs, c1) \cap SigsIn(cs, c2) = {}
        /\ \A i \in DOMAIN cs : cs[i] = EmptyConstraint \/ \E cl \in cls : i \in cl
    BY <1>1 DEF AreClusters
  <1>3. \A v \in Valuations : Holds(EmptyConstraint, v)
    BY ZeroIs, LinearHolds, ValuationsAre DEF EmptyConstraint
  <1>4. \A v \in Valuations : ClustersHold(cls, cs, v) <=> AllHold(cs, v)
    BY <1>2, <1>3 DEF ClustersHold, AllHold
  <1>5. Apart(cls, cs)
    BY <1>2 DEF Apart
  <1> QED  BY <1>2, <1>4, <1>5 DEF cls

\* A sequence whose elements are in T.
LEMMA SequenceOf ==
    ASSUME NEW S, NEW T, NEW q \in Seq(S), \A i \in DOMAIN q : q[i] \in T
    PROVE  q \in Seq(T)
  <1>1. Len(q) \in Nat /\ DOMAIN q = 1..Len(q) /\ q = [i \in 1..Len(q) |-> q[i]]
    OBVIOUS
  <1>2. q \in [1..Len(q) -> T]
    BY <1>1
  <1> QED  BY <1>1, <1>2

\* The constraints the program generated are clean, and the constant must stay.
LEMMA Constraints ==
    ASSUME circuit \in Circuits
    PROVE  /\ circuit.constraints \in Seq(CleanCon)
           /\ \A i \in DOMAIN circuit.constraints : circuit.constraints[i] \in CleanCon
           /\ NonLinear \in Seq(CleanCon)
           /\ Forbidden \subseteq Signal /\ One \in Forbidden /\ Removable \subseteq Signal \ {One}
  <1>1. circuit.constraints \in Seq(CleanCon) /\ circuit.customGates \subseteq Signal
    BY CircuitsAssumption DEF CleanCon
  <1>2. \A i \in DOMAIN circuit.constraints : circuit.constraints[i] \in CleanCon
    BY <1>1
  <1>3. NonLinear \in Seq(CleanCon)
    BY <1>1, AtIs DEF NonLinear, Those
  <1>4. Public \subseteq Signal
    BY CircuitsAssumption DEF Public, Signal
  <1> QED  BY <1>1, <1>2, <1>3, <1>4, Numbers DEF Forbidden, Removable

\* The invariant holds at the start (map_tree): the constraints have been sorted
\* into lists by their kinds, none has been lost, and the equalities are in clusters.
LEMMA AtStart ==
    ASSUME Init
    PROVE  IInv
  <1> DEFINE con == circuit.constraints
             E == {i \in DOMAIN con : (IsLinear(con[i]) /\ ~IsConstantEquality(con[i])) /\ IsEquality(con[i])}
             C == {i \in DOMAIN con : IsConstantEquality(con[i])}
             L == {i \in DOMAIN con : (IsLinear(con[i]) /\ ~IsConstantEquality(con[i])) /\ ~IsEquality(con[i])}
             N == {i \in DOMAIN con : ~IsLinear(con[i])}
             M == {i \in DOMAIN con : IsConstantEquality(con[i]) \/ IsEquality(con[i])}
  <1>1. /\ circuit \in Circuits /\ options \in Options /\ stage = "equalities"
        /\ lconst = <<>> /\ single = <<>> /\ cons = <<>> /\ linearSubs = <<>>
        /\ clusters = Clusters(equalities) /\ job = Idle /\ subs = <<>> /\ deleted = {}
        /\ storage = <<>> /\ listed = <<>> /\ log = {}
    BY DEF Init
  <1>2. equalities = At(con, E) /\ consEqualities = At(con, C) /\ linear = At(con, L)
    BY DEF Init, Those
  <1>3. NonLinear = At(con, N) /\ SimpleCons = At(con, M)
    BY DEF NonLinear, SimpleCons, Those
  <1>4. con \in Seq(CleanCon) /\ \A i \in DOMAIN con : con[i] \in CleanCon
    BY <1>1, Constraints
  <1>5. /\ \A i \in E : i \in DOMAIN con /\ con[i] \in Equalities
        /\ \A i \in C : i \in DOMAIN con /\ con[i] \in OneSignal
        /\ \A i \in L : i \in DOMAIN con /\ con[i] \in CleanLinear
    <2>1. \A i \in DOMAIN con : IsConstantEquality(con[i]) => IsLinear(con[i])
      BY DEF IsConstantEquality
    <2>2. \A i \in DOMAIN con : IsLinear(con[i]) => con[i] \in CleanLinear
      BY <1>4, ConIs
    <2> HIDE DEF con
    <2> QED  BY <2>1, <2>2, ConstantEqualityIs DEF Equalities
  <1>6. DOMAIN con = C \cup E \cup L \cup N /\ C \cup E \subseteq M
    OBVIOUS
  <1> HIDE DEF E, C, L, N, M, con
  <1>7. /\ equalities \in Seq(Equalities) /\ consEqualities \in Seq(OneSignal)
        /\ linear \in Seq(CleanLinear)
    <2>1. \A ids : At(con, ids) \in Seq(CleanCon)
                   /\ \A i \in DOMAIN At(con, ids) : \E j \in ids \cap DOMAIN con : At(con, ids)[i] = con[j]
      BY <1>4, AtIs
    <2>2. At(con, E) \in Seq(Equalities)
      <3> DEFINE q == At(con, E)
      <3>1. q \in Seq(CleanCon) /\ \A i \in DOMAIN q : q[i] \in Equalities
        BY <2>1, <1>5
      <3> HIDE DEF q
      <3>2. q \in Seq(Equalities)
        BY <3>1, SequenceOf
      <3> QED  BY <3>2 DEF q
    <2>3. At(con, C) \in Seq(OneSignal)
      <3> DEFINE q == At(con, C)
      <3>1. q \in Seq(CleanCon) /\ \A i \in DOMAIN q : q[i] \in OneSignal
        BY <2>1, <1>5
      <3> HIDE DEF q
      <3>2. q \in Seq(OneSignal)
        BY <3>1, SequenceOf
      <3> QED  BY <3>2 DEF q
    <2>4. At(con, L) \in Seq(CleanLinear)
      <3> DEFINE q == At(con, L)
      <3>1. q \in Seq(CleanCon) /\ \A i \in DOMAIN q : q[i] \in CleanLinear
        BY <2>1, <1>5
      <3> HIDE DEF q
      <3>2. q \in Seq(CleanLinear)
        BY <3>1, SequenceOf
      <3> QED  BY <3>2 DEF q
    <2> QED  BY <2>2, <2>3, <2>4, <1>2
  <1>8. equalities \in Seq(CleanLinear)
    <2>1. \A i \in DOMAIN equalities : equalities[i] \in CleanLinear
      BY <1>7 DEF Equalities
    <2> QED  BY <2>1, <1>7, SequenceOf
  <1>9. /\ Apart(clusters, equalities)
        /\ \A cl \in clusters : Connected(equalities, cl)
        /\ \A v \in Valuations : ClustersHold(clusters, equalities, v) <=> AllHold(equalities, v)
    BY <1>1, <1>8, ClustersFit
  <1>10. \A v : /\ AllHold(equalities, v) <=> \A j \in E : Holds(con[j], v)
                /\ AllHold(consEqualities, v) <=> \A j \in C : Holds(con[j], v)
                /\ AllHold(linear, v) <=> \A j \in L : Holds(con[j], v)
                /\ AllHold(NonLinear, v) <=> \A j \in N : Holds(con[j], v)
                /\ AllHold(SimpleCons, v) <=> \A j \in M : Holds(con[j], v)
    <2>1. \A ids, v : ids \subseteq DOMAIN con =>
             (AllHold(At(con, ids), v) <=> \A j \in ids : Holds(con[j], v))
      BY <1>4, AtHolds
    <2>2. M \subseteq DOMAIN con
      BY DEF M
    <2> QED  BY <2>1, <2>2, <1>2, <1>3, <1>6
  <1>11. \A v : /\ AllHold(lconst, v) /\ Obeys(v, log)
                /\ Source(v) <=> \A j \in DOMAIN con : Holds(con[j], v)
    BY <1>1 DEF AllHold, Obeys, Source, con
  <1>12. \A v \in Valuations :
          /\ Source(v) <=> /\ ClustersHold(clusters, equalities, v) /\ AllHold(consEqualities, v)
                           /\ AllHold(linear, v) /\ AllHold(NonLinear, v)
                           /\ AllHold(lconst, v) /\ Obeys(v, log)
          /\ Simple(v) => /\ ClustersHold(clusters, equalities, v) /\ AllHold(consEqualities, v)
                          /\ Obeys(v, log)
    BY <1>6, <1>9, <1>10, <1>11 DEF Simple
  <1>13. Extendable({}, {})
    BY DEF Extendable, Obeys
  <1>14. DOMAIN single = {}
    BY <1>1
  <1>15. AtEqualities
    <2>1. InLog(single, log) /\ Gone(log) \subseteq DOMAIN single
      BY <1>1, <1>14 DEF InLog, Gone
    <2>2. AllSignalsOf(lconst) \subseteq Forbidden
      BY <1>1 DEF AllSignalsOf
    <2>3. ConstantsAgree => Extendable(DOMAIN single, log)
      BY <1>1, <1>13, <1>14
    <2> QED  BY <2>1, <2>2, <2>3, <1>1, <1>9, <1>12, <1>14 DEF AtEqualities
  <1>16. Typed
    <2>1. <<>> \in Removals
      BY NoReplacements DEF Removals
    <2>2. job \in Jobs
      <3>1. /\ {} \in SUBSET Nat /\ {} \in SUBSET Signal /\ <<>> \in Seq(CleanLinear)
            /\ <<>> \in Seq(Signal)
            /\ <<>> \in UNION {[D -> Int] : D \in SUBSET Signal}
            /\ <<>> \in UNION {[D -> Definition] : D \in SUBSET Signal}
        <4>1. {} \in SUBSET Signal /\ <<>> \in [{} -> Int] /\ <<>> \in [{} -> Definition]
          OBVIOUS
        <4> QED  BY <4>1
      <3> QED  BY <3>1, <1>1 DEF Jobs, Idle
    <2>3. lconst \in Seq(Linear) /\ storage \in Seq(CleanCon) /\ log \in Logs
      BY <1>1 DEF Logs
    <2> QED  BY <1>1, <1>7, <2>1, <2>2, <2>3 DEF Typed
  <1>17. Stages
    BY <1>1, <1>15 DEF Stages
  <1> QED  BY <1>16, <1>17 DEF IInv

\* The circuit does not change, nor what is said of it alone.
LEMMA SameCircuit ==
    ASSUME circuit' = circuit
    PROVE  /\ Forbidden' = Forbidden /\ Removable' = Removable /\ Logs' = Logs
           /\ NonLinear' = NonLinear /\ ConstantsAgree' = ConstantsAgree
           /\ \A v : (Source(v)' <=> Source(v)) /\ (Simple(v)' <=> Simple(v))
           /\ Removals' = Removals
  <1>1. Forbidden' = Forbidden
    BY DEF Forbidden
  <1>2. Removable' = Removable
    BY <1>1 DEF Removable
  <1>3. NonLinear' = NonLinear
    BY DEF NonLinear, Those
  <1>4. ConstantsAgree' = ConstantsAgree
    BY DEF ConstantsAgree, Those
  <1>5. \A v : Source(v)' <=> Source(v)
    BY DEF Source
  <1>6. \A v : Simple(v)' <=> Simple(v)
    BY DEF Simple, SimpleCons, Those
  <1>7. Removals' = Removals
    BY <1>2 DEF Removals
  <1>8. Logs' = Logs
    BY <1>2 DEF Logs
  <1> QED  BY <1>1, <1>2, <1>3, <1>4, <1>5, <1>6, <1>7, <1>8

\* The equalities of a cluster make all its signals equal.
LEMMA ClusterIs ==
    ASSUME equalities \in Seq(Equalities), NEW cl, cl # {}, cl \subseteq DOMAIN equalities,
           Connected(equalities, cl)
    PROVE  /\ SigsIn(equalities, cl) \in SUBSET (Signal \ {One}) /\ SigsIn(equalities, cl) # {}
           /\ IsFiniteSet(cl)
           /\ \A v \in [Signal -> Field] : (\A i \in cl : Holds(equalities[i], v)) <=>
                 \A s, t \in SigsIn(equalities, cl) : v[s] = v[t]
  <1> DEFINE sigs == SigsIn(equalities, cl)
  <1>1. \A i \in cl : equalities[i] \in Equalities
    OBVIOUS
  <1>2. \A i \in cl : SignalsOf(equalities[i]) # {} /\ SignalsOf(equalities[i]) \subseteq Signal \ {One}
    BY <1>1, EqualityIs
  <1>3. \A i \in cl : \A v \in [Signal -> Field] :
           Holds(equalities[i], v) <=> \A s, t \in SignalsOf(equalities[i]) : v[s] = v[t]
    <2> SUFFICES ASSUME NEW i \in cl, NEW v \in [Signal -> Field]
                 PROVE  Holds(equalities[i], v) <=> \A s, t \in SignalsOf(equalities[i]) : v[s] = v[t]
      OBVIOUS
    <2>1. PICK s, t \in Signal \ {One} :
              /\ s # t /\ SignalsOf(equalities[i]) = {s, t}
              /\ \A u \in [Signal -> Field] : Holds(equalities[i], u) <=> u[s] = u[t]
      BY <1>1, EqualityIs
    <2> QED  BY <2>1
  <1>4. IsFiniteSet(cl)
    <2>1. Len(equalities) \in Nat /\ DOMAIN equalities = 1..Len(equalities)
      OBVIOUS
    <2>2. IsFiniteSet(1..Len(equalities))
      BY <2>1, FS_Interval
    <2> QED  BY <2>1, <2>2, FS_Subset
  <1>5. sigs \in SUBSET (Signal \ {One}) /\ sigs # {}
    BY <1>2 DEF SigsIn
  <1>6. \A v \in [Signal -> Field] :
           (\A i \in cl : Holds(equalities[i], v)) => \A s, t \in sigs : v[s] = v[t]
    BY <1>3 DEF Connected
  <1>7. \A i \in cl : SignalsOf(equalities[i]) \subseteq sigs
    BY DEF SigsIn
  <1> HIDE DEF sigs
  <1>8. \A v \in [Signal -> Field] :
           (\A s, t \in sigs : v[s] = v[t]) => \A i \in cl : Holds(equalities[i], v)
    BY <1>3, <1>7
  <1> QED  BY <1>4, <1>5, <1>6, <1>8 DEF sigs

\* The signal that stands for a cluster is one that must stay if there is one.
LEMMA RepresentativeIs ==
    ASSUME NEW sigs \in SUBSET (Signal \ {One}), sigs # {}
    PROVE  /\ Representative(sigs) \in sigs
           /\ sigs \cap Forbidden # {} => Representative(sigs) \in Forbidden
  <1>1. \A S \in SUBSET sigs : S # {} => Min(S) \in S
    <2> SUFFICES ASSUME NEW S \in SUBSET sigs, S # {}  PROVE  Min(S) \in S
      OBVIOUS
    <2>1. S \in SUBSET (0..NoLabels) /\ NoLabels \in Nat
      BY Numbers DEF Signal
    <2> QED  BY <2>1, Bounds
  <1> QED  BY <1>1 DEF Representative

\* What is written for a cluster.
NewSingle(sigs) ==
    [s \in (sigs \ Forbidden) \ {Representative(sigs)} |-> Only(Representative(sigs), 1)]
LeftOver(sigs)  == SetToSeq((sigs \cap Forbidden) \ {Representative(sigs)})
NewConstraints(cl, sigs) ==
    IF Cardinality(cl) = 1 /\ LeftOver(sigs) # <<>>
    THEN [i \in 1..1 |-> equalities[CHOOSE j \in cl : TRUE]]
    ELSE Each(LeftOver(sigs), LAMBDA s : EqualTo(s, Representative(sigs)))

\* The other signals of a cluster of equalities are replaced by the one that stands for it.
LEMMA NewSingleIs ==
    ASSUME NEW sigs \in SUBSET (Signal \ {One}), sigs # {}
    PROVE  /\ NewSingle(sigs) \in Removals
           /\ DOMAIN NewSingle(sigs) = (sigs \ Forbidden) \ {Representative(sigs)}
           /\ \A s \in DOMAIN NewSingle(sigs) : NewSingle(sigs)[s] = Only(Representative(sigs), 1)
           /\ Images(NewSingle(sigs), DOMAIN NewSingle(sigs)) \subseteq {Representative(sigs)}
           /\ \A v \in [Signal -> Field] : Satisfies(v, NewSingle(sigs)) <=>
                 \A s \in DOMAIN NewSingle(sigs) : v[s] = v[Representative(sigs)]
  <1> DEFINE r == Representative(sigs)
             D == (sigs \ Forbidden) \ {r}
             m == NewSingle(sigs)
  <1>1. r \in sigs /\ r \in Signal
    BY RepresentativeIs
  <1>2. DOMAIN m = D /\ (\A s \in D : m[s] = Only(r, 1)) /\ m = [s \in D |-> Only(r, 1)]
    BY DEF NewSingle
  <1>3. Only(r, 1) \in Expr /\ DOMAIN Only(r, 1) = {r}
        /\ \A v \in [Signal -> Field] : Value(Only(r, 1), v) = (1 * v[r]) % P
    <2> HIDE DEF r
    <2>1. 1 \in Field
      BY Numbers
    <2>2. ASSUME NEW v \in [Signal -> Field]
          PROVE  Only(r, 1) \in Expr /\ DOMAIN Only(r, 1) = {r} /\ Value(Only(r, 1), v) = (1 * v[r]) % P
      BY <1>1, <2>1, <2>2, ValueOfOnly
    <2>3. [s \in Signal |-> 1] \in [Signal -> Field]
      BY <2>1
    <2> QED  BY <2>2, <2>3
  <1>4. D \subseteq Removable /\ D \in SUBSET (Signal \ {One})
    BY DEF Removable
  <1> HIDE DEF m, D, r
  <1>5. m \in Replacements
    BY <1>2, <1>3, <1>4 DEF Replacements
  <1>6. Images(m, DOMAIN m) \subseteq {r}
    BY <1>2, <1>3 DEF Images
  <1>7. \A v \in [Signal -> Field] : Satisfies(v, m) <=> \A s \in D : v[s] = v[r]
    <2> TAKE v \in [Signal -> Field]
    <2>1. v[r] \in Field /\ v[r] \in Int
      BY <1>1, ValuationIs
    <2>2. 1 * v[r] = v[r]
      BY <2>1
    <2>3. v[r] % P = v[r]
      BY <2>1, SameIs
    <2>4. Value(Only(r, 1), v) = v[r]
      BY <2>2, <2>3, <1>3
    <2> QED  BY <2>4, <1>2 DEF Satisfies
  <1> QED  BY <1>2, <1>4, <1>5, <1>6, <1>7 DEF Removals, m, D, r

\* The substitutions of a cluster of equalities and the constraints between its signals that
\* must stay say what the equalities of the cluster said.
LEMMA NewConstraintsAre ==
    ASSUME equalities \in Seq(Equalities), NEW cl, cl # {}, cl \subseteq DOMAIN equalities,
           Connected(equalities, cl), NEW sigs, sigs = SigsIn(equalities, cl)
    PROVE  /\ NewConstraints(cl, sigs) \in Seq(Linear)
           /\ AllSignalsOf(NewConstraints(cl, sigs)) \subseteq Forbidden
           /\ \A v \in [Signal -> Field] : (\A i \in cl : Holds(equalities[i], v)) <=>
                 Satisfies(v, NewSingle(sigs)) /\ AllHold(NewConstraints(cl, sigs), v)
  <1> DEFINE r == Representative(sigs)
             m == NewSingle(sigs)
             L == (sigs \cap Forbidden) \ {r}
             q == LeftOver(sigs)
             add == NewConstraints(cl, sigs)
  <1>1. /\ sigs \in SUBSET (Signal \ {One}) /\ sigs # {} /\ IsFiniteSet(cl)
        /\ \A v \in [Signal -> Field] : (\A i \in cl : Holds(equalities[i], v)) <=>
                 \A s, t \in sigs : v[s] = v[t]
    BY ClusterIs
  <1>2. r \in sigs /\ (sigs \cap Forbidden # {} => r \in Forbidden)
    BY <1>1, RepresentativeIs
  <1>3. /\ DOMAIN m = (sigs \ Forbidden) \ {r}
        /\ \A v \in [Signal -> Field] : Satisfies(v, m) <=> \A s \in DOMAIN m : v[s] = v[r]
    BY <1>1, NewSingleIs
  <1>4. /\ q \in Seq(L) /\ (\A i \in DOMAIN q : q[i] \in L)
        /\ \A s \in L : \E i \in DOMAIN q : q[i] = s
    <2>1. L \in SUBSET Signal
      BY <1>1
    <2>2. IsFiniteSet(L)
      BY <2>1, SignalSets
    <2> HIDE DEF L
    <2>3. /\ SetToSeq(L) \in Seq(L)
          /\ \A i \in DOMAIN SetToSeq(L) : SetToSeq(L)[i] \in L
          /\ \A s \in L : \E i \in DOMAIN SetToSeq(L) : SetToSeq(L)[i] = s
      BY <2>2, SetToSeqIs
    <2> QED  BY <2>3 DEF LeftOver, L
  <1>5. add = IF Cardinality(cl) = 1 /\ q # <<>>
              THEN [i \in 1..1 |-> equalities[CHOOSE j \in cl : TRUE]]
              ELSE <<>> \o [i \in DOMAIN q |-> EqualTo(q[i], r)]
    BY DEF NewConstraints, Each
  <1>6. \A s, t : s \in L => s \in sigs /\ s \in Forbidden /\ s # r /\ r \in Forbidden
    BY <1>2
  <1>7. \A s \in sigs : s = r \/ s \in L \/ s \in DOMAIN m
    BY <1>3
  <1> HIDE DEF m, q, add
  <1>8. CASE Cardinality(cl) = 1 /\ q # <<>>
    <2>1. PICK j \in cl : cl = {j}
      BY <1>1, <1>8, OneElement
    <2>2. (CHOOSE i \in cl : TRUE) = j
      BY <2>1
    <2>3. add = [i \in 1..1 |-> equalities[j]]
      BY <1>5, <1>8, <2>2
    <2>4. equalities[j] \in Equalities
      BY <2>1
    <2>5. equalities[j] \in Linear
      BY <2>4, ConIs DEF Equalities
    <2>6. add \in Seq(Linear) /\ DOMAIN add = {1} /\ add[1] = equalities[j]
      BY <2>3, <2>5
    <2>7. \A v : AllHold(add, v) <=> \A i \in cl : Holds(equalities[i], v)
      BY <2>1, <2>6 DEF AllHold
    <2>8. AllSignalsOf(add) = sigs
      BY <2>1, <2>6 DEF AllSignalsOf, SigsIn
    <2>9. sigs \subseteq Forbidden
      <3>1. PICK s, t \in Signal \ {One} : s # t /\ SignalsOf(equalities[j]) = {s, t}
        BY <2>4, EqualityIs
      <3>2. sigs = {s, t}
        BY <2>1, <3>1 DEF SigsIn
      <3>3. L # {}
        <4>1. Len(q) # 0 /\ Len(q) \in Nat /\ DOMAIN q = 1..Len(q)
          BY <1>4, <1>8
        <4>2. 1 \in DOMAIN q
          BY <4>1
        <4> QED  BY <4>2, <1>4
      <3>4. PICK l \in L : TRUE
        BY <3>3
      <3> QED  BY <3>2, <3>4, <1>2, <1>6
    <2>10. DOMAIN m = {}
      BY <2>9, <1>3
    <2> QED  BY <2>6, <2>7, <2>8, <2>9, <2>10, <1>3 DEF m, add
  <1>9. CASE ~(Cardinality(cl) = 1 /\ q # <<>>)
    <2> DEFINE f == [i \in DOMAIN q |-> EqualTo(q[i], r)]
    <2>1. add = <<>> \o f
      BY <1>5, <1>9
    <2>2. \A s \in L : /\ EqualTo(s, r) \in Linear /\ SignalsOf(EqualTo(s, r)) = {s, r}
                       /\ \A v \in [Signal -> Field] : Holds(EqualTo(s, r), v) <=> v[s] = v[r]
      <3> TAKE s \in L
      <3>1. s \in Signal \ {One} /\ r \in Signal \ {One} /\ s # r
        BY <1>1, <1>2
      <3> QED  BY <3>1, EqualToIs
    <2>3. f \in [DOMAIN q -> Linear] /\ \A i \in DOMAIN q : f[i] = EqualTo(q[i], r)
      BY <1>4, <2>2
    <2> HIDE DEF f
    <2>4. add = f /\ f \in Seq(Linear) /\ DOMAIN f = DOMAIN q
      BY <2>1, <2>3, <1>4, EachIs
    <2>5. \A v \in [Signal -> Field] : AllHold(add, v) <=> \A s \in L : v[s] = v[r]
      <3>1. \A v \in [Signal -> Field] : \A i \in DOMAIN q : Holds(f[i], v) <=> v[q[i]] = v[r]
        BY <2>2, <2>3, <1>4
      <3> QED  BY <3>1, <2>4, <1>4 DEF AllHold
    <2>6. AllSignalsOf(add) \subseteq Forbidden
      <3>1. \A i \in DOMAIN q : SignalsOf(f[i]) \subseteq Forbidden
        BY <2>2, <2>3, <1>4, <1>6
      <3> QED  BY <3>1, <2>4 DEF AllSignalsOf
    <2>7. \A v \in [Signal -> Field] :
             (\A s, t \in sigs : v[s] = v[t]) <=> Satisfies(v, m) /\ AllHold(add, v)
      <3>1. DOMAIN m \subseteq sigs /\ L \subseteq sigs
        BY <1>3
      <3> HIDE DEF L
      <3> QED  BY <3>1, <2>5, <1>2, <1>3, <1>7
    <2> QED  BY <2>4, <2>6, <2>7, <1>1 DEF add, m
  <1> QED  BY <1>8, <1>9

\* A cluster of equalities is replaced by substitutions, and by equalities of the signals that
\* must stay: the circuit says the same, and the substitutions are in the log.
LEMMA SimplifyEqualitiesKeeps ==
    ASSUME IInv, NEW cl, SimplifyEqualities(cl)
    PROVE  IInv'
  <1> DEFINE sigs == SigsIn(equalities, cl)
             r == Representative(sigs)
             m == NewSingle(sigs)
             add == NewConstraints(cl, sigs)
  <1>1. /\ stage = "equalities" /\ cl \in clusters /\ clusters' = clusters \ {cl}
        /\ single' = m ++ single /\ lconst' = lconst \o add /\ log' = log \cup Entries(m)
    BY DEF SimplifyEqualities, SigsIn, NewSingle, NewConstraints, LeftOver, Log, Entries
  <1>2. UNCHANGED <<circuit, options, stage, equalities, consEqualities, linear, cons,
                    linearSubs, job, subs, deleted, storage, listed>>
    BY DEF SimplifyEqualities
  <1>3. /\ Forbidden' = Forbidden /\ Removable' = Removable /\ Logs' = Logs /\ Removals' = Removals
        /\ NonLinear' = NonLinear /\ ConstantsAgree' = ConstantsAgree
        /\ \A v : (Source(v)' <=> Source(v)) /\ (Simple(v)' <=> Simple(v))
    BY <1>2, SameCircuit
  <1>4. Typed /\ AtEqualities
    BY <1>1 DEF IInv, Stages
  <1>5. /\ cl # {} /\ cl \subseteq DOMAIN equalities /\ Connected(equalities, cl)
        /\ Apart(clusters, equalities) /\ \A c2 \in clusters : Connected(equalities, c2)
    BY <1>1, <1>4 DEF AtEqualities, Apart
  <1>6. equalities \in Seq(Equalities)
    BY <1>4 DEF Typed
  <1>7. sigs \in SUBSET (Signal \ {One}) /\ sigs # {}
    BY <1>5, <1>6, ClusterIs
  <1>8. r \in sigs
    BY <1>7, RepresentativeIs
  <1>9. /\ m \in Removals /\ DOMAIN m = (sigs \ Forbidden) \ {r}
        /\ \A s \in DOMAIN m : m[s] = Only(r, 1)
        /\ Images(m, DOMAIN m) \subseteq {r}
    BY <1>7, NewSingleIs
  <1>10. /\ add \in Seq(Linear) /\ AllSignalsOf(add) \subseteq Forbidden
         /\ \A v \in [Signal -> Field] : (\A i \in cl : Holds(equalities[i], v)) <=>
                 Satisfies(v, m) /\ AllHold(add, v)
    BY <1>5, <1>6, NewConstraintsAre
  <1> DEFINE old == single
             gone == DOMAIN single
  <1>11. /\ m \in Replacements /\ single \in Replacements
         /\ m \in Removals /\ single \in Removals
    BY <1>4, <1>9, RemovesIs DEF Typed
  <1>12. /\ single' \in Replacements /\ DOMAIN single' = DOMAIN m \cup DOMAIN single
         /\ \A s \in DOMAIN m : single'[s] = m[s]
         /\ \A s \in DOMAIN single \ DOMAIN m : single'[s] = single[s]
    BY <1>1, <1>11, JoinIs
  <1>13. \A s \in DOMAIN single : s \notin sigs /\ \E t \in Signal \ {One} :
            single[s] = Only(t, 1) /\ t \notin DOMAIN single /\ t \notin sigs
            /\ \A c2 \in clusters : s \notin SigsIn(equalities, c2) /\ t \notin SigsIn(equalities, c2)
    BY <1>1, <1>4 DEF AtEqualities
  <1>14. \A s \in sigs : \A c2 \in clusters \ {cl} : s \notin SigsIn(equalities, c2)
    BY <1>1, <1>5 DEF Apart
  <1>15. lconst \in Seq(Linear) /\ log \in Logs
    BY <1>4 DEF Typed
  <1>16. /\ lconst' \in Seq(Linear)
         /\ \A v : AllHold(lconst', v) <=> AllHold(lconst, v) /\ AllHold(add, v)
         /\ AllSignalsOf(lconst') = AllSignalsOf(lconst) \cup AllSignalsOf(add)
    BY <1>1, <1>10, <1>15, JoinedSequences
  <1>17. /\ InLog(m, log') /\ \A f : InLog(f, log) => InLog(f, log')
         /\ Gone(log') = Gone(log) \cup DOMAIN m
         /\ log' \in Logs
         /\ \A v : Obeys(v, log') <=> Obeys(v, log) /\ Satisfies(v, m)
    BY <1>1, <1>11, <1>15, EntriesAre
  <1> HIDE DEF sigs, m, add, r
  <1>18. Typed'
    <2>1. single' \in Removals'
      BY <1>3, <1>11, <1>12 DEF Removals
    <2> QED  BY <1>2, <1>3, <1>4, <1>16, <1>17, <2>1 DEF Typed
  <1>19. AtEqualities'
    <2>1. Apart(clusters', equalities') /\ \A c2 \in clusters' : Connected(equalities', c2)
      BY <1>1, <1>2, <1>5 DEF Apart
    <2>2. \A s \in DOMAIN single' : \E t \in Signal \ {One} :
          /\ single'[s] = Only(t, 1) /\ t \notin DOMAIN single'
          /\ \A c2 \in clusters' : s \notin SigsIn(equalities', c2) /\ t \notin SigsIn(equalities', c2)
      <3> SUFFICES ASSUME NEW s \in DOMAIN single'
                   PROVE  \E t \in Signal \ {One} :
          /\ single'[s] = Only(t, 1) /\ t \notin DOMAIN single'
          /\ \A c2 \in clusters' : s \notin SigsIn(equalities, c2) /\ t \notin SigsIn(equalities, c2)
        BY <1>2
      <3>1. CASE s \in DOMAIN m
        <4>1. single'[s] = Only(r, 1) /\ r \notin DOMAIN single' /\ s \in sigs
          BY <3>1, <1>8, <1>9, <1>12, <1>13
        <4>2. r \in Signal \ {One}
          BY <1>7, <1>8
        <4> QED  BY <4>1, <4>2, <1>1, <1>8, <1>14
      <3>2. CASE s \notin DOMAIN m
        <4>1. s \in DOMAIN single /\ single'[s] = single[s]
          BY <3>2, <1>12
        <4>2. PICK t \in Signal \ {One} :
            single[s] = Only(t, 1) /\ t \notin DOMAIN single /\ t \notin sigs
            /\ \A c2 \in clusters : s \notin SigsIn(equalities, c2) /\ t \notin SigsIn(equalities, c2)
          BY <4>1, <1>13
        <4>3. t \notin DOMAIN single'
          BY <4>2, <1>9, <1>12
        <4> QED  BY <4>1, <4>2, <4>3, <1>1
      <3> QED  BY <3>1, <3>2
    <2>3. InLog(single', log')
      <3>1. InLog(single, log')
        BY <1>4, <1>17 DEF AtEqualities
      <3> QED  BY <3>1, <1>12, <1>17 DEF InLog
    <2>4. Gone(log') \subseteq DOMAIN single'
      BY <1>4, <1>12, <1>17 DEF AtEqualities
    <2>5. AllSignalsOf(lconst') \subseteq Forbidden'
      BY <1>3, <1>4, <1>10, <1>16 DEF AtEqualities
    <2>6. ConstantsAgree' => Extendable(DOMAIN single', log')
      <3> SUFFICES ASSUME ConstantsAgree  PROVE  Extendable(DOMAIN single', log')
        BY <1>3
      <3>1. Extendable(DOMAIN single, log)
        BY <1>4 DEF AtEqualities
      <3>2. (DOMAIN m \cup Images(m, DOMAIN m)) \cap DOMAIN single = {}
        BY <1>8, <1>9, <1>13
      <3>3. Images(m, DOMAIN m) \cap DOMAIN m = {}
        BY <1>9
      <3>4. Extendable(DOMAIN single \cup DOMAIN m, log \cup Entries(m))
        BY <3>1, <3>2, <3>3, <1>11, ExtendedBy
      <3>5. DOMAIN single \cup DOMAIN m = DOMAIN single'
        BY <1>12
      <3> QED  BY <3>4, <3>5, <1>1
    <2>7. ASSUME NEW v \in Valuations
          PROVE  ClustersHold(clusters, equalities, v) <=>
                 ClustersHold(clusters', equalities', v) /\ Satisfies(v, m) /\ AllHold(add, v)
      <3>1. v \in [Signal -> Field]
        BY ValuationsAre
      <3>2. ClustersHold(clusters, equalities, v) <=>
               ClustersHold(clusters', equalities, v) /\ \A i \in cl : Holds(equalities[i], v)
        BY <1>1 DEF ClustersHold
      <3> QED  BY <3>1, <3>2, <1>2, <1>10
    <2>8. ASSUME NEW v \in Valuations
          PROVE  /\ Source(v)' <=> /\ ClustersHold(clusters', equalities', v) /\ AllHold(consEqualities', v)
                           /\ AllHold(linear', v) /\ AllHold(NonLinear', v)
                           /\ AllHold(lconst', v) /\ Obeys(v, log')
                 /\ Simple(v)' => /\ ClustersHold(clusters', equalities', v)
                                  /\ AllHold(consEqualities', v)
                                  /\ Obeys(v, log')
      <3>1. /\ Source(v) <=> /\ ClustersHold(clusters, equalities, v) /\ AllHold(consEqualities, v)
                           /\ AllHold(linear, v) /\ AllHold(NonLinear, v)
                           /\ AllHold(lconst, v) /\ Obeys(v, log)
            /\ Simple(v) => /\ ClustersHold(clusters, equalities, v) /\ AllHold(consEqualities, v)
                            /\ Obeys(v, log)
        BY <1>4 DEF AtEqualities
      <3> QED  BY <3>1, <2>7, <1>2, <1>3, <1>16, <1>17
    <2>9. /\ cons' = <<>> /\ linearSubs' = <<>> /\ subs' = <<>> /\ job' = Idle'
          /\ storage' = <<>> /\ listed' = <<>>
      BY <1>2, <1>4 DEF AtEqualities, Idle
    <2> QED  BY <2>1, <2>2, <2>3, <2>4, <2>5, <2>6, <2>8, <2>9 DEF AtEqualities
  <1> QED  BY <1>1, <1>2, <1>18, <1>19 DEF IInv, Stages

\* The signals of some replacements are among those of all.
LEMMA ImagesGrow ==
    ASSUME NEW m, NEW S
    PROVE  Images(m, S) \subseteq Images(m, DOMAIN m)
  BY DEF Images

\* The substitutions made in a list of linear constraints, and each constraint cleaned.
LEMMA TidyAll ==
    ASSUME NEW cs \in Seq(CleanLinear), NEW m \in Replacements, NEW q,
           q = Each(cs, LAMBDA con : SubstitutedAndFixed(con, m))
    PROVE  /\ q \in Seq(CleanLinear) /\ DOMAIN q = DOMAIN cs
           /\ \A i \in DOMAIN cs : q[i] = SubstitutedAndFixed(cs[i], m)
           /\ AllSignalsOf(q) \subseteq (AllSignalsOf(cs) \ DOMAIN m) \cup Images(m, DOMAIN m)
           /\ \A v \in Valuations : Satisfies(v, m) => (AllHold(q, v) <=> AllHold(cs, v))
  <1> DEFINE f == [i \in DOMAIN cs |-> SubstitutedAndFixed(cs[i], m)]
  <1>1. q = <<>> \o f
    BY DEF Each
  <1>2. \A i \in DOMAIN cs : cs[i] \in CleanLinear
    OBVIOUS
  <1>3. \A i \in DOMAIN cs :
           /\ f[i] = SubstitutedAndFixed(cs[i], m) /\ f[i] \in CleanLinear
           /\ SignalsOf(f[i]) \subseteq (SignalsOf(cs[i]) \ DOMAIN m) \cup Images(m, SignalsOf(cs[i]))
           /\ \A v \in Valuations : Satisfies(v, m) => (Holds(f[i], v) <=> Holds(cs[i], v))
    BY <1>2, TidyIs
  <1>4. f \in [DOMAIN cs -> CleanLinear]
    BY <1>3
  <1> HIDE DEF f
  <1>5. q = f /\ f \in Seq(CleanLinear) /\ DOMAIN f = DOMAIN cs
    BY <1>1, <1>4, EachIs
  <1>6. \A v \in Valuations : Satisfies(v, m) => (AllHold(q, v) <=> AllHold(cs, v))
    BY <1>3, <1>5 DEF AllHold
  <1>7. AllSignalsOf(q) \subseteq (AllSignalsOf(cs) \ DOMAIN m) \cup Images(m, DOMAIN m)
    BY <1>3, <1>5, ImagesGrow DEF AllSignalsOf
  <1> QED  BY <1>3, <1>5, <1>6, <1>7

\* Some of the substitutions.
LEMMA RestrictIs ==
    ASSUME NEW m \in Removals, NEW S \in SUBSET DOMAIN m
    PROVE  /\ Restrict(m, S) \in Removals /\ DOMAIN Restrict(m, S) = S
           /\ \A s \in S : Restrict(m, S)[s] = m[s]
           /\ \A lg : InLog(m, lg) => InLog(Restrict(m, S), lg)
  <1> DEFINE f == Restrict(m, S)
  <1>1. f = [s \in S |-> m[s]]
    BY DEF Restrict
  <1>2. DOMAIN f = S /\ \A s \in S : f[s] = m[s]
    BY <1>1
  <1>3. /\ DOMAIN m \in SUBSET (Signal \ {One}) /\ DOMAIN m \subseteq Removable
        /\ \A s \in DOMAIN m : m[s] \in Expr
    BY RemovesIs
  <1>4. f \in [S -> Expr]
    BY <1>1, <1>3
  <1> HIDE DEF f
  <1>5. f \in Removals
    BY <1>2, <1>3, <1>4 DEF Removals, Replacements
  <1>6. \A lg : InLog(m, lg) => InLog(f, lg)
    BY <1>2 DEF InLog
  <1> QED  BY <1>2, <1>5, <1>6 DEF f

\* The signal of an expression that is a signal.
LEMMA OnlySignal ==
    ASSUME NEW r \in Signal
    PROVE  Min(DOMAIN Only(r, 1)) = r /\ DOMAIN Only(r, 1) = {r}
  <1>1. DOMAIN Only(r, 1) = {r}
    BY DEF Only
  <1>2. {r} \in SUBSET (0..NoLabels) /\ {r} # {} /\ NoLabels \in Nat
    BY Numbers DEF Signal
  <1>3. Min({r}) \in {r}
    BY <1>2, Bounds
  <1> QED  BY <1>1, <1>3

\* The substitutions of the equalities are made in the constant equalities and the linear
\* constraints, which have none of the removed signals after it.
LEMMA FinishEqualitiesKeeps ==
    ASSUME IInv, FinishEqualities
    PROVE  IInv'
  <1> DEFINE S == DOMAIN single \cap AllSignalsOf(NonLinear)
  <1>1. /\ stage = "equalities" /\ clusters = {} /\ stage' = "constants"
        /\ linear' = Each(linear, LAMBDA con : SubstitutedAndFixed(con, single))
        /\ consEqualities' = Each(consEqualities, LAMBDA con : SubstitutedAndFixed(con, single))
        /\ deleted' = DOMAIN single
        /\ single' = Restrict(single, S)
    BY DEF FinishEqualities
  <1>2. UNCHANGED <<circuit, options, equalities, lconst, cons, linearSubs, clusters, job, subs,
                    storage, listed, log>>
    BY DEF FinishEqualities, pass
  <1>3. /\ Forbidden' = Forbidden /\ Removable' = Removable /\ Logs' = Logs /\ Removals' = Removals
        /\ NonLinear' = NonLinear /\ ConstantsAgree' = ConstantsAgree
        /\ \A v : (Source(v)' <=> Source(v)) /\ (Simple(v)' <=> Simple(v))
    BY <1>2, SameCircuit
  <1>4. Typed /\ AtEqualities
    BY <1>1 DEF IInv, Stages
  <1>5. /\ single \in Replacements /\ single \in Removals /\ DOMAIN single \subseteq Removable
        /\ DOMAIN single \subseteq Signal \ {One}
        /\ linear \in Seq(CleanLinear) /\ consEqualities \in Seq(OneSignal)
    BY <1>4, RemovesIs DEF Typed
  <1>6. consEqualities \in Seq(CleanLinear) /\ \A i \in DOMAIN consEqualities : consEqualities[i] \in OneSignal
    <2>1. \A i \in DOMAIN consEqualities : consEqualities[i] \in OneSignal
      BY <1>5
    <2>2. \A i \in DOMAIN consEqualities : consEqualities[i] \in CleanLinear
      BY <2>1 DEF OneSignal
    <2> QED  BY <2>1, <2>2, <1>5, SequenceOf
  <1>7. /\ linear' \in Seq(CleanLinear)
        /\ AllSignalsOf(linear') \subseteq
              (AllSignalsOf(linear) \ DOMAIN single) \cup Images(single, DOMAIN single)
        /\ \A v \in Valuations : Satisfies(v, single) => (AllHold(linear', v) <=> AllHold(linear, v))
    BY <1>1, <1>5, TidyAll
  <1>8. /\ consEqualities' \in Seq(CleanLinear) /\ DOMAIN consEqualities' = DOMAIN consEqualities
        /\ \A i \in DOMAIN consEqualities :
              consEqualities'[i] = SubstitutedAndFixed(consEqualities[i], single)
        /\ AllSignalsOf(consEqualities') \subseteq
              (AllSignalsOf(consEqualities) \ DOMAIN single) \cup Images(single, DOMAIN single)
        /\ \A v \in Valuations : Satisfies(v, single) =>
              (AllHold(consEqualities', v) <=> AllHold(consEqualities, v))
    <2>1. /\ consEqualities \in Seq(CleanLinear) /\ single \in Replacements
          /\ consEqualities' = Each(consEqualities, LAMBDA con : SubstitutedAndFixed(con, single))
      BY <1>1, <1>5, <1>6
    <2> QED  BY <2>1, TidyAll, Zenon
  <1>9. \A s \in DOMAIN single : \E r \in Signal \ {One} : single[s] = Only(r, 1) /\ r \notin DOMAIN single
    BY <1>4 DEF AtEqualities
  <1>10. consEqualities' \in Seq(OneSignal)
    <2>1. \A i \in DOMAIN consEqualities : SubstitutedAndFixed(consEqualities[i], single) \in OneSignal
      BY <1>5, <1>6, <1>9, RenamedConstraint
    <2>2. \A i \in DOMAIN consEqualities' : consEqualities'[i] \in OneSignal
      BY <2>1, <1>8
    <2> QED  BY <2>2, <1>8, SequenceOf
  <1>11. Images(single, DOMAIN single) \cap DOMAIN single = {}
    <2> SUFFICES ASSUME NEW t \in Images(single, DOMAIN single)  PROVE  t \notin DOMAIN single
      OBVIOUS
    <2>1. PICK s \in DOMAIN single : t \in DOMAIN single[s]
      BY DEF Images
    <2>2. PICK r \in Signal \ {One} : single[s] = Only(r, 1) /\ r \notin DOMAIN single
      BY <1>9
    <2>3. DOMAIN single[s] = {r}
      BY <2>2, OnlySignal
    <2> QED  BY <2>1, <2>2, <2>3
  <1>12. /\ single' \in Removals /\ DOMAIN single' = S /\ \A s \in S : single'[s] = single[s]
         /\ \A lg : InLog(single, lg) => InLog(single', lg)
    BY <1>1, <1>5, RestrictIs
  <1>13. \A s \in S : \E r \in Signal \ {One} :
            single'[s] = Only(r, 1) /\ Renamed(s)' = r /\ r \notin DOMAIN single
    <2> TAKE s \in S
    <2>1. PICK r \in Signal \ {One} : single[s] = Only(r, 1) /\ r \notin DOMAIN single
      BY <1>9
    <2>2. single'[s] = Only(r, 1) /\ s \in DOMAIN single'
      BY <2>1, <1>12
    <2>3. Renamed(s)' = Min(DOMAIN single'[s])
      BY <2>2 DEF Renamed
    <2>4. Renamed(s)' = r
      BY <2>2, <2>3, OnlySignal
    <2> QED  BY <2>1, <2>2, <2>4
  <1>14. InLog(single, log) /\ cons = <<>> /\ DOMAIN cons = {}
    BY <1>4 DEF AtEqualities
  <1>15. Typed'
    BY <1>1, <1>2, <1>3, <1>4, <1>5, <1>7, <1>10, <1>12 DEF Typed
  <1>16. AtConstants'
    <2>1. Framed'
      <3>1. \A s \in DOMAIN single' : \E r \in Signal \ {One} : single'[s] = Only(r, 1) /\ Renamed(s)' = r
        BY <1>12, <1>13
      <3>2. DOMAIN cons' = {} /\ InLog(single', log') /\ InLog(cons', log')
        BY <1>2, <1>12, <1>14 DEF InLog
      <3> QED  BY <3>1, <3>2 DEF Framed
    <2>2. AllSignalsOf(linear') \cap deleted' = {} /\ AllSignalsOf(consEqualities') \cap deleted' = {}
      BY <1>1, <1>7, <1>8, <1>11
    <2>3. \A s \in AllSignalsOf(NonLinear') : Renamed(s)' \notin deleted'
      <3> SUFFICES ASSUME NEW s \in AllSignalsOf(NonLinear)  PROVE  Renamed(s)' \notin DOMAIN single
        BY <1>1, <1>3
      <3>1. CASE s \in DOMAIN single
        BY <3>1, <1>13
      <3>2. CASE s \notin DOMAIN single
        <4>1. s \notin DOMAIN single'
          BY <3>2, <1>12
        <4>2. Renamed(s)' = s
          BY <4>1 DEF Renamed
        <4> QED  BY <3>2, <4>2
      <3> QED  BY <3>1, <3>2
    <2>4. /\ clusters' = {} /\ linearSubs' = <<>> /\ subs' = <<>> /\ job' = Idle'
          /\ storage' = <<>> /\ listed' = <<>>
      BY <1>1, <1>2, <1>4 DEF AtEqualities, Idle
    <2>5. /\ Gone(log') \subseteq deleted' \cup DOMAIN cons'
          /\ AllSignalsOf(lconst') \subseteq Forbidden'
      BY <1>1, <1>2, <1>3, <1>4 DEF AtEqualities
    <2>6. ConstantsAgree' => Extendable(deleted' \cup DOMAIN cons', log')
      <3>1. deleted' \cup DOMAIN cons' = DOMAIN single
        BY <1>1, <1>2, <1>14
      <3>2. ConstantsAgree => Extendable(DOMAIN single, log)
        BY <1>4 DEF AtEqualities
      <3> QED  BY <3>1, <3>2, <1>2, <1>3
    <2>7. ASSUME NEW v \in Valuations
          PROVE  /\ Source(v)' <=> /\ AllHold(consEqualities', v) /\ AllHold(linear', v)
                           /\ AllHold(NonLinear', v) /\ AllHold(lconst', v) /\ Obeys(v, log')
                 /\ Simple(v)' => AllHold(consEqualities', v) /\ Obeys(v, log')
      <3>1. /\ Source(v) <=> /\ ClustersHold(clusters, equalities, v) /\ AllHold(consEqualities, v)
                           /\ AllHold(linear, v) /\ AllHold(NonLinear, v)
                           /\ AllHold(lconst, v) /\ Obeys(v, log)
            /\ Simple(v) => /\ ClustersHold(clusters, equalities, v) /\ AllHold(consEqualities, v)
                            /\ Obeys(v, log)
        BY <1>4 DEF AtEqualities
      <3>2. ClustersHold(clusters, equalities, v)
        BY <1>1 DEF ClustersHold
      <3>3. Obeys(v, log) => Satisfies(v, single)
        BY <1>14, LoggedHolds
      <3> QED  BY <3>1, <3>2, <3>3, <1>2, <1>3, <1>7, <1>8
    <2> QED  BY <2>1, <2>2, <2>3, <2>4, <2>5, <2>6, <2>7 DEF AtConstants
  <1> QED  BY <1>1, <1>15, <1>16 DEF IInv, Stages

\* The first of a sequence of constraints, and the rest.
LEMMA HeadAndTail ==
    ASSUME NEW S, NEW cs \in Seq(S), cs # <<>>
    PROVE  /\ Head(cs) \in S /\ Tail(cs) \in Seq(S)
           /\ \A v : AllHold(cs, v) <=> Holds(Head(cs), v) /\ AllHold(Tail(cs), v)
           /\ SignalsOf(Head(cs)) \subseteq AllSignalsOf(cs)
           /\ AllSignalsOf(Tail(cs)) \subseteq AllSignalsOf(cs)
  <1> DEFINE t == Tail(cs)
  <1>1. /\ Len(cs) \in Nat /\ Len(cs) # 0 /\ DOMAIN cs = 1..Len(cs)
        /\ t \in Seq(S) /\ Len(t) = Len(cs) - 1 /\ DOMAIN t = 1..Len(cs) - 1
        /\ \A i \in 1..Len(cs) - 1 : t[i] = cs[i + 1]
        /\ Head(cs) = cs[1]
    OBVIOUS
  <1> HIDE DEF t
  <1>2. 1 \in DOMAIN cs
    BY <1>1
  <1>3. \A i \in DOMAIN cs : i = 1 \/ \E j \in DOMAIN t : cs[i] = t[j]
    <2> TAKE i \in DOMAIN cs
    <2>1. CASE i # 1
      <3>1. i - 1 \in DOMAIN t /\ t[i - 1] = cs[i - 1 + 1] /\ i - 1 + 1 = i
        BY <2>1, <1>1
      <3>2. t[i - 1] = cs[i]
        <4>1. (i - 1) + 1 = i /\ i - 1 \in 1..Len(cs) - 1
          BY <2>1, <1>1
        <4> QED  BY <4>1, <1>1
      <3> QED  BY <3>1, <3>2
    <2> QED  BY <2>1
  <1>4. \A i \in DOMAIN t : \E j \in DOMAIN cs : t[i] = cs[j]
    <2> TAKE i \in DOMAIN t
    <2>1. i + 1 \in DOMAIN cs /\ t[i] = cs[i + 1]
      BY <1>1
    <2> QED  BY <2>1
  <1>5. \A v : AllHold(cs, v) <=> Holds(Head(cs), v) /\ AllHold(t, v)
    BY <1>1, <1>2, <1>3, <1>4 DEF AllHold
  <1>6. SignalsOf(Head(cs)) \subseteq AllSignalsOf(cs)
    BY <1>1, <1>2 DEF AllSignalsOf
  <1>7. AllSignalsOf(t) \subseteq AllSignalsOf(cs)
    BY <1>4 DEF AllSignalsOf
  <1>8. Head(cs) \in S
    BY <1>1, <1>2
  <1> QED  BY <1>1, <1>5, <1>6, <1>7, <1>8 DEF t

\* One more constraint.
LEMMA AppendedConstraint ==
    ASSUME NEW S, NEW cs \in Seq(S), NEW con \in S
    PROVE  /\ Append(cs, con) \in Seq(S)
           /\ \A v : AllHold(Append(cs, con), v) <=> AllHold(cs, v) /\ Holds(con, v)
           /\ AllSignalsOf(Append(cs, con)) = AllSignalsOf(cs) \cup SignalsOf(con)
  <1> DEFINE q == Append(cs, con)
             n == Len(cs)
  <1>1. /\ q \in Seq(S) /\ n \in Nat /\ DOMAIN cs = 1..n /\ DOMAIN q = 1..n + 1
        /\ (\A i \in 1..n : q[i] = cs[i]) /\ q[n + 1] = con
    OBVIOUS
  <1> HIDE DEF q, n
  <1>2. DOMAIN q = DOMAIN cs \cup {n + 1} /\ n + 1 \notin DOMAIN cs
    BY <1>1
  <1>3. \A v : AllHold(q, v) <=> AllHold(cs, v) /\ Holds(con, v)
    BY <1>1, <1>2 DEF AllHold
  <1>4. AllSignalsOf(q) = AllSignalsOf(cs) \cup SignalsOf(con)
    BY <1>1, <1>2 DEF AllSignalsOf
  <1> QED  BY <1>1, <1>3, <1>4 DEF q

\* The names of signals in the non-linear constraints depend on the equalities alone.
LEMMA SameNames ==
    ASSUME single' = single
    PROVE  \A s : Renamed(s)' = Renamed(s)
  BY DEF Renamed

\* The equalities and constants agree when some valuation satisfies them.
LEMMA AgreeIs == ConstantsAgree <=> \E v \in Valuations : Simple(v)
  <1>1. Solutions(SimpleCons, Signal) = {v \in Valuations : Simple(v)}
    BY AssignmentsAre DEF Solutions, Simple, AllHold
  <1>2. ConstantsAgree <=> Solutions(SimpleCons, Signal) # {}
    BY DEF ConstantsAgree, SimpleCons
  <1> QED  BY <1>1, <1>2

\* A constant equality fixes its signal: it is removed, or stays as a constraint when it must
\* stay. Another constant for the same signal changes which substitution is kept in cons, but
\* both are in the log, and then the equalities and constants do not agree.
LEMMA SimplifyConstantKeeps ==
    ASSUME IInv, SimplifyConstant
    PROVE  IInv'
  <1> DEFINE con == Head(consEqualities)
             s == Max(SignalsOf(con))
             e == NonZero(Normal(Cleared(con, s)))
             new == Only(s, e)
  <1>1. /\ stage = "constants" /\ consEqualities # <<>> /\ consEqualities' = Tail(consEqualities)
        /\ s \in Forbidden => lconst' = Append(lconst, con) /\ cons' = cons /\ log' = log
        /\ s \notin Forbidden => /\ cons' = new ++ cons /\ lconst' = lconst
                                 /\ log' = log \cup Entries(new)
    BY DEF SimplifyConstant, Log, Entries
  <1>2. UNCHANGED <<circuit, options, stage, equalities, linear, single, linearSubs,
                       clusters, job, subs, deleted, storage, listed>>
    BY DEF SimplifyConstant, pass
  <1>3. /\ Forbidden' = Forbidden /\ Removable' = Removable /\ Logs' = Logs /\ Removals' = Removals
        /\ NonLinear' = NonLinear /\ ConstantsAgree' = ConstantsAgree
        /\ \A v : (Source(v)' <=> Source(v)) /\ (Simple(v)' <=> Simple(v))
    BY <1>2, SameCircuit
  <1>n. \A t : Renamed(t)' = Renamed(t)
    BY <1>2, SameNames
  <1>4. Typed /\ AtConstants
    BY <1>1 DEF IInv, Stages
  <1>5. consEqualities \in Seq(OneSignal) /\ lconst \in Seq(Linear) /\ log \in Logs /\ cons \in Removals
    BY <1>4 DEF Typed
  <1>6. /\ con \in OneSignal /\ consEqualities' \in Seq(OneSignal)
        /\ \A v : AllHold(consEqualities, v) <=> Holds(con, v) /\ AllHold(consEqualities', v)
        /\ SignalsOf(con) \subseteq AllSignalsOf(consEqualities)
        /\ AllSignalsOf(consEqualities') \subseteq AllSignalsOf(consEqualities)
    BY <1>1, <1>5, HeadAndTail
  <1> HIDE DEF con
  <1>7. /\ s \in Signal \ {One} /\ SignalsOf(con) = {s} /\ e \in Expr /\ DOMAIN e \subseteq {One}
        /\ \A v \in [Signal -> Field] : Holds(con, v) <=> v[s] = Value(e, v)
    BY <1>6, ConstantReplacement
  <1> HIDE DEF s, e
  <1>8. s \notin deleted
    BY <1>4, <1>6, <1>7 DEF AtConstants
  <1>9. \A v \in Valuations :
          /\ Source(v) <=> /\ AllHold(consEqualities, v) /\ AllHold(linear, v)
                           /\ AllHold(NonLinear, v) /\ AllHold(lconst, v) /\ Obeys(v, log)
          /\ Simple(v) => AllHold(consEqualities, v) /\ Obeys(v, log)
    BY <1>4 DEF AtConstants
  <1>10. CASE s \in Forbidden
    <2>1. con \in Linear
      BY <1>6, ConIs DEF OneSignal
    <2>2. lconst' = Append(lconst, con) /\ cons' = cons /\ log' = log
      BY <1>1, <1>10
    <2>3. /\ lconst' \in Seq(Linear)
          /\ \A v : AllHold(lconst', v) <=> AllHold(lconst, v) /\ Holds(con, v)
          /\ AllSignalsOf(lconst') = AllSignalsOf(lconst) \cup SignalsOf(con)
      BY <2>1, <2>2, <1>5, AppendedConstraint
    <2>4. Typed'
      BY <2>2, <2>3, <1>2, <1>3, <1>4, <1>6 DEF Typed
    <2>5. \A v \in Valuations :
          /\ Source(v)' <=> /\ AllHold(consEqualities', v) /\ AllHold(linear', v)
                            /\ AllHold(NonLinear', v) /\ AllHold(lconst', v) /\ Obeys(v, log')
          /\ Simple(v)' => AllHold(consEqualities', v) /\ Obeys(v, log')
      BY <2>2, <2>3, <1>2, <1>3, <1>6, <1>9
    <2>6. Framed'
      BY <2>2, <1>2, <1>4, <1>n DEF AtConstants, Framed
    <2>7. AllSignalsOf(lconst') \subseteq Forbidden'
      BY <2>3, <1>3, <1>4, <1>7, <1>10 DEF AtConstants
    <2>8. AllSignalsOf(consEqualities') \cap deleted' = {} /\ job' = Idle'
      BY <1>2, <1>4, <1>6 DEF AtConstants, Idle
    <2>9. AtConstants'
      BY <2>2, <2>5, <2>6, <2>7, <2>8, <1>2, <1>3, <1>4, <1>n DEF AtConstants
    <2> QED  BY <2>4, <2>9, <1>1, <1>2 DEF IInv, Stages
  <1>11. CASE s \notin Forbidden
    <2>1. cons' = new ++ cons /\ lconst' = lconst /\ log' = log \cup Entries(new)
      BY <1>1, <1>11
    <2>2. new \in Replacements /\ DOMAIN new = {s} /\ new[s] = e
      BY <1>7, OnlyIs
    <2> HIDE DEF new
    <2>3. new \in Removals /\ s \in Removable
      BY <2>2, <1>7, <1>11 DEF Removals, Removable
    <2>4. /\ cons' \in Replacements /\ DOMAIN cons' = {s} \cup DOMAIN cons
          /\ cons'[s] = e /\ \A t \in DOMAIN cons \ {s} : cons'[t] = cons[t]
      <3>1. cons \in Replacements
        BY <1>5, RemovesIs
      <3> QED  BY <3>1, <2>1, <2>2, JoinIs
    <2>5. cons' \in Removals
      <3>1. DOMAIN cons \subseteq Removable
        BY <1>5, RemovesIs
      <3> QED  BY <3>1, <2>3, <2>4 DEF Removals
    <2>6. /\ InLog(new, log') /\ \A f : InLog(f, log) => InLog(f, log')
          /\ Gone(log') = Gone(log) \cup {s}
          /\ log' \in Logs
          /\ \A v : Obeys(v, log') <=> Obeys(v, log) /\ Satisfies(v, new)
      BY <2>1, <2>2, <2>3, <1>5, EntriesAre
    <2>7. \A v \in Valuations : Satisfies(v, new) <=> Holds(con, v)
      BY <2>2, <1>7, ValuationsAre DEF Satisfies
    <2>8. Typed'
      BY <2>1, <2>5, <2>6, <1>2, <1>3, <1>4, <1>6 DEF Typed
    <2>9. \A v \in Valuations :
          /\ Source(v)' <=> /\ AllHold(consEqualities', v) /\ AllHold(linear', v)
                            /\ AllHold(NonLinear', v) /\ AllHold(lconst', v) /\ Obeys(v, log')
          /\ Simple(v)' => AllHold(consEqualities', v) /\ Obeys(v, log')
      BY <2>1, <2>6, <2>7, <1>2, <1>3, <1>6, <1>9
    <2>10. /\ (\A t \in DOMAIN cons : DOMAIN cons[t] \subseteq {One})
           /\ InLog(cons, log) /\ InLog(single, log)
           /\ \A t \in DOMAIN single : \E r \in Signal \ {One} : single[t] = Only(r, 1) /\ Renamed(t) = r
      BY <1>4 DEF AtConstants, Framed
    <2>11. Framed'
      <3>1. InLog(single', log') /\ InLog(cons, log')
        BY <2>6, <2>10, <1>2
      <3>2. InLog(cons', log')
        BY <3>1, <2>2, <2>4, <2>6 DEF InLog
      <3>3. \A t \in DOMAIN cons' : DOMAIN cons'[t] \subseteq {One}
        BY <2>4, <2>10, <1>7
      <3>4. \A t \in DOMAIN single' : \E r \in Signal \ {One} :
               single'[t] = Only(r, 1) /\ Renamed(t)' = r
        BY <2>10, <1>2, <1>n
      <3> QED  BY <3>1, <3>2, <3>3, <3>4 DEF Framed
    <2>12. AllSignalsOf(consEqualities') \cap deleted' = {} /\ job' = Idle'
      BY <1>2, <1>4, <1>6 DEF AtConstants, Idle
    <2>13. Gone(log') \subseteq deleted' \cup DOMAIN cons'
      BY <2>4, <2>6, <1>2, <1>4 DEF AtConstants
    <2>14. ASSUME ConstantsAgree  PROVE  Extendable(deleted \cup DOMAIN cons', log')
      <3> DEFINE R == deleted \cup DOMAIN cons
      <3>1. Extendable(R, log)
        BY <2>14, <1>4 DEF AtConstants
      <3>2. CASE s \in DOMAIN cons
        <4>1. PICK u \in Valuations : Simple(u)
          BY <2>14, AgreeIs
        <4>2. Holds(con, u) /\ Obeys(u, log) /\ u \in [Signal -> Field]
          BY <4>1, <1>6, <1>9, ValuationsAre
        <4>3. u[s] = Value(e, u) /\ u[s] = Value(cons[s], u)
          <5>1. Satisfies(u, cons)
            BY <4>2, <2>10, LoggedHolds
          <5> QED  BY <5>1, <4>2, <3>2, <1>7 DEF Satisfies
        <4>4. cons[s] \in Expr /\ DOMAIN cons[s] \subseteq {One}
          BY <3>2, <2>10, <1>5, RemovesIs
        <4>5. \A v \in Valuations : Value(e, v) = Coefficient(e, One)
                                    /\ Value(cons[s], v) = Coefficient(cons[s], One)
          BY <4>4, <1>7, ConstantIs
        <4>6. \A v \in Valuations : Obeys(v, log) => Obeys(v, log')
          <5> SUFFICES ASSUME NEW v \in Valuations, Obeys(v, log)  PROVE  Obeys(v, log')
            OBVIOUS
          <5>1. Satisfies(v, cons)
            BY <2>10, LoggedHolds
          <5>2. v[s] = Value(e, v)
            BY <5>1, <4>1, <4>3, <4>5, <3>2 DEF Satisfies
          <5> QED  BY <5>2, <2>2, <2>6 DEF Satisfies
        <4>7. deleted \cup DOMAIN cons' = R
          BY <3>2, <2>4
        <4> QED  BY <4>6, <4>7, <3>1 DEF Extendable
      <3>3. CASE s \notin DOMAIN cons
        <4>1. Images(new, DOMAIN new) = {}
          BY <2>2, <1>7 DEF Images
        <4>2. (DOMAIN new \cup Images(new, DOMAIN new)) \cap R = {}
          BY <4>1, <3>3, <2>2, <1>8
        <4>3. Images(new, DOMAIN new) \cap DOMAIN new = {}
          BY <4>1
        <4> HIDE DEF R
        <4>4. Extendable(R \cup DOMAIN new, log \cup Entries(new))
          BY <4>2, <4>3, <3>1, <2>2, ExtendedBy
        <4>5. R \cup DOMAIN new = deleted \cup DOMAIN cons'
          BY <2>2, <2>4 DEF R
        <4> QED  BY <4>4, <4>5, <2>1
      <3> QED  BY <3>2, <3>3
    <2>15. AtConstants'
      BY <2>1, <2>9, <2>11, <2>12, <2>13, <2>14, <1>2, <1>3, <1>4, <1>n DEF AtConstants
    <2> QED  BY <2>8, <2>15, <1>1, <1>2 DEF IInv, Stages
  <1> QED  BY <1>10, <1>11

\* Nothing is being eliminated.
LEMMA IdleIs ==
    ASSUME job = Idle
    PROVE  /\ job.cluster = {} /\ job.todo = <<>> /\ job.uniques = {} /\ job.occurrences = <<>>
           /\ job.work = <<>> /\ job.holder = <<>> /\ job.order = <<>>
           /\ JobSignals = {} /\ JobFits /\ UniquesFit
           /\ \A v : JobHolds(v)
           /\ AllSignalsOf(<<>>) = {}
  <1>1. /\ job.cluster = {} /\ job.todo = <<>> /\ job.uniques = {} /\ job.occurrences = <<>>
        /\ job.work = <<>> /\ job.holder = <<>> /\ job.order = <<>>
    BY DEF Idle
  <1>2. JobSignals = {}
    BY <1>1 DEF JobSignals, SigsIn
  <1>3. DOMAIN <<>> = {} /\ Len(<<>>) = 0 /\ AllSignalsOf(<<>>) = {}
    BY DEF AllSignalsOf
  <1>4. EarlierFree
    BY <1>1, <1>3 DEF EarlierFree
  <1>5. JobFits
    BY <1>1, <1>2, <1>3, <1>4 DEF JobFits
  <1>6. UniquesFit
    BY <1>1 DEF UniquesFit
  <1>7. \A v : JobHolds(v)
    BY <1>1, <1>3 DEF JobHolds, AllHold
  <1> QED  BY <1>1, <1>2, <1>3, <1>5, <1>6, <1>7

\* No substitutions mention no signals.
LEMMA NothingMentioned == Mentioned(<<>>) = {} /\ Images(<<>>, DOMAIN <<>>) = {} /\ \A v : Satisfies(v, <<>>)
  BY NoReplacements DEF Mentioned, Images, Satisfies

\* The constants are put into the linear constraints, their clusters are built when linear
\* simplification is on, and otherwise they are kept for the end.
LEMMA FinishConstantsKeeps ==
    ASSUME IInv, FinishConstants
    PROVE  IInv'
  <1> DEFINE lin == Each(linear, LAMBDA con : SubstitutedAndFixed(con, cons))
  <1>1. /\ stage = "constants" /\ consEqualities = <<>> /\ deleted' = deleted \cup DOMAIN cons
        /\ options.linear => /\ linear' = lin /\ clusters' = Clusters(lin) /\ stage' = "linear"
                             /\ lconst' = lconst
        /\ ~options.linear => /\ lconst' = lconst \o lin /\ linear' = <<>> /\ stage' = "nonlinear"
                              /\ clusters' = clusters
    BY DEF FinishConstants
  <1>2. UNCHANGED <<circuit, options, equalities, consEqualities, single, cons, linearSubs, job, subs,
                    storage, listed, log>>
    BY DEF FinishConstants, frames
  <1>3. /\ Forbidden' = Forbidden /\ Removable' = Removable /\ Logs' = Logs /\ Removals' = Removals
        /\ NonLinear' = NonLinear /\ ConstantsAgree' = ConstantsAgree
        /\ \A v : (Source(v)' <=> Source(v)) /\ (Simple(v)' <=> Simple(v))
    BY <1>2, SameCircuit
  <1>n. \A t : Renamed(t)' = Renamed(t)
    BY <1>2, SameNames
  <1>4. Typed /\ AtConstants
    BY <1>1 DEF IInv, Stages
  <1>5. /\ cons \in Replacements /\ DOMAIN cons \subseteq Removable
        /\ linear \in Seq(CleanLinear) /\ lconst \in Seq(Linear)
    BY <1>4, RemovesIs DEF Typed
  <1>6. /\ lin \in Seq(CleanLinear)
        /\ AllSignalsOf(lin) \subseteq (AllSignalsOf(linear) \ DOMAIN cons) \cup Images(cons, DOMAIN cons)
        /\ \A v \in Valuations : Satisfies(v, cons) => (AllHold(lin, v) <=> AllHold(linear, v))
    BY <1>5, TidyAll
  <1> HIDE DEF lin
  <1>7. /\ \A t \in DOMAIN cons : DOMAIN cons[t] \subseteq {One}
        /\ InLog(cons, log)
    BY <1>4 DEF AtConstants, Framed
  <1>8. Images(cons, DOMAIN cons) = {}
    BY <1>7 DEF Images
  <1>9. AllSignalsOf(lin) \cap deleted' = {}
    BY <1>1, <1>4, <1>6, <1>8 DEF AtConstants
  <1>10. \A v \in Valuations :
          /\ Source(v) <=> /\ AllHold(lin, v) /\ AllHold(NonLinear, v) /\ AllHold(lconst, v)
                           /\ Obeys(v, log)
    <2> TAKE v \in Valuations
    <2>1. Source(v) <=> /\ AllHold(consEqualities, v) /\ AllHold(linear, v)
                        /\ AllHold(NonLinear, v) /\ AllHold(lconst, v) /\ Obeys(v, log)
      BY <1>4 DEF AtConstants
    <2>2. AllHold(consEqualities, v)
      BY <1>1 DEF AllHold
    <2>3. Obeys(v, log) => Satisfies(v, cons)
      BY <1>7, LoggedHolds
    <2> QED  BY <2>1, <2>2, <2>3, <1>6
  <1>11. Framed'
    BY <1>2, <1>4, <1>n DEF AtConstants, Framed
  <1>12. Logged'
    <2>1. Gone(log') \subseteq deleted'
      BY <1>1, <1>2, <1>4 DEF AtConstants
    <2>2. ConstantsAgree' => Extendable(deleted', log')
      BY <1>1, <1>2, <1>3, <1>4 DEF AtConstants
    <2> QED  BY <2>1, <2>2 DEF Logged
  <1>13. deleted' \subseteq Removable /\ AllSignalsOf(lconst) \subseteq Forbidden
    BY <1>1, <1>4, <1>5 DEF Typed, AtConstants
  <1>14. /\ clusters = {} /\ linearSubs' = <<>> /\ subs' = <<>> /\ job = Idle /\ job' = Idle
         /\ Idle' = Idle
    BY <1>2, <1>4 DEF AtConstants, Idle
  <1>15. \A s \in AllSignalsOf(NonLinear') : Renamed(s)' \in deleted' => Renamed(s)' \in DOMAIN cons'
    BY <1>1, <1>2, <1>3, <1>4, <1>n DEF AtConstants
  <1>16. CASE options.linear
    <2>1. linear' = lin /\ clusters' = Clusters(lin) /\ stage' = "linear" /\ lconst' = lconst
      BY <1>1, <1>16
    <2>2. Typed'
      BY <2>1, <1>2, <1>3, <1>4, <1>6, <1>13 DEF Typed
    <2>3. /\ Apart(clusters', linear')
          /\ \A v \in Valuations : ClustersHold(clusters', linear', v) <=> AllHold(linear', v)
      BY <2>1, <1>6, ClustersFit
    <2>4. /\ JobSignals' = {} /\ JobFits' /\ UniquesFit' /\ \A v : JobHolds(v)'
      <3>1. (job = Idle)'
        BY <1>14
      <3>2. (job = Idle => JobSignals = {} /\ JobFits /\ UniquesFit /\ \A v : JobHolds(v))'
        BY IdleIs, PTL
      <3> QED  BY <3>1, <3>2
    <2>5. Mentioned(subs') = {} /\ Images(subs', DOMAIN subs') = {} /\ \A v : Satisfies(v, subs')
      BY <1>14, NothingMentioned
    <2>6. Eliminating'
      <3>1. AllSignalsOf(linear') \cap deleted' = {} /\ AllSignalsOf(lconst') \subseteq Forbidden'
        BY <2>1, <1>3, <1>9, <1>13
      <3> QED  BY <3>1, <2>3, <2>4, <2>5, <1>12 DEF Eliminating
    <2>7. ASSUME NEW v \in Valuations
          PROVE  Source(v)' <=> /\ ClustersMean(v)' /\ AllHold(NonLinear', v) /\ AllHold(lconst', v)
                                /\ Obeys(v, log')
      <3>1. ClustersMean(v)' <=> AllHold(lin, v)
        BY <2>1, <2>3, <2>4, <2>5 DEF ClustersMean
      <3> QED  BY <3>1, <2>1, <1>2, <1>3, <1>10
    <2>8. AtLinear'
      BY <2>6, <2>7, <1>11, <1>14, <1>15 DEF AtLinear
    <2> QED  BY <2>1, <2>2, <2>8 DEF IInv, Stages
  <1>17. CASE ~options.linear
    <2>1. lconst' = lconst \o lin /\ linear' = <<>> /\ stage' = "nonlinear" /\ clusters' = {}
      BY <1>1, <1>14, <1>17
    <2>2. lin \in Seq(Linear)
      <3>1. \A i \in DOMAIN lin : lin[i] \in Linear
        BY <1>6, ConIs
      <3> QED  BY <3>1, <1>6, SequenceOf
    <2>3. /\ lconst' \in Seq(Linear)
          /\ \A v : AllHold(lconst', v) <=> AllHold(lconst, v) /\ AllHold(lin, v)
          /\ AllSignalsOf(lconst') = AllSignalsOf(lconst) \cup AllSignalsOf(lin)
      BY <2>1, <2>2, <1>5, JoinedSequences
    <2>4. Typed'
      BY <2>1, <2>3, <1>2, <1>3, <1>4, <1>13 DEF Typed
    <2>5. AllSignalsOf(lconst') \cap deleted' = {}
      BY <2>3, <1>9, <1>13 DEF Removable
    <2>6. InLog(linearSubs', log') /\ Images(linearSubs', DOMAIN linearSubs') = {}
      BY <1>14, NothingMentioned, NoReplacements DEF InLog
    <2>7. \A v \in Valuations :
          Source(v)' <=> AllHold(NonLinear', v) /\ AllHold(lconst', v) /\ Obeys(v, log')
      BY <2>3, <1>2, <1>3, <1>10
    <2>8. AtNonLinear'
      BY <2>1, <2>5, <2>6, <2>7, <1>2, <1>11, <1>12, <1>14, <1>15, <1>17 DEF AtNonLinear
    <2> QED  BY <2>1, <2>4, <2>8 DEF IInv, Stages
  <1> QED  BY <1>16, <1>17

\* A cluster is in elimination only in the linear stages.
LEMMA Busy ==
    ASSUME IInv, job # Idle
    PROVE  stage \in {"linear", "round"}
  <1>1. stage \in {"equalities", "constants", "linear", "nonlinear", "round", "witness", "done"}
    BY DEF IInv, Typed
  <1> QED  BY <1>1 DEF IInv, Stages, AtEqualities, AtConstants, AtNonLinear, AtWitness, AtDone

\* What holds in the linear stages.
LEMMA InElimination ==
    ASSUME IInv, stage \in {"linear", "round"}
    PROVE  Typed /\ Eliminating /\ job \in Jobs /\ linear \in Seq(CleanLinear)
           /\ lconst \in Seq(Linear) /\ subs \in Removals
  BY DEF IInv, Stages, AtLinear, AtRound, Typed

\* A step of the elimination keeps what the rest of the state is about.
LEMMA EliminationStep ==
    ASSUME IInv, stage \in {"linear", "round"},
           UNCHANGED <<circuit, options, stage, equalities, consEqualities, linear, frames,
                       deleted, storage, listed, log>>,
           job' \in Jobs, lconst' \in Seq(Linear), subs' \in Removals, Eliminating',
           \A v \in Valuations : (ClustersMean(v)' /\ AllHold(lconst', v)) <=>
                                    (ClustersMean(v) /\ AllHold(lconst, v))
    PROVE  IInv'
  <1>1. UNCHANGED <<circuit, options, stage, equalities, consEqualities, linear, single, cons, linearSubs,
                    deleted, storage, listed, log>>
    BY DEF frames
  <1>2. /\ Forbidden' = Forbidden /\ Removable' = Removable /\ Logs' = Logs /\ Removals' = Removals
        /\ NonLinear' = NonLinear
        /\ \A v : Source(v)' <=> Source(v)
    BY <1>1, SameCircuit
  <1>n. \A t : Renamed(t)' = Renamed(t)
    BY <1>1, SameNames
  <1>3. Typed /\ (stage = "linear" => AtLinear) /\ (stage = "round" => AtRound)
    BY DEF IInv, Stages
  <1>4. Typed'
    BY <1>1, <1>2, <1>3 DEF Typed
  <1>5. CASE stage = "linear"
    <2>1. AtLinear
      BY <1>3, <1>5
    <2>2. Framed'
      BY <2>1, <1>1, <1>n DEF AtLinear, Framed
    <2>3. \A v \in Valuations :
          Source(v)' <=> /\ ClustersMean(v)' /\ AllHold(NonLinear', v) /\ AllHold(lconst', v)
                         /\ Obeys(v, log')
      BY <2>1, <1>1, <1>2 DEF AtLinear
    <2>4. AtLinear'
      BY <2>1, <2>2, <2>3, <1>1, <1>2, <1>n DEF AtLinear
    <2> QED  BY <2>4, <1>1, <1>4, <1>5 DEF IInv, Stages
  <1>6. CASE stage = "round"
    <2>1. AtRound
      BY <1>3, <1>6
    <2>2. Stored'
      BY <2>1, <1>1 DEF AtRound, Stored
    <2>3. \A v \in Valuations :
          Source(v)' <=> /\ ClustersMean(v)' /\ AllHold(storage', v) /\ AllHold(lconst', v)
                         /\ Obeys(v, log')
      BY <2>1, <1>1, <1>2 DEF AtRound
    <2>4. AtRound'
      BY <2>2, <2>3 DEF AtRound
    <2> QED  BY <2>4, <1>1, <1>4, <1>6 DEF IInv, Stages
  <1> QED  BY <1>5, <1>6

\* A step that changes the job of a cluster, and perhaps keeps a constraint.
LEMMA JobStep ==
    ASSUME IInv, job # Idle,
           UNCHANGED <<circuit, options, stage, equalities, consEqualities, linear, frames,
                       clusters, subs, deleted, storage, listed, log>>,
           job' \in Jobs, job'.cluster = job.cluster, JobFits', UniquesFit',
           lconst' \in Seq(Linear), AllSignalsOf(lconst') \subseteq Forbidden,
           \A v \in Valuations : (JobHolds(v)' /\ AllHold(lconst', v)) <=>
                                    (JobHolds(v) /\ AllHold(lconst, v))
    PROVE  IInv'
  <1>1. stage \in {"linear", "round"} /\ Typed /\ Eliminating
    BY Busy, InElimination
  <1>2. JobSignals' = JobSignals
    BY DEF JobSignals
  <1>3. Forbidden' = Forbidden /\ ConstantsAgree' = ConstantsAgree /\ Removals' = Removals
    BY SameCircuit
  <1>4. Logged'
    BY <1>1, <1>3 DEF Eliminating, Logged
  <1>5. Eliminating'
    BY <1>1, <1>2, <1>3, <1>4 DEF Eliminating
  <1>6. subs' \in Removals
    BY <1>1 DEF Typed
  <1>7. \A v \in Valuations : (ClustersMean(v)' /\ AllHold(lconst', v)) <=>
                                    (ClustersMean(v) /\ AllHold(lconst, v))
    BY DEF ClustersMean
  <1> QED  BY <1>1, <1>5, <1>6, <1>7, EliminationStep

\* What the state of an elimination is made of.
LEMMA JobIs ==
    ASSUME job \in Jobs
    PROVE  /\ job = [cluster |-> job.cluster, todo |-> job.todo, uniques |-> job.uniques,
                     occurrences |-> job.occurrences, work |-> job.work, holder |-> job.holder,
                     order |-> job.order]
           /\ job.cluster \in SUBSET Nat /\ job.todo \in Seq(CleanLinear) /\ job.uniques \in SUBSET Signal
           /\ job.occurrences \in UNION {[D -> Int] : D \in SUBSET Signal}
           /\ job.work \in Seq(CleanLinear)
           /\ job.holder \in UNION {[D -> Definition] : D \in SUBSET Signal}
           /\ job.order \in Seq(Signal)
           /\ job.occurrences \in [DOMAIN job.occurrences -> Int] /\ DOMAIN job.occurrences \in SUBSET Signal
           /\ job.holder \in [DOMAIN job.holder -> Definition] /\ DOMAIN job.holder \in SUBSET Signal
  <1> DEFINE A == UNION {[D -> Int] : D \in SUBSET Signal}
             B == UNION {[D -> Definition] : D \in SUBSET Signal}
  <1>1. \A f \in A : f \in [DOMAIN f -> Int] /\ DOMAIN f \in SUBSET Signal
    OBVIOUS
  <1>2. \A f \in B : f \in [DOMAIN f -> Definition] /\ DOMAIN f \in SUBSET Signal
    OBVIOUS
  <1>3. Jobs = [cluster : SUBSET Nat, todo : Seq(CleanLinear), uniques : SUBSET Signal,
         occurrences : A, work : Seq(CleanLinear), holder : B, order : Seq(Signal)]
    BY DEF Jobs
  <1> HIDE DEF A, B
  <1>4. /\ job = [cluster |-> job.cluster, todo |-> job.todo, uniques |-> job.uniques,
                     occurrences |-> job.occurrences, work |-> job.work, holder |-> job.holder,
                     order |-> job.order]
        /\ job.cluster \in SUBSET Nat /\ job.todo \in Seq(CleanLinear) /\ job.uniques \in SUBSET Signal
        /\ job.occurrences \in A /\ job.work \in Seq(CleanLinear) /\ job.holder \in B /\ job.order \in Seq(Signal)
    BY <1>3
  <1> QED  BY <1>1, <1>2, <1>4 DEF A, B

\* g and o are h and q with a definition of s put first.
HolderWith(g, D, h, s, def) ==
    /\ g \in UNION {[E -> Definition] : E \in SUBSET Signal}
    /\ DOMAIN g = D \cup {s} /\ g[s] = def /\ \A t \in D : g[t] = h[t]
OrderWith(o, q, s) ==
    /\ o \in Seq(Signal) /\ 1 \in DOMAIN o /\ o[1] = s
    /\ \A i \in DOMAIN q : i + 1 \in DOMAIN o /\ o[i + 1] = q[i]
    /\ \A i \in DOMAIN o : i = 1 \/ \E j \in DOMAIN q : i = j + 1 /\ o[i] = q[j]
    /\ \A i, j \in DOMAIN o : i < j => j # 1
    /\ DOMAIN q \subseteq Int

\* One more definition.
LEMMA GrownHolder ==
    ASSUME NEW D \in SUBSET Signal, NEW h \in [D -> Definition], NEW s \in Signal \ D,
           NEW def \in Definition
    PROVE  HolderWith(Only(s, def) ++ h, D, h, s, def)
  <1> DEFINE o == Only(s, def)
             g == Only(s, def) ++ h
  <1>0. g = Only(s, def) ++ h
    OBVIOUS
  <1> HIDE DEF g
  <1>1. DOMAIN o = {s} /\ o[s] = def
    BY DEF Only
  <1> HIDE DEF o
  <1>2. g = [t \in {s} \cup D |-> IF t \in {s} THEN o[t] ELSE h[t]]
    <2>1. g = o ++ h
      BY <1>0 DEF o
    <2> QED  BY <2>1, <1>1 DEF ++
  <1>3. DOMAIN g = D \cup {s} /\ g[s] = def /\ \A t \in D : g[t] = h[t]
    BY <1>1, <1>2
  <1>4. g \in [D \cup {s} -> Definition]
    BY <1>1, <1>2
  <1>5. D \cup {s} \in SUBSET Signal
    OBVIOUS
  <1>6. HolderWith(g, D, h, s, def)
    BY <1>3, <1>4, <1>5 DEF HolderWith
  <1> QED  BY <1>0, <1>6, Zenon

\* One more signal at the front of the order.
LEMMA GrownOrder ==
    ASSUME NEW q \in Seq(Signal), NEW s \in Signal
    PROVE  OrderWith(<<s>> \o q, q, s)
  <1> DEFINE n == Len(q)
             o == <<s>> \o q
  <1>1. /\ o \in Seq(Signal) /\ n \in Nat /\ DOMAIN o = 1..n + 1 /\ DOMAIN q = 1..n
        /\ o[1] = s /\ \A i \in 1..n : o[i + 1] = q[i]
    OBVIOUS
  <1>0. o = <<s>> \o q
    OBVIOUS
  <1> HIDE DEF n, o
  <1>2. ASSUME NEW i \in DOMAIN o, i # 1
        PROVE  \E j \in DOMAIN q : i = j + 1 /\ o[i] = q[j]
    <2>1. i - 1 \in 1..n /\ i = (i - 1) + 1
      BY <1>1, <1>2
    <2>2. o[(i - 1) + 1] = q[i - 1]
      BY <2>1, <1>1
    <2> QED  BY <2>1, <2>2, <1>1
  <1>3. OrderWith(o, q, s)
    BY <1>1, <1>2 DEF OrderWith
  <1> QED  BY <1>0, <1>3, Zenon

\* Occurrences taken off the counts.
LEMMA OccurrencesAre ==
    ASSUME NEW D \in SUBSET Signal, NEW occ \in [D -> Int], NEW con
    PROVE  /\ RemoveOccurrences(occ, con) \in UNION {[E -> Int] : E \in SUBSET Signal}
           /\ RemoveOccurrences(occ, con) \in [D -> Int]
           /\ DOMAIN RemoveOccurrences(occ, con) = D
  BY DEF RemoveOccurrences

\* The counts without a signal.
LEMMA CountsWithout ==
    ASSUME NEW D \in SUBSET Signal, NEW occ \in [D -> Int], NEW s
    PROVE  /\ Without(occ, s) \in UNION {[E -> Int] : E \in SUBSET Signal}
           /\ DOMAIN Without(occ, s) = D \ {s}
  <1>1. Without(occ, s) = [t \in D \ {s} |-> occ[t]]
    BY DEF Without, Restrict
  <1>2. Without(occ, s) \in [D \ {s} -> Int] /\ D \ {s} \in SUBSET Signal
    BY <1>1
  <1>3. DOMAIN Without(occ, s) = D \ {s}
    BY <1>1
  <1> QED  BY <1>2, <1>3

\* The constraints of a cluster as a sequence.
LEMMA ClusterConstraints ==
    ASSUME linear \in Seq(CleanLinear), NEW cl, cl \subseteq DOMAIN linear, NEW cs,
           cs = <<>> \o [i \in DOMAIN SetToSeq(cl) |-> linear[SetToSeq(cl)[i]]]
    PROVE  /\ cs \in Seq(CleanLinear) /\ AllSignalsOf(cs) = SigsIn(linear, cl)
           /\ IsFiniteSet(DOMAIN cs)
           /\ \A v : AllHold(cs, v) <=> \A i \in cl : Holds(linear[i], v)
  <1> DEFINE q == SetToSeq(cl)
             f == [i \in DOMAIN q |-> linear[q[i]]]
  <1>1. IsFiniteSet(cl)
    <2>1. Len(linear) \in Nat /\ DOMAIN linear = 1..Len(linear)
      OBVIOUS
    <2>2. IsFiniteSet(1..Len(linear))
      BY <2>1, FS_Interval
    <2> QED  BY <2>1, <2>2, FS_Subset
  <1>2. /\ q \in Seq(cl) /\ (\A i \in DOMAIN q : q[i] \in cl)
        /\ \A s \in cl : \E i \in DOMAIN q : q[i] = s
    BY <1>1, SetToSeqIs
  <1>3. cs = <<>> \o f
    OBVIOUS
  <1> HIDE DEF q
  <1>4. /\ f \in [DOMAIN q -> CleanLinear]
        /\ \A i \in DOMAIN q : f[i] = linear[q[i]]
    BY <1>2
  <1> HIDE DEF f
  <1>5. cs = f /\ cs \in Seq(CleanLinear) /\ DOMAIN cs = DOMAIN q
    BY <1>2, <1>3, <1>4, EachIs
  <1>6. AllSignalsOf(cs) = SigsIn(linear, cl)
    BY <1>2, <1>4, <1>5 DEF AllSignalsOf, SigsIn
  <1>7. \A v : AllHold(cs, v) <=> \A i \in cl : Holds(linear[i], v)
    BY <1>2, <1>4, <1>5 DEF AllHold
  <1>8. IsFiniteSet(DOMAIN cs)
    <2>1. Len(cs) \in Nat /\ DOMAIN cs = 1..Len(cs)
      BY <1>5
    <2> QED  BY <2>1, FS_Interval
  <1> QED  BY <1>5, <1>6, <1>7, <1>8

\* A signal that is counted once is in one constraint only.
LEMMA CountedOnce ==
    ASSUME NEW cs \in Seq(CleanLinear), IsFiniteSet(DOMAIN cs), circuit \in Circuits
    PROVE  /\ OccurrencesIn(cs) \in [AllSignalsOf(cs) \ Forbidden -> Int]
           /\ \A s \in DOMAIN OccurrencesIn(cs) : OccurrencesIn(cs)[s] = 1 =>
                 \A i, j \in DOMAIN cs :
                    s \in SignalsOf(cs[i]) /\ s \in SignalsOf(cs[j]) => i = j
  <1> DEFINE W(s) == {i \in DOMAIN cs : s \in DOMAIN cs[i].c}
             occ == OccurrencesIn(cs)
  <1>1. \A s : IsFiniteSet(W(s))
    BY FS_Subset
  <1>2. \A s : Cardinality(W(s)) \in Nat
    BY <1>1, FS_CardinalityType
  <1>3. occ = [s \in AllSignalsOf(cs) \ Forbidden |-> Cardinality(W(s))]
    BY DEF OccurrencesIn
  <1>4. \A i \in DOMAIN cs : \A s \in SignalsOf(cs[i]) : i \in W(s)
    <2> TAKE i \in DOMAIN cs
    <2>1. cs[i] \in CleanLinear
      OBVIOUS
    <2>2. SignalsOf(cs[i]) = DOMAIN cs[i].c \ {One}
      BY <2>1, ConIs
    <2> QED  BY <2>2
  <1> HIDE DEF W, occ
  <1>5. occ \in [AllSignalsOf(cs) \ Forbidden -> Int]
    BY <1>2, <1>3
  <1>6. ASSUME NEW s \in DOMAIN occ, occ[s] = 1, NEW i \in DOMAIN cs, NEW j \in DOMAIN cs,
               s \in SignalsOf(cs[i]), s \in SignalsOf(cs[j])
        PROVE  i = j
    <2>1. Cardinality(W(s)) = 1
      BY <1>3, <1>6
    <2>2. \E k \in W(s) : W(s) = {k}
      BY <2>1, <1>1, OneElement
    <2> QED  BY <2>2, <1>4, <1>6
  <1> QED  BY <1>5, <1>6 DEF occ

\* A cluster becomes the one in elimination: its constraints are those to do, its signals are
\* counted when those with few occurrences are to be taken first.
LEMMA StartClusterKeeps ==
    ASSUME IInv, NEW cl, StartCluster(cl)
    PROVE  IInv'
  <1> DEFINE cs == <<>> \o [i \in DOMAIN SetToSeq(cl) |-> linear[SetToSeq(cl)[i]]]
             occ == OccurrencesIn(cs)
             few == FewOccurrencesFirst(cl)
             O == IF few THEN occ ELSE <<>>
             U == {s \in DOMAIN occ : few /\ occ[s] = 1}
  <1>1. /\ stage \in {"linear", "round"} /\ cl \in clusters /\ job = Idle
        /\ clusters' = clusters \ {cl}
        /\ job' = [Idle EXCEPT !.cluster = cl, !.todo = cs, !.occurrences = O, !.uniques = U]
    BY DEF StartCluster, Each
  <1>2. UNCHANGED <<circuit, options, stage, lists, frames, subs, deleted, storage, listed, log>>
    BY DEF StartCluster, UNCHANGED_outside
  <1>3. UNCHANGED <<circuit, options, stage, equalities, consEqualities, linear, lconst, frames, subs,
                    deleted, storage, listed, log>>
    BY <1>2 DEF lists
  <1>4. Typed /\ Eliminating /\ job \in Jobs /\ linear \in Seq(CleanLinear)
        /\ lconst \in Seq(Linear) /\ subs \in Removals
    BY <1>1, InElimination
  <1>5. Forbidden' = Forbidden /\ ConstantsAgree' = ConstantsAgree /\ Removals' = Removals
        /\ Removable' = Removable
    BY <1>3, SameCircuit
  <1>6. cl \subseteq DOMAIN linear /\ cl \in SUBSET Nat
    <2>1. cl \subseteq DOMAIN linear
      BY <1>1, <1>4 DEF Eliminating, Apart
    <2>2. DOMAIN linear \subseteq Nat
      BY <1>4
    <2> QED  BY <2>1, <2>2
  <1>7. /\ cs \in Seq(CleanLinear) /\ AllSignalsOf(cs) = SigsIn(linear, cl)
        /\ IsFiniteSet(DOMAIN cs)
        /\ \A v : AllHold(cs, v) <=> \A i \in cl : Holds(linear[i], v)
    BY <1>4, <1>6, ClusterConstraints
  <1> HIDE DEF cs
  <1>8. circuit \in Circuits
    BY <1>4 DEF Typed
  <1>9. /\ occ \in [AllSignalsOf(cs) \ Forbidden -> Int]
        /\ \A s \in DOMAIN occ : occ[s] = 1 =>
                 \A i, j \in DOMAIN cs : s \in SignalsOf(cs[i]) /\ s \in SignalsOf(cs[j]) => i = j
    BY <1>7, <1>8, CountedOnce
  <1>10. AllSignalsOf(cs) \subseteq Signal \ {One}
    <2>1. \A i \in DOMAIN linear : linear[i] \in Con
      BY <1>4, ConIs
    <2>2. \A i \in DOMAIN linear : SignalsOf(linear[i]) \subseteq Signal \ {One}
      BY <2>1, ConIs
    <2> QED  BY <2>2, <1>6, <1>7 DEF SigsIn
  <1> HIDE DEF occ
  <1>11. /\ job'.cluster = cl /\ job'.todo = cs /\ job'.occurrences = O /\ job'.uniques = U
         /\ job'.work = <<>> /\ job'.holder = <<>> /\ job'.order = <<>>
         /\ job' = [cluster |-> cl, todo |-> cs, uniques |-> U, occurrences |-> O, work |-> <<>>,
                    holder |-> <<>>, order |-> <<>>]
    <2> HIDE DEF O, U
    <2> QED  BY <1>1 DEF Idle
  <1>12. U \subseteq Removable /\ U \in SUBSET Signal
    BY <1>9, <1>10 DEF Removable
  <1>13. O \in UNION {[E -> Int] : E \in SUBSET Signal} /\ (few => DOMAIN O = AllSignalsOf(cs) \ Forbidden)
    <2>1. AllSignalsOf(cs) \ Forbidden \in SUBSET Signal /\ {} \in SUBSET Signal
      BY <1>10
    <2>2. <<>> \in [{} -> Int]
      OBVIOUS
    <2> QED  BY <2>1, <2>2, <1>9
  <1> DEFINE uniq == U
  <1>14. \A s \in U : few /\ \A i, j \in DOMAIN cs :
              s \in SignalsOf(cs[i]) /\ s \in SignalsOf(cs[j]) => i = j
    BY <1>9
  <1> HIDE DEF U, O
  <1>15. job' \in Jobs
    <2>1. /\ <<>> \in Seq(CleanLinear) /\ <<>> \in Seq(Signal)
          /\ <<>> \in UNION {[E -> Definition] : E \in SUBSET Signal}
      <3>1. {} \in SUBSET Signal /\ <<>> \in [{} -> Definition]
        OBVIOUS
      <3> QED  BY <3>1
    <2> QED  BY <2>1, <1>6, <1>7, <1>11, <1>12, <1>13 DEF Jobs
  <1>16. LessOccurrences' = few /\ JobSignals' = SigsIn(linear, cl)
    BY <1>3, <1>11 DEF LessOccurrences, FewOccurrencesFirst, JobSignals
  <1> HIDE DEF few
  <1>17. DOMAIN <<>> = {} /\ Len(<<>>) = 0 /\ AllSignalsOf(<<>>) = {}
    BY DEF AllSignalsOf
  <1>18. EarlierFree'
    BY <1>11, <1>17 DEF EarlierFree
  <1>19. JobFits'
    BY <1>3, <1>5, <1>6, <1>7, <1>11, <1>13, <1>16, <1>17, <1>18 DEF JobFits
  <1>20. UniquesFit'
    BY <1>5, <1>11, <1>12, <1>14, <1>16, <1>17 DEF UniquesFit
  <1>21. /\ Apart(clusters, linear) /\ JobSignals = {}
         /\ \A c2 \in clusters : SigsIn(linear, c2) \cap Mentioned(subs) = {}
    BY <1>1, <1>4, IdleIs DEF Eliminating
  <1>22. Apart(clusters', linear') /\
         \A c2 \in clusters' : SigsIn(linear', c2) \cap (Mentioned(subs') \cup JobSignals') = {}
    BY <1>1, <1>3, <1>16, <1>21 DEF Apart
  <1>23. JobSignals' \cap Mentioned(subs') = {}
    BY <1>1, <1>3, <1>16, <1>21
  <1>24. Logged'
    BY <1>3, <1>4, <1>5 DEF Eliminating, Logged
  <1>25. Eliminating'
    BY <1>3, <1>4, <1>5, <1>19, <1>20, <1>22, <1>23, <1>24 DEF Eliminating
  <1>26. \A v \in Valuations : (ClustersMean(v)' /\ AllHold(lconst', v)) <=>
                                    (ClustersMean(v) /\ AllHold(lconst, v))
    <2> TAKE v \in Valuations
    <2>1. JobHolds(v)
      BY <1>1, IdleIs
    <2>2. JobHolds(v)' <=> \A i \in cl : Holds(linear[i], v)
      BY <1>7, <1>11, <1>17 DEF JobHolds, AllHold
    <2>3. ClustersHold(clusters, linear, v) <=>
             ClustersHold(clusters', linear', v) /\ \A i \in cl : Holds(linear[i], v)
      BY <1>1, <1>3 DEF ClustersHold
    <2> QED  BY <2>1, <2>2, <2>3, <1>3 DEF ClustersMean
  <1>27. lconst' \in Seq(Linear) /\ subs' \in Removals
    BY <1>3, <1>4
  <1> QED  BY <1>1, <1>3, <1>15, <1>25, <1>26, <1>27, EliminationStep

\* The constant is no signal of a cluster.
LEMMA JobSignalsAre ==
    ASSUME linear \in Seq(CleanLinear), job.cluster \subseteq DOMAIN linear
    PROVE  JobSignals \subseteq Signal \ {One}
  <1>1. \A i \in DOMAIN linear : linear[i] \in Con
    BY ConIs
  <1>2. \A i \in DOMAIN linear : SignalsOf(linear[i]) \subseteq Signal \ {One}
    BY <1>1, ConIs
  <1> QED  BY <1>2 DEF JobSignals, SigsIn

\* A signal that has no definition yet gets one from a constraint.
LEMMA NewDefinition ==
    ASSUME Typed, JobFits, NEW con \in CleanLinear, SignalsOf(con) \subseteq JobSignals,
           NEW s \in SignalsOf(con) \ Forbidden, s \notin DOMAIN job.holder,
           linear' = linear, circuit' = circuit, options' = options, job'.cluster = job.cluster,
           job'.holder = Only(s, Cleared(con, s)) ++ job.holder, job'.order = <<s>> \o job.order,
           LessOccurrences => SignalsOf(con) \cap DOMAIN job.holder = {},
           ~LessOccurrences => \A t \in SignalsOf(con) \ Forbidden : t <= s
    PROVE  /\ job'.holder \in UNION {[D -> Definition] : D \in SUBSET Signal}
           /\ job'.order \in Seq(Signal)
           /\ DOMAIN job'.holder = DOMAIN job.holder \cup {s}
           /\ DOMAIN job'.holder \subseteq JobSignals' \ Forbidden'
           /\ \A t \in DOMAIN job'.holder : DOMAIN job'.holder[t].to \subseteq {One} \cup JobSignals'
           /\ \A i \in DOMAIN job'.order : job'.order[i] \in DOMAIN job'.holder
           /\ \A t \in DOMAIN job'.holder : \E i \in DOMAIN job'.order : job'.order[i] = t
           /\ \A i, j \in DOMAIN job'.order : i # j => job'.order[i] # job'.order[j]
           /\ EarlierFree'
           /\ \A v \in Valuations :
                 (\A t \in DOMAIN job'.holder : Defines(v, t, job'.holder[t])) <=>
                    Holds(con, v) /\ \A t \in DOMAIN job.holder : Defines(v, t, job.holder[t])
  <1> DEFINE h == job.holder
             q == job.order
             g == job'.holder
             o == job'.order
             D == DOMAIN h
             def == Cleared(con, s)
             J == JobSignals
  <1>1. /\ h \in [D -> Definition] /\ D \in SUBSET Signal /\ q \in Seq(Signal)
    BY JobIs DEF Typed
  <1>2. /\ D \subseteq J \ Forbidden
        /\ \A t \in D : DOMAIN h[t].to \subseteq {One} \cup J
        /\ \A i \in DOMAIN q : q[i] \in D
        /\ \A t \in D : \E i \in DOMAIN q : q[i] = t
        /\ \A i, j \in DOMAIN q : i # j => q[i] # q[j]
        /\ \A t \in D : t \notin DOMAIN h[t].to
        /\ LessOccurrences => \A i, j \in DOMAIN q : i < j => q[j] \notin DOMAIN h[q[i]].to
        /\ ~LessOccurrences => \A t \in D : \A x \in DOMAIN h[t].to \ Forbidden : x < t
    BY DEF JobFits, EarlierFree
  <1>3. J \subseteq Signal \ {One} /\ s \in Signal /\ s \in J
    <2>1. linear \in Seq(CleanLinear) /\ job.cluster \subseteq DOMAIN linear
      BY DEF Typed, JobFits
    <2> QED  BY <2>1, JobSignalsAre
  <1>4. /\ def \in Definition /\ DOMAIN def.to = {One} \cup (DOMAIN con.c \ {s})
        /\ \A v \in [Signal -> Field] : Holds(con, v) <=> Defines(v, s, def)
    BY ClearedIs
  <1>5. con \in Linear /\ SignalsOf(con) = DOMAIN con.c \ {One} /\ One \in Forbidden
    BY ConIs, Constraints DEF Typed
  <1>6. DOMAIN def.to = {One} \cup (SignalsOf(con) \ {s}) /\ s \notin DOMAIN def.to
    BY <1>3, <1>4, <1>5
  <1> HIDE DEF def, h, q, D
  <1>7. /\ g \in UNION {[E -> Definition] : E \in SUBSET Signal}
        /\ DOMAIN g = D \cup {s} /\ g[s] = def /\ \A t \in D : g[t] = h[t]
    <2>1. s \in Signal \ D
      BY <1>3 DEF D, h
    <2>2. g = Only(s, def) ++ h
      BY DEF def, h
    <2> HIDE DEF g
    <2>3. D \in SUBSET Signal /\ h \in [D -> Definition] /\ def \in Definition
      BY <1>1, <1>4
    <2> HIDE DEF o, J
    <2>4. HolderWith(Only(s, def) ++ h, D, h, s, def)
      BY <2>1, <2>3, GrownHolder, Zenon
    <2>5. HolderWith(g, D, h, s, def)
      BY <2>2, <2>4, Zenon
    <2> QED  BY <2>5 DEF HolderWith
  <1>8. /\ o \in Seq(Signal) /\ 1 \in DOMAIN o /\ o[1] = s
        /\ \A i \in DOMAIN q : i + 1 \in DOMAIN o /\ o[i + 1] = q[i]
        /\ \A i \in DOMAIN o : i = 1 \/ \E j \in DOMAIN q : i = j + 1 /\ o[i] = q[j]
        /\ \A i, j \in DOMAIN o : i < j => j # 1
        /\ DOMAIN q \subseteq Int
    <2>1. o = <<s>> \o q
      BY DEF q
    <2> HIDE DEF o, g, J
    <2>2. OrderWith(<<s>> \o q, q, s)
      BY <1>1, <1>3, GrownOrder, Zenon
    <2>3. OrderWith(o, q, s)
      BY <2>1, <2>2, Zenon
    <2> QED  BY <2>3 DEF OrderWith
  <1>9. /\ JobSignals' = J /\ Forbidden' = Forbidden
        /\ LessOccurrences' = LessOccurrences
    <2>1. Forbidden' = Forbidden
      BY SameCircuit
    <2> QED  BY <2>1 DEF JobSignals, LessOccurrences, FewOccurrencesFirst
  <1>10. s \notin D /\ s \notin Forbidden
    BY DEF D, h
  <1>11. /\ LessOccurrences => SignalsOf(con) \cap D = {}
         /\ ~LessOccurrences => \A t \in SignalsOf(con) \ Forbidden : t <= s
    BY DEF D, h
  <1> HIDE DEF J, g, o
  <1>12. DOMAIN g \subseteq J \ Forbidden
    BY <1>2, <1>3, <1>7, <1>10
  <1>13. \A t \in DOMAIN g : DOMAIN g[t].to \subseteq {One} \cup J
    BY <1>2, <1>6, <1>7 DEF J
  <1>14. \A i \in DOMAIN o : o[i] \in DOMAIN g
    BY <1>2, <1>7, <1>8
  <1>15. \A t \in DOMAIN g : \E i \in DOMAIN o : o[i] = t
    BY <1>2, <1>7, <1>8
  <1>16. ASSUME NEW i \in DOMAIN o, NEW j \in DOMAIN o, i # j  PROVE  o[i] # o[j]
    <2>1. CASE i = 1
      <3>1. PICK l \in DOMAIN q : o[j] = q[l]
        BY <2>1, <1>8, <1>16
      <3> QED  BY <2>1, <3>1, <1>2, <1>8, <1>10
    <2>2. CASE j = 1
      <3>1. PICK l \in DOMAIN q : o[i] = q[l]
        BY <2>2, <1>8, <1>16
      <3> QED  BY <2>2, <3>1, <1>2, <1>8, <1>10
    <2>3. CASE i # 1 /\ j # 1
      <3>1. PICK k \in DOMAIN q : i = k + 1 /\ o[i] = q[k]
        BY <2>3, <1>8
      <3>2. PICK l \in DOMAIN q : j = l + 1 /\ o[j] = q[l]
        BY <2>3, <1>8
      <3>3. k # l
        BY <3>1, <3>2, <1>16
      <3> QED  BY <3>1, <3>2, <3>3, <1>2
    <2> QED  BY <2>1, <2>2, <2>3
  <1>17. \A t \in DOMAIN g : t \notin DOMAIN g[t].to
    BY <1>2, <1>6, <1>7
  <1>18. ASSUME LessOccurrences, NEW i \in DOMAIN o, NEW j \in DOMAIN o, i < j
         PROVE  o[j] \notin DOMAIN g[o[i]].to
    <2>1. PICK l \in DOMAIN q : j = l + 1 /\ o[j] = q[l]
      BY <1>8, <1>18
    <2>2. q[l] \in D
      BY <1>2
    <2>3. CASE i = 1
      <3>1. o[i] = s /\ g[o[i]] = def
        BY <2>3, <1>7, <1>8
      <3>2. q[l] # One
        BY <2>2, <1>2, <1>5
      <3>3. q[l] \notin SignalsOf(con)
        BY <2>2, <1>11, <1>18
      <3> QED  BY <2>1, <3>1, <3>2, <3>3, <1>6
    <2>4. CASE i # 1
      <3>1. PICK k \in DOMAIN q : i = k + 1 /\ o[i] = q[k]
        BY <2>4, <1>8
      <3>2. k < l
        BY <3>1, <2>1, <1>8, <1>18
      <3>3. q[l] \notin DOMAIN h[q[k]].to /\ q[k] \in D
        BY <3>2, <1>2, <1>18
      <3> QED  BY <2>1, <3>1, <3>3, <1>7
    <2> QED  BY <2>3, <2>4
  <1>19. ASSUME ~LessOccurrences, NEW t \in DOMAIN g, NEW x \in DOMAIN g[t].to \ Forbidden
         PROVE  x < t
    <2>1. CASE t = s
      <3>1. x \in SignalsOf(con) \ Forbidden /\ x # s
        BY <2>1, <1>5, <1>6, <1>7, <1>19
      <3>2. x <= s
        BY <3>1, <1>11, <1>19
      <3>3. x \in Int /\ s \in Int
        <4>1. x \in Signal /\ s \in Signal
          BY <3>1, <1>3 DEF J
        <4> QED  BY <4>1, Numbers
      <3> QED  BY <2>1, <3>1, <3>2, <3>3
    <2>2. CASE t # s
      BY <2>2, <1>2, <1>7, <1>19
    <2> QED  BY <2>1, <2>2
  <1>20. EarlierFree'
    BY <1>9, <1>17, <1>18, <1>19 DEF EarlierFree, g, o
  <1>21. \A v \in Valuations : (\A t \in DOMAIN g : Defines(v, t, g[t])) <=>
                    Holds(con, v) /\ \A t \in D : Defines(v, t, h[t])
    BY <1>4, <1>7, ValuationsAre
  <1> QED  BY <1>7, <1>8, <1>9, <1>12, <1>13, <1>14, <1>15, <1>16, <1>20, <1>21 DEF g, o, h, D

\* A sequence of constraints without one of them.
LEMMA RemovedConstraint ==
    ASSUME NEW S, NEW cs \in Seq(S), NEW k \in DOMAIN cs
    PROVE  /\ RemoveAt(cs, k) \in Seq(S) /\ cs[k] \in S
           /\ AllSignalsOf(RemoveAt(cs, k)) \subseteq AllSignalsOf(cs)
           /\ SignalsOf(cs[k]) \subseteq AllSignalsOf(cs)
           /\ \A v : AllHold(cs, v) <=> AllHold(RemoveAt(cs, k), v) /\ Holds(cs[k], v)
  <1> DEFINE q == RemoveAt(cs, k)
  <1>1. /\ q \in Seq(S)
        /\ \A i \in DOMAIN q : \E j \in DOMAIN cs : j # k /\ q[i] = cs[j]
        /\ \A j \in DOMAIN cs : j # k => \E i \in DOMAIN q : q[i] = cs[j]
    BY RemoveAtIs
  <1>2. cs[k] \in S
    OBVIOUS
  <1> HIDE DEF q
  <1>3. AllSignalsOf(q) \subseteq AllSignalsOf(cs)
    BY <1>1 DEF AllSignalsOf
  <1>4. SignalsOf(cs[k]) \subseteq AllSignalsOf(cs)
    BY DEF AllSignalsOf
  <1>5. \A v : AllHold(cs, v) <=> AllHold(q, v) /\ Holds(cs[k], v)
    <2> TAKE v
    <2>1. ASSUME AllHold(cs, v)  PROVE  AllHold(q, v) /\ Holds(cs[k], v)
      BY <2>1, <1>1 DEF AllHold
    <2>2. ASSUME AllHold(q, v), Holds(cs[k], v)  PROVE  AllHold(cs, v)
      <3> SUFFICES ASSUME NEW j \in DOMAIN cs, j # k  PROVE  Holds(cs[j], v)
        BY <2>2 DEF AllHold
      <3>1. PICK i \in DOMAIN q : q[i] = cs[j]
        BY <1>1
      <3> QED  BY <3>1, <2>2 DEF AllHold
    <2> QED  BY <2>1, <2>2
  <1> QED  BY <1>1, <1>2, <1>3, <1>4, <1>5 DEF q

\* The state of an elimination whose definitions stay.
LEMMA FitsStill ==
    ASSUME JobFits, linear' = linear, circuit' = circuit, options' = options,
           job'.cluster = job.cluster, job'.holder = job.holder, job'.order = job.order,
           AllSignalsOf(job'.todo) \subseteq JobSignals, AllSignalsOf(job'.work) \subseteq JobSignals,
           Len(job'.work) <= 1, DOMAIN job'.occurrences = DOMAIN job.occurrences
    PROVE  JobFits' /\ (LessOccurrences' <=> LessOccurrences) /\ JobSignals' = JobSignals
  <1>1. Forbidden' = Forbidden
    BY SameCircuit
  <1>2. JobSignals' = JobSignals
    BY DEF JobSignals
  <1>3. LessOccurrences' <=> LessOccurrences
    BY DEF LessOccurrences, FewOccurrencesFirst
  <1>4. EarlierFree'
    BY <1>1, <1>3 DEF JobFits, EarlierFree
  <1> QED  BY <1>1, <1>2, <1>3, <1>4 DEF JobFits

\* The constraint in work.
LEMMA InWork ==
    ASSUME IInv, Working
    PROVE  /\ job # Idle /\ job.work[1] \in CleanLinear
           /\ SignalsOf(job.work[1]) \subseteq JobSignals
           /\ \A v : AllHold(job.work, v) <=> Holds(job.work[1], v)
           /\ job.uniques = {}
           /\ stage \in {"linear", "round"} /\ Typed /\ Eliminating
  <1>1. job # Idle
    BY IdleIs DEF Working
  <1>2. stage \in {"linear", "round"} /\ Typed /\ Eliminating
    BY <1>1, Busy, InElimination
  <1>3. job.work \in Seq(CleanLinear) /\ Len(job.work) <= 1 /\ job.work # <<>>
    BY <1>2, JobIs DEF Eliminating, JobFits, Working, Typed
  <1>4. DOMAIN job.work = {1} /\ job.work[1] \in CleanLinear
    <2> DEFINE w == job.work
    <2>1. w \in Seq(CleanLinear) /\ Len(w) <= 1 /\ w # <<>>
      BY <1>3
    <2> HIDE DEF w
    <2>2. Len(w) = 1
      <3>1. Len(w) \in Nat /\ Len(w) # 0
        BY <2>1
      <3> DEFINE n == Len(w)
      <3>2. n \in Nat /\ n # 0 /\ n <= 1
        BY <2>1, <3>1
      <3> HIDE DEF n
      <3>3. n = 1
        BY <3>2
      <3> QED  BY <3>3 DEF n
    <2>3. DOMAIN w = 1..1
      BY <2>1, <2>2
    <2>4. 1..1 = {1}
      OBVIOUS
    <2>5. w[1] \in CleanLinear
      BY <2>1, <2>3, <2>4
    <2> QED  BY <2>3, <2>4, <2>5 DEF w
  <1>5. SignalsOf(job.work[1]) \subseteq JobSignals
    BY <1>2, <1>4 DEF Eliminating, JobFits, AllSignalsOf
  <1>6. \A v : AllHold(job.work, v) <=> Holds(job.work[1], v)
    BY <1>4 DEF AllHold
  <1>7. job.uniques = {}
    BY <1>2, <1>3 DEF Eliminating, UniquesFit
  <1> QED  BY <1>1, <1>2, <1>4, <1>5, <1>6, <1>7

\* A finite set that is not empty has an element with the least count.
LEMMA FewestExists ==
    ASSUME NEW S, IsFiniteSet(S), S # {}, NEW occ, \A s \in S : occ[s] \in Int
    PROVE  \E s \in S : \A t \in S : occ[s] <= occ[t]
  <1> DEFINE Q == {T \in SUBSET S : T = {} \/ \E s \in T : \A t \in T : occ[s] <= occ[t]}
  <1>1. \A T \in SUBSET S : (\A x \in T : T \ {x} \in Q) => T \in Q
    <2> TAKE T \in SUBSET S
    <2> HAVE \A x \in T : T \ {x} \in Q
    <2>1. CASE T = {}
      BY <2>1
    <2>2. CASE T # {}
      <3>1. PICK x \in T : TRUE
        BY <2>2
      <3>2. T \ {x} = {} \/ \E s \in T \ {x} : \A t \in T \ {x} : occ[s] <= occ[t]
        BY <3>1
      <3>3. CASE T \ {x} = {}
        <4>1. \A t \in T : t = x
          BY <3>3
        <4>2. \A t \in T : occ[x] <= occ[t]
          BY <4>1
        <4> QED  BY <4>2
      <3>4. CASE \E s \in T \ {x} : \A t \in T \ {x} : occ[s] <= occ[t]
        <4>1. PICK s \in T \ {x} : \A t \in T \ {x} : occ[s] <= occ[t]
          BY <3>4
        <4>2. CASE occ[s] <= occ[x]
          <5>1. \A t \in T : occ[s] <= occ[t]
            BY <4>1, <4>2
          <5> QED  BY <5>1
        <4>3. CASE ~(occ[s] <= occ[x])
          <5>1. \A t \in T : occ[x] <= occ[t]
            <6> TAKE t \in T
            <6>1. occ[x] \in Int /\ occ[s] \in Int /\ occ[t] \in Int
              OBVIOUS
            <6> QED  BY <4>1, <4>3, <6>1
          <5> QED  BY <5>1
        <4> QED  BY <4>2, <4>3
      <3> QED  BY <3>2, <3>3, <3>4
    <2> QED  BY <2>1, <2>2
  <1> HIDE DEF Q
  <1>2. \A T \in SUBSET S : T \in Q
    BY <1>1, SubsetsInduct
  <1>3. S \in Q
    BY <1>2
  <1> QED  BY <1>3 DEF Q

\* The greatest signal of a set.
LEMMA GreatestIs ==
    ASSUME NEW S \in SUBSET Signal
    PROVE  /\ Greatest(S) \subseteq S /\ (Greatest(S) = {} => S = {})
           /\ \A s \in Greatest(S) : \A t \in S : t <= s
  <1>1. CASE S = {}
    BY <1>1 DEF Greatest
  <1>2. CASE S # {}
    <2>1. NoLabels - 1 \in Nat /\ Signal = 0..NoLabels - 1
      BY Numbers DEF Signal
    <2> DEFINE n == NoLabels - 1
    <2>2. n \in Nat /\ S \in SUBSET (0..n)
      BY <2>1
    <2> HIDE DEF n
    <2>3. Max(S) \in S /\ \A s \in S : s <= Max(S)
      BY <2>2, <1>2, Bounds
    <2>4. Greatest(S) = {Max(S)}
      BY <1>2 DEF Greatest
    <2> QED  BY <2>3, <2>4
  <1> QED  BY <1>1, <1>2

\* The signals a constraint may be used for.
LEMMA TakeSignalIs ==
    ASSUME circuit \in Circuits, job \in Jobs, JobFits, NEW con \in CleanLinear,
           SignalsOf(con) \subseteq JobSignals
    PROVE  /\ TakeSignal(con) \subseteq SignalsOf(con) \ Forbidden
           /\ TakeSignal(con) = {} => SignalsOf(con) \subseteq Forbidden
           /\ ~LessOccurrences => \A s \in TakeSignal(con) :
                 \A t \in SignalsOf(con) \ Forbidden : t <= s
           /\ LessOccurrences => \A s \in TakeSignal(con) \ DOMAIN job.holder :
                 SignalsOf(con) \cap DOMAIN job.holder = {}
  <1> DEFINE take == SignalsOf(con) \ Forbidden
             gone == take \cap DOMAIN job.holder
             few  == {s \in take : \A t \in take : job.occurrences[s] <= job.occurrences[t]}
  <1>1. One \in Forbidden /\ SignalsOf(con) = DOMAIN con.c \ {One}
    BY Constraints, ConIs
  <1>2. Takeable(con) = take
    BY <1>1 DEF Takeable
  <1>3. take \in SUBSET Signal /\ gone \in SUBSET Signal /\ few \in SUBSET Signal
    BY ConIs
  <1>4. TakeSignal(con) = IF ~LessOccurrences THEN Greatest(take)
                          ELSE IF gone # {} THEN gone ELSE Greatest(few)
    BY <1>2 DEF TakeSignal, FewestOccurrences
  <1>5. DOMAIN job.holder \cap Forbidden = {}
    BY DEF JobFits
  <1>6. gone = SignalsOf(con) \cap DOMAIN job.holder
    BY <1>5
  <1>7. ASSUME LessOccurrences, gone = {}, take # {}  PROVE  few # {}
    <2>1. DOMAIN job.occurrences = (JobSignals \ Forbidden) \ DOMAIN job.holder
      BY <1>7 DEF JobFits
    <2>2. take \subseteq DOMAIN job.occurrences
      BY <2>1, <1>7
    <2>3. \A s \in take : job.occurrences[s] \in Int
      BY <2>2, JobIs
    <2>4. IsFiniteSet(take)
      BY <1>3, SignalSets
    <2> DEFINE o == job.occurrences
    <2>5. \A s \in take : o[s] \in Int
      BY <2>3
    <2> HIDE DEF take, o
    <2>6. \E s \in take : \A t \in take : o[s] <= o[t]
      BY <2>4, <2>5, <1>7, FewestExists
    <2> QED  BY <2>6 DEF o
  <1>8. few \subseteq take /\ gone \subseteq take
    OBVIOUS
  <1>9. /\ Greatest(take) \subseteq take /\ (Greatest(take) = {} => take = {})
        /\ \A s \in Greatest(take) : \A t \in take : t <= s
        /\ Greatest(few) \subseteq few /\ (Greatest(few) = {} => few = {})
    BY <1>3, GreatestIs
  <1> DEFINE S == SignalsOf(con)
             H == DOMAIN job.holder
  <1>10. take = S \ Forbidden /\ gone = S \cap H
    BY <1>6
  <1> HIDE DEF take, gone, few, S, H
  <1>11. TakeSignal(con) \subseteq take /\ (TakeSignal(con) = {} => take = {})
    BY <1>4, <1>7, <1>8, <1>9
  <1>12. ~LessOccurrences => \A s \in TakeSignal(con) : \A t \in take : t <= s
    BY <1>4, <1>9
  <1>13. LessOccurrences => \A s \in TakeSignal(con) \ H : gone = {}
    BY <1>4, <1>10
  <1> QED  BY <1>10, <1>11, <1>12, <1>13 DEF S, H

\* Some constraint that is still to do is taken into work.
LEMMA TakeConstraintKeeps ==
    ASSUME IInv, NEW i \in DOMAIN job.todo, TakeConstraint(i)
    PROVE  IInv'
  <1> DEFINE con == job.todo[i]
             rest == RemoveAt(job.todo, i)
             occ == RemoveOccurrences(job.occurrences, con)
  <1>1. job # Idle
    BY IdleIs
  <1>2. stage \in {"linear", "round"} /\ Typed /\ Eliminating /\ JobFits
    BY <1>1, Busy, InElimination DEF Eliminating
  <1>3. /\ job.uniques = {} /\ job.work = <<>>
        /\ job' = [job EXCEPT !.work = <<con>>, !.todo = rest, !.occurrences = occ]
    BY DEF TakeConstraint
  <1>4. UNCHANGED <<circuit, options, stage, equalities, consEqualities, linear, lconst, frames,
                    clusters, subs, deleted, storage, listed, log>>
    BY DEF TakeConstraint, UNCHANGED_outside, lists
  <1>5. job.todo \in Seq(CleanLinear)
    BY <1>2, JobIs DEF Typed
  <1>6. /\ rest \in Seq(CleanLinear) /\ con \in CleanLinear
        /\ AllSignalsOf(rest) \subseteq AllSignalsOf(job.todo)
        /\ SignalsOf(con) \subseteq AllSignalsOf(job.todo)
        /\ \A v : AllHold(job.todo, v) <=> AllHold(rest, v) /\ Holds(con, v)
    BY <1>5, RemovedConstraint
  <1>7. /\ occ \in UNION {[E -> Int] : E \in SUBSET Signal}
        /\ DOMAIN occ = DOMAIN job.occurrences
    <2>1. job.occurrences \in [DOMAIN job.occurrences -> Int] /\ DOMAIN job.occurrences \in SUBSET Signal
      BY <1>2, JobIs DEF Typed
    <2> HIDE DEF con
    <2> DEFINE D == DOMAIN job.occurrences
               o == job.occurrences
    <2>2. D \in SUBSET Signal /\ o \in [D -> Int]
      BY <2>1
    <2> HIDE DEF D, o
    <2>3. /\ RemoveOccurrences(o, con) \in UNION {[E -> Int] : E \in SUBSET Signal}
          /\ DOMAIN RemoveOccurrences(o, con) = D
      BY <2>2, OccurrencesAre
    <2> QED  BY <2>3 DEF o, D
  <1> HIDE DEF con, rest, occ
  <1>8. /\ job' = [cluster |-> job.cluster, todo |-> rest, uniques |-> job.uniques,
                     occurrences |-> occ, work |-> <<con>>, holder |-> job.holder,
                     order |-> job.order]
        /\ job'.cluster = job.cluster /\ job'.todo = rest /\ job'.work = <<con>>
        /\ job'.holder = job.holder /\ job'.order = job.order /\ job'.uniques = {}
        /\ job'.occurrences = occ
    <2>1. job \in Jobs
      BY <1>2 DEF Typed
    <2> QED  BY <1>3, <2>1 DEF Jobs
  <1>9. job' \in Jobs
    <2>1. <<con>> \in Seq(CleanLinear)
      BY <1>6
    <2> QED  BY <1>2, <1>6, <1>7, <1>8, <2>1, JobIs DEF Typed, Jobs
  <1>10. /\ AllSignalsOf(<<con>>) = SignalsOf(con) /\ Len(<<con>>) = 1
         /\ \A v : AllHold(<<con>>, v) <=> Holds(con, v)
    BY DEF AllSignalsOf, AllHold
  <1>11. AllSignalsOf(job.todo) \subseteq JobSignals
    BY <1>2 DEF JobFits
  <1>12. JobFits'
    BY <1>2, <1>4, <1>6, <1>7, <1>8, <1>10, <1>11, FitsStill
  <1>13. UniquesFit'
    BY <1>8 DEF UniquesFit
  <1>14. AllSignalsOf(lconst) \subseteq Forbidden /\ lconst \in Seq(Linear)
    BY <1>2 DEF Eliminating, Typed
  <1>15. \A v \in Valuations : (JobHolds(v)' /\ AllHold(lconst', v)) <=>
                                    (JobHolds(v) /\ AllHold(lconst, v))
    <2> TAKE v \in Valuations
    <2>1. AllHold(job.work, v)
      BY <1>3 DEF AllHold
    <2> QED  BY <2>1, <1>4, <1>6, <1>8, <1>10 DEF JobHolds
  <1> QED  BY <1>1, <1>4, <1>8, <1>9, <1>12, <1>13, <1>14, <1>15, JobStep

\* Steps that take the constraint in work away, and perhaps put another there.
LEMMA WorkStep ==
    ASSUME IInv, Working, NEW w \in Seq(CleanLinear), Len(w) <= 1, AllSignalsOf(w) \subseteq JobSignals,
           job' = [job EXCEPT !.work = w],
           UNCHANGED <<circuit, options, stage, equalities, consEqualities, linear, frames,
                       clusters, subs, deleted, storage, listed, log>>,
           lconst' \in Seq(Linear), AllSignalsOf(lconst') \subseteq Forbidden,
           \A v \in Valuations : (\A s \in DOMAIN job.holder : Defines(v, s, job.holder[s])) =>
              ((AllHold(w, v) /\ AllHold(lconst', v)) <=> (Holds(job.work[1], v) /\ AllHold(lconst, v)))
    PROVE  IInv'
  <1>1. /\ job # Idle /\ (\A v : AllHold(job.work, v) <=> Holds(job.work[1], v))
        /\ job.uniques = {} /\ Typed /\ JobFits
    BY InWork DEF Eliminating
  <1>2. /\ job' = [cluster |-> job.cluster, todo |-> job.todo, uniques |-> job.uniques,
                     occurrences |-> job.occurrences, work |-> w, holder |-> job.holder,
                     order |-> job.order]
        /\ job'.cluster = job.cluster /\ job'.todo = job.todo /\ job'.work = w
        /\ job'.holder = job.holder /\ job'.order = job.order /\ job'.uniques = {}
        /\ job'.occurrences = job.occurrences
    <2>1. job \in Jobs
      BY <1>1 DEF Typed
    <2> QED  BY <1>1, <2>1 DEF Jobs
  <1>3. job' \in Jobs
    BY <1>1, <1>2, JobIs DEF Typed, Jobs
  <1>4. AllSignalsOf(job.todo) \subseteq JobSignals
    BY <1>1 DEF JobFits
  <1>5. JobFits'
    BY <1>1, <1>2, <1>4, FitsStill
  <1>6. UniquesFit'
    BY <1>2 DEF UniquesFit
  <1>7. \A v \in Valuations : (JobHolds(v)' /\ AllHold(lconst', v)) <=>
                                    (JobHolds(v) /\ AllHold(lconst, v))
    BY <1>1, <1>2 DEF JobHolds
  <1> QED  BY <1>1, <1>2, <1>3, <1>5, <1>6, <1>7, JobStep

\* The constraint in work has no signal that may be removed: it is kept for the end, unless it is
\* empty and says nothing.
LEMMA KeepConstraintKeeps ==
    ASSUME IInv, KeepConstraint
    PROVE  IInv'
  <1> DEFINE con == job.work[1]
  <1>1. /\ Working /\ TakeSignal(con) = {} /\ job' = [job EXCEPT !.work = <<>>]
        /\ IF con = EmptyConstraint THEN lconst' = lconst ELSE lconst' = Append(lconst, con)
        /\ UNCHANGED <<circuit, options, stage, equalities, consEqualities, linear, frames,
                   clusters, subs, deleted, storage, listed, log>>
    BY DEF KeepConstraint
  <1>2. /\ con \in CleanLinear /\ SignalsOf(con) \subseteq JobSignals
        /\ Typed /\ JobFits /\ AllSignalsOf(lconst) \subseteq Forbidden
    BY <1>1, InWork DEF Eliminating
  <1> HIDE DEF con
  <1>3. SignalsOf(con) \subseteq Forbidden
    BY <1>1, <1>2, TakeSignalIs DEF Typed
  <1>4. lconst \in Seq(Linear) /\ con \in Linear
    BY <1>2, ConIs DEF Typed
  <1>5. /\ Append(lconst, con) \in Seq(Linear)
        /\ \A v : AllHold(Append(lconst, con), v) <=> AllHold(lconst, v) /\ Holds(con, v)
        /\ AllSignalsOf(Append(lconst, con)) = AllSignalsOf(lconst) \cup SignalsOf(con)
    BY <1>4, AppendedConstraint
  <1>6. \A v \in Valuations : Holds(EmptyConstraint, v)
    <2> TAKE v \in Valuations
    <2>1. v \in [Signal -> Field]
      BY ValuationsAre
    <2>2. Zero \in Expr /\ Value(Zero, v) = 0
      BY <2>1, ZeroIs
    <2> QED  BY <2>1, <2>2, LinearHolds DEF EmptyConstraint, LinearConstraint
  <1>7. /\ lconst' \in Seq(Linear) /\ AllSignalsOf(lconst') \subseteq Forbidden
        /\ \A v \in Valuations : AllHold(lconst', v) <=> Holds(con, v) /\ AllHold(lconst, v)
    BY <1>1, <1>2, <1>3, <1>4, <1>5, <1>6
  <1>8. <<>> \in Seq(CleanLinear) /\ Len(<<>>) <= 1 /\ AllSignalsOf(<<>>) = {} /\ \A v : AllHold(<<>>, v)
    BY DEF AllSignalsOf, AllHold
  <1> DEFINE w == <<>>
  <1>9. w \in Seq(CleanLinear) /\ Len(w) <= 1 /\ AllSignalsOf(w) \subseteq JobSignals
        /\ job' = [job EXCEPT !.work = w] /\ \A v : AllHold(w, v)
    BY <1>1, <1>8
  <1> HIDE DEF w
  <1>10. \A v \in Valuations : (\A s \in DOMAIN job.holder : Defines(v, s, job.holder[s])) =>
              ((AllHold(w, v) /\ AllHold(lconst', v)) <=> (Holds(job.work[1], v) /\ AllHold(lconst, v)))
    BY <1>7, <1>9 DEF con
  <1> QED  BY <1>1, <1>7, <1>9, <1>10, WorkStep

\* The signal taken has a definition: the constraint in work becomes the combination of the two
\* that does not have it.
LEMMA MergeKeeps ==
    ASSUME IInv, NEW s \in Signal, Merge(s)
    PROVE  IInv'
  <1> DEFINE con == job.work[1]
             left == Cleared(con, s)
             right == job.holder[s]
             new == Merged(left, right)
             w == <<new>>
  <1>1. /\ Working /\ s \in TakeSignal(con) \cap DOMAIN job.holder /\ job' = [job EXCEPT !.work = w]
    BY DEF Merge
  <1>2. UNCHANGED <<circuit, options, stage, equalities, consEqualities, linear, lconst, frames,
                    clusters, subs, deleted, storage, listed, log>>
    BY DEF Merge, UNCHANGED_outside, lists
  <1>3. /\ con \in CleanLinear /\ SignalsOf(con) \subseteq JobSignals
        /\ Typed /\ JobFits /\ AllSignalsOf(lconst) \subseteq Forbidden
    BY <1>1, InWork DEF Eliminating
  <1> HIDE DEF con
  <1>4. TakeSignal(con) \subseteq SignalsOf(con) \ Forbidden
    BY <1>3, TakeSignalIs DEF Typed
  <1>5. s \in SignalsOf(con)
    BY <1>1, <1>4
  <1>6. /\ left \in Definition /\ DOMAIN left.to = {One} \cup (DOMAIN con.c \ {s})
        /\ \A v \in [Signal -> Field] : Holds(con, v) <=> Defines(v, s, left)
    BY <1>3, <1>5, ClearedIs
  <1>7. right \in Definition /\ DOMAIN right.to \subseteq {One} \cup JobSignals
    BY <1>1, <1>3, JobIs DEF Typed, JobFits
  <1> HIDE DEF left, right
  <1>8. /\ new \in CleanLinear
        /\ SignalsOf(new) \subseteq (DOMAIN left.to \cup DOMAIN right.to) \ {One}
        /\ \A v \in [Signal -> Field] :
                 Defines(v, s, right) => (Defines(v, s, left) <=> Holds(new, v))
    BY <1>6, <1>7, MergedIs
  <1>9. SignalsOf(con) = DOMAIN con.c \ {One}
    BY <1>3, ConIs
  <1>10. SignalsOf(new) \subseteq JobSignals
    BY <1>3, <1>6, <1>7, <1>8, <1>9
  <1> HIDE DEF new
  <1>11. w \in Seq(CleanLinear) /\ Len(w) <= 1 /\ AllSignalsOf(w) \subseteq JobSignals
         /\ \A v : AllHold(w, v) <=> Holds(new, v)
    BY <1>8, <1>10 DEF AllSignalsOf, AllHold
  <1> HIDE DEF w
  <1>12. lconst' \in Seq(Linear) /\ AllSignalsOf(lconst') \subseteq Forbidden
    BY <1>2, <1>3 DEF Typed
  <1>13. \A v \in Valuations : (\A t \in DOMAIN job.holder : Defines(v, t, job.holder[t])) =>
              ((AllHold(w, v) /\ AllHold(lconst', v)) <=> (Holds(job.work[1], v) /\ AllHold(lconst, v)))
    <2> TAKE v \in Valuations
    <2> HAVE \A t \in DOMAIN job.holder : Defines(v, t, job.holder[t])
    <2>1. v \in [Signal -> Field]
      BY ValuationsAre
    <2>2. Defines(v, s, right)
      BY <1>1 DEF right
    <2>3. Holds(con, v) <=> Holds(new, v)
      BY <2>1, <2>2, <1>6, <1>8
    <2> QED  BY <2>3, <1>2, <1>11 DEF con
  <1> QED  BY <1>1, <1>2, <1>11, <1>12, <1>13, WorkStep

\* The state of an elimination, from its parts.
LEMMA JobMade ==
    ASSUME NEW c \in SUBSET Nat, NEW t \in Seq(CleanLinear), NEW u \in SUBSET Signal,
           NEW n, n \in UNION {[D -> Int] : D \in SUBSET Signal},
           NEW w \in Seq(CleanLinear), NEW g, g \in UNION {[D -> Definition] : D \in SUBSET Signal},
           NEW o \in Seq(Signal)
    PROVE  [cluster |-> c, todo |-> t, uniques |-> u, occurrences |-> n, work |-> w, holder |-> g,
            order |-> o] \in Jobs
  BY DEF Jobs

\* What all steps that define a signal do.
LEMMA DefineStep ==
    ASSUME IInv, job # Idle, NEW con \in CleanLinear, SignalsOf(con) \subseteq JobSignals,
           NEW s \in SignalsOf(con) \ Forbidden, s \notin DOMAIN job.holder,
           LessOccurrences => SignalsOf(con) \cap DOMAIN job.holder = {},
           ~LessOccurrences => \A t \in SignalsOf(con) \ Forbidden : t <= s,
           UNCHANGED <<circuit, options, stage, equalities, consEqualities, linear, lconst, frames,
                       clusters, subs, deleted, storage, listed, log>>,
           job' = [cluster |-> job.cluster, todo |-> job'.todo, uniques |-> job'.uniques,
                   occurrences |-> job'.occurrences, work |-> <<>>,
                   holder |-> Only(s, Cleared(con, s)) ++ job.holder, order |-> <<s>> \o job.order],
           job'.todo \in Seq(CleanLinear), AllSignalsOf(job'.todo) \subseteq JobSignals,
           job'.uniques \in SUBSET Signal, UniquesFit',
           job'.occurrences \in UNION {[E -> Int] : E \in SUBSET Signal},
           DOMAIN job'.occurrences = DOMAIN job.occurrences \ {s},
           \A v \in Valuations : AllHold(job.todo, v) /\ AllHold(job.work, v) <=>
                                    AllHold(job'.todo, v) /\ Holds(con, v)
    PROVE  IInv'
  <1>1. stage \in {"linear", "round"} /\ Typed /\ Eliminating /\ JobFits
    BY Busy, InElimination DEF Eliminating
  <1>2. /\ job'.cluster = job.cluster /\ job'.work = <<>>
        /\ job'.holder = Only(s, Cleared(con, s)) ++ job.holder /\ job'.order = <<s>> \o job.order
    OBVIOUS
  <1>3. linear' = linear /\ circuit' = circuit /\ options' = options
    OBVIOUS
  <1>4. /\ job'.holder \in UNION {[D -> Definition] : D \in SUBSET Signal}
        /\ job'.order \in Seq(Signal)
        /\ DOMAIN job'.holder = DOMAIN job.holder \cup {s}
        /\ DOMAIN job'.holder \subseteq JobSignals' \ Forbidden'
        /\ \A t \in DOMAIN job'.holder : DOMAIN job'.holder[t].to \subseteq {One} \cup JobSignals'
        /\ \A i \in DOMAIN job'.order : job'.order[i] \in DOMAIN job'.holder
        /\ \A t \in DOMAIN job'.holder : \E i \in DOMAIN job'.order : job'.order[i] = t
        /\ \A i, j \in DOMAIN job'.order : i # j => job'.order[i] # job'.order[j]
        /\ EarlierFree'
        /\ \A v \in Valuations :
                 (\A t \in DOMAIN job'.holder : Defines(v, t, job'.holder[t])) <=>
                    Holds(con, v) /\ \A t \in DOMAIN job.holder : Defines(v, t, job.holder[t])
    BY <1>1, <1>2, <1>3, NewDefinition
  <1>5. Forbidden' = Forbidden
    BY <1>3, SameCircuit
  <1>6. JobSignals' = JobSignals /\ (LessOccurrences' <=> LessOccurrences)
    BY <1>2, <1>3 DEF JobSignals, LessOccurrences, FewOccurrencesFirst
  <1>7. LessOccurrences' => DOMAIN job'.occurrences = (JobSignals' \ Forbidden') \ DOMAIN job'.holder
    <2>1. LessOccurrences => DOMAIN job.occurrences = (JobSignals \ Forbidden) \ DOMAIN job.holder
      BY <1>1 DEF JobFits
    <2> QED  BY <2>1, <1>4, <1>5, <1>6
  <1>8. AllSignalsOf(<<>>) = {} /\ Len(<<>>) = 0 /\ <<>> \in Seq(CleanLinear) /\ \A v : AllHold(<<>>, v)
    BY DEF AllSignalsOf, AllHold
  <1>9. job' \in Jobs
    <2>1. job.cluster \in SUBSET Nat
      BY <1>1, JobIs DEF Typed
    <2> DEFINE g == job'.holder
               o == job'.order
               n == job'.occurrences
    <2>2. job' = [cluster |-> job.cluster, todo |-> job'.todo, uniques |-> job'.uniques,
                  occurrences |-> n, work |-> <<>>, holder |-> g, order |-> o]
      BY <1>2
    <2>3. /\ g \in UNION {[D -> Definition] : D \in SUBSET Signal} /\ o \in Seq(Signal)
          /\ n \in UNION {[E -> Int] : E \in SUBSET Signal}
      BY <1>4
    <2> HIDE DEF g, o, n
    <2> DEFINE t == job'.todo
               u == job'.uniques
               w == <<>>
    <2>4. t \in Seq(CleanLinear) /\ u \in SUBSET Signal /\ w \in Seq(CleanLinear)
      BY <1>8
    <2>5. job' = [cluster |-> job.cluster, todo |-> t, uniques |-> u,
                  occurrences |-> n, work |-> w, holder |-> g, order |-> o]
      BY <2>2
    <2> HIDE DEF t, u, w
    <2>6. [cluster |-> job.cluster, todo |-> t, uniques |-> u,
                  occurrences |-> n, work |-> w, holder |-> g, order |-> o] \in Jobs
      BY <2>1, <2>3, <2>4, JobMade
    <2> QED  BY <2>5, <2>6, Zenon
  <1>10. JobFits'
    <2>1. /\ job'.cluster \subseteq DOMAIN linear'
          /\ AllSignalsOf(job'.todo) \subseteq JobSignals' /\ AllSignalsOf(job'.work) \subseteq JobSignals'
          /\ Len(job'.work) <= 1
      BY <1>1, <1>2, <1>3, <1>6, <1>8 DEF JobFits
    <2> QED  BY <2>1, <1>4, <1>7 DEF JobFits
  <1>11. \A v \in Valuations : (JobHolds(v)' /\ AllHold(lconst', v)) <=>
                                    (JobHolds(v) /\ AllHold(lconst, v))
    <2> TAKE v \in Valuations
    <2>1. AllHold(job'.work, v)
      BY <1>2, <1>8
    <2>2. (\A t \in DOMAIN job'.holder : Defines(v, t, job'.holder[t])) <=>
                    Holds(con, v) /\ \A t \in DOMAIN job.holder : Defines(v, t, job.holder[t])
      BY <1>4
    <2>3. AllHold(job.todo, v) /\ AllHold(job.work, v) <=> AllHold(job'.todo, v) /\ Holds(con, v)
      OBVIOUS
    <2> HIDE DEF AllHold, Defines, Holds
    <2>4. JobHolds(v)' <=> AllHold(job'.todo, v) /\ AllHold(job'.work, v)
              /\ \A t \in DOMAIN job'.holder : Defines(v, t, job'.holder[t])
      BY DEF JobHolds
    <2>5. JobHolds(v) <=> AllHold(job.todo, v) /\ AllHold(job.work, v)
              /\ \A t \in DOMAIN job.holder : Defines(v, t, job.holder[t])
      BY DEF JobHolds
    <2>6. AllHold(lconst', v) <=> AllHold(lconst, v)
      OBVIOUS
    <2> QED  BY <2>1, <2>2, <2>3, <2>4, <2>5, <2>6
  <1>12. lconst' \in Seq(Linear) /\ AllSignalsOf(lconst') \subseteq Forbidden
    BY <1>1 DEF Eliminating, Typed
  <1> QED  BY <1>2, <1>9, <1>10, <1>11, <1>12, JobStep

\* The signal taken has no definition: the constraint in work becomes its definition, and the
\* signal comes before the others in the order.
LEMMA EliminateKeeps ==
    ASSUME IInv, NEW s \in Signal, Eliminate(s)
    PROVE  IInv'
  <1> DEFINE con == job.work[1]
             O == Without(job.occurrences, s)
             def == Cleared(con, s)
  <1>1. /\ Working /\ s \in TakeSignal(con) \ DOMAIN job.holder
        /\ job' = [job EXCEPT !.work = <<>>, !.holder = Only(s, def) ++ @, !.order = <<s>> \o @,
                              !.occurrences = O]
    BY DEF Eliminate
  <1>2. UNCHANGED <<circuit, options, stage, equalities, consEqualities, linear, lconst, frames,
                    clusters, subs, deleted, storage, listed, log>>
    BY DEF Eliminate, UNCHANGED_outside, lists
  <1>3. /\ con \in CleanLinear /\ SignalsOf(con) \subseteq JobSignals /\ job # Idle
        /\ Typed /\ JobFits /\ job.uniques = {}
        /\ \A v : AllHold(job.work, v) <=> Holds(con, v)
    BY <1>1, InWork DEF Eliminating
  <1> HIDE DEF con
  <1>4. /\ TakeSignal(con) \subseteq SignalsOf(con) \ Forbidden
        /\ ~LessOccurrences => \A t \in SignalsOf(con) \ Forbidden : t <= s
        /\ LessOccurrences => SignalsOf(con) \cap DOMAIN job.holder = {}
    BY <1>1, <1>3, TakeSignalIs DEF Typed
  <1>5. s \in SignalsOf(con) \ Forbidden /\ s \notin DOMAIN job.holder
    BY <1>1, <1>4
  <1>6. /\ O \in UNION {[E -> Int] : E \in SUBSET Signal}
        /\ DOMAIN O = DOMAIN job.occurrences \ {s}
    <2>1. job.occurrences \in [DOMAIN job.occurrences -> Int] /\ DOMAIN job.occurrences \in SUBSET Signal
      BY <1>3, JobIs DEF Typed
    <2> QED  BY <2>1, CountsWithout
  <1> DEFINE g == Only(s, def) ++ job.holder
             o == <<s>> \o job.order
  <1> HIDE DEF O
  <1>7. /\ job' = [cluster |-> job.cluster, todo |-> job.todo, uniques |-> job.uniques,
                   occurrences |-> O, work |-> <<>>, holder |-> g, order |-> o]
        /\ job'.todo = job.todo /\ job'.uniques = job.uniques /\ job'.occurrences = O
    <2>1. job \in Jobs
      BY <1>3 DEF Typed
    <2>2. job' = [job EXCEPT !.work = <<>>, !.holder = g, !.order = o, !.occurrences = O]
      BY <1>1
    <2> HIDE DEF g, o
    <2> QED  BY <2>1, <2>2 DEF Jobs
  <1>8. job' = [cluster |-> job.cluster, todo |-> job'.todo, uniques |-> job'.uniques,
                   occurrences |-> job'.occurrences, work |-> <<>>,
                   holder |-> Only(s, Cleared(con, s)) ++ job.holder, order |-> <<s>> \o job.order]
    BY <1>7
  <1>9. /\ job'.todo \in Seq(CleanLinear) /\ AllSignalsOf(job'.todo) \subseteq JobSignals
        /\ job'.uniques \in SUBSET Signal
    BY <1>3, <1>7, JobIs DEF Typed, JobFits
  <1>10. UniquesFit'
    BY <1>3, <1>7 DEF UniquesFit
  <1>11. \A v \in Valuations : AllHold(job.todo, v) /\ AllHold(job.work, v) <=>
                                    AllHold(job'.todo, v) /\ Holds(con, v)
    BY <1>3, <1>7
  <1>12. /\ job'.occurrences \in UNION {[E -> Int] : E \in SUBSET Signal}
         /\ DOMAIN job'.occurrences = DOMAIN job.occurrences \ {s}
    BY <1>6, <1>7
  <1> HIDE DEF g, o, def
  <1> QED  BY <1>2, <1>3, <1>4, <1>5, <1>8, <1>9, <1>10, <1>11, <1>12, DefineStep

\* r is q without its element at k.
WithoutAt(r, q, k) ==
    /\ r \in Seq(CleanLinear)
    /\ \A i \in DOMAIN r : \E j \in DOMAIN q : j # k /\ r[i] = q[j]
    /\ \A i, j \in DOMAIN r : i # j =>
          \E l, m \in DOMAIN q : l # m /\ r[i] = q[l] /\ r[j] = q[m] /\ l # k /\ m # k

\* A sequence without one of its constraints.
LEMMA WithoutAtIs ==
    ASSUME NEW q \in Seq(CleanLinear), NEW k \in DOMAIN q
    PROVE  WithoutAt(RemoveAt(q, k), q, k)
  <1> DEFINE r == RemoveAt(q, k)
  <1>1. /\ r \in Seq(CleanLinear)
        /\ \A i \in DOMAIN r : \E j \in DOMAIN q : j # k /\ r[i] = q[j]
        /\ \A i, j \in DOMAIN r : i # j =>
              \E l, m \in DOMAIN q : l # m /\ r[i] = q[l] /\ r[j] = q[m] /\ l # k /\ m # k
    BY RemoveAtIs
  <1> HIDE DEF r
  <1>2. WithoutAt(r, q, k)
    BY <1>1 DEF WithoutAt
  <1> QED  BY <1>2 DEF r

\* A signal that one constraint alone has is defined by it before the other constraints are taken,
\* and it is no signal of the definitions made since: it is not in what is left to do.
LEMMA TakeUniqueKeeps ==
    ASSUME IInv, TakeUnique
    PROVE  IInv'
  <1> DEFINE s == Min(job.uniques)
             U == job.uniques \ {s}
             with == {i \in DOMAIN job.todo : s \in SignalsOf(job.todo[i])}
             k == Min(with)
             con == job.todo[k]
             rest == RemoveAt(job.todo, k)
             O == Without(RemoveOccurrences(job.occurrences, con), s)
             g == Only(s, Cleared(con, s)) ++ job.holder
             o == <<s>> \o job.order
  <1>1. /\ job.uniques # {}
        /\ with = {} => job' = [job EXCEPT !.uniques = U]
        /\ with # {} => job' = [job EXCEPT !.uniques = U, !.todo = rest, !.occurrences = O,
                                           !.holder = g, !.order = o]
    BY DEF TakeUnique
  <1>2. UNCHANGED <<circuit, options, stage, equalities, consEqualities, linear, lconst, frames,
                    clusters, subs, deleted, storage, listed, log>>
    BY DEF TakeUnique, UNCHANGED_outside, lists
  <1>3. job # Idle
    BY <1>1, IdleIs
  <1>4. Typed /\ Eliminating /\ JobFits /\ job \in Jobs
    BY <1>3, Busy, InElimination DEF Eliminating
  <1>5. /\ LessOccurrences /\ job.work = <<>> /\ job.uniques \subseteq Removable
        /\ AllSignalsOf(job.todo) \cap DOMAIN job.holder = {}
        /\ \A t \in job.uniques : \A i, j \in DOMAIN job.todo :
              t \in SignalsOf(job.todo[i]) /\ t \in SignalsOf(job.todo[j]) => i = j
    BY <1>1, <1>4 DEF Eliminating, UniquesFit
  <1>6. job.todo \in Seq(CleanLinear) /\ job.uniques \in SUBSET Signal
        /\ AllSignalsOf(job.todo) \subseteq JobSignals
    BY <1>4, JobIs DEF JobFits
  <1>7. s \in job.uniques
    <2>1. NoLabels - 1 \in Nat /\ Signal = 0..NoLabels - 1
      BY Numbers DEF Signal
    <2> DEFINE n == NoLabels - 1
               S == job.uniques
    <2>2. n \in Nat /\ S \in SUBSET (0..n) /\ S # {}
      BY <2>1, <1>1, <1>6
    <2> HIDE DEF n, S
    <2>3. Min(S) \in S
      BY <2>2, Bounds
    <2> QED  BY <2>3 DEF S
  <1>8. U \in SUBSET Signal /\ U \subseteq job.uniques
    BY <1>6
  <1>9. Forbidden' = Forbidden /\ Removable' = Removable
    BY <1>2, SameCircuit
  <1>10. lconst' \in Seq(Linear) /\ AllSignalsOf(lconst') \subseteq Forbidden
    BY <1>2, <1>4 DEF Typed, Eliminating
  <1>11. CASE with = {}
    <2>1. job' = [job EXCEPT !.uniques = U]
      BY <1>1, <1>11
    <2> HIDE DEF U, with
    <2>2. /\ job' = [cluster |-> job.cluster, todo |-> job.todo, uniques |-> U,
                   occurrences |-> job.occurrences, work |-> job.work, holder |-> job.holder,
                   order |-> job.order]
          /\ job'.cluster = job.cluster /\ job'.todo = job.todo /\ job'.work = job.work
          /\ job'.holder = job.holder /\ job'.order = job.order /\ job'.uniques = U
          /\ job'.occurrences = job.occurrences
      BY <1>4, <2>1 DEF Jobs
    <2>3. job' \in Jobs
      BY <1>4, <1>8, <2>2 DEF Jobs
    <2>4. AllSignalsOf(job.work) \subseteq JobSignals /\ Len(job.work) <= 1
      BY <1>4 DEF JobFits
    <2>5. JobFits' /\ (LessOccurrences' <=> LessOccurrences) /\ JobSignals' = JobSignals
      BY <1>2, <1>4, <1>6, <2>2, <2>4, FitsStill
    <2>6. UniquesFit'
      BY <1>5, <1>8, <1>9, <2>2, <2>5 DEF UniquesFit
    <2>7. \A v \in Valuations : (JobHolds(v)' /\ AllHold(lconst', v)) <=>
                                    (JobHolds(v) /\ AllHold(lconst, v))
      BY <1>2, <2>2 DEF JobHolds
    <2> QED  BY <1>2, <1>3, <1>10, <2>2, <2>3, <2>5, <2>6, <2>7, JobStep
  <1>12. CASE with # {}
    <2>1. k \in with
      <3>1. Len(job.todo) \in Nat /\ DOMAIN job.todo = 1..Len(job.todo)
        BY <1>6
      <3> DEFINE n == Len(job.todo)
      <3>2. n \in Nat /\ with \in SUBSET (0..n)
        BY <3>1
      <3> HIDE DEF n, with
      <3> QED  BY <3>2, <1>12, Bounds
    <2>2. k \in DOMAIN job.todo /\ s \in SignalsOf(con)
      BY <2>1
    <2> HIDE DEF k
    <2>3. /\ rest \in Seq(CleanLinear)
          /\ \A i \in DOMAIN rest : \E j \in DOMAIN job.todo : j # k /\ rest[i] = job.todo[j]
          /\ \A i, j \in DOMAIN rest : i # j =>
                 \E l, m \in DOMAIN job.todo : l # m /\ rest[i] = job.todo[l] /\ rest[j] = job.todo[m]
                                        /\ l # k /\ m # k
      <3> DEFINE q == job.todo
      <3>1. q \in Seq(CleanLinear) /\ k \in DOMAIN q
        BY <1>6, <2>2
      <3>2. rest = RemoveAt(q, k)
        OBVIOUS
      <3> HIDE DEF q, rest
      <3>3. WithoutAt(RemoveAt(q, k), q, k)
        BY <3>1, WithoutAtIs, Zenon
      <3>4. WithoutAt(rest, q, k)
        BY <3>2, <3>3, Zenon
      <3>5. WithoutAt(rest, job.todo, k)
        BY <3>4 DEF q
      <3> QED  BY <3>5 DEF WithoutAt
    <2>4. /\ con \in CleanLinear
          /\ AllSignalsOf(rest) \subseteq AllSignalsOf(job.todo)
          /\ SignalsOf(con) \subseteq AllSignalsOf(job.todo)
          /\ \A v : AllHold(job.todo, v) <=> AllHold(rest, v) /\ Holds(con, v)
      BY <1>6, <2>2, RemovedConstraint
    <2>5. job' = [job EXCEPT !.uniques = U, !.todo = rest, !.occurrences = O, !.holder = g, !.order = o]
      BY <1>1, <1>12
    <2>6. O \in UNION {[E -> Int] : E \in SUBSET Signal} /\ DOMAIN O = DOMAIN job.occurrences \ {s}
      <3> DEFINE D == DOMAIN job.occurrences
                 a == job.occurrences
                 b == RemoveOccurrences(job.occurrences, con)
      <3>1. a \in [D -> Int] /\ D \in SUBSET Signal
        BY <1>4, JobIs
      <3> HIDE DEF D, s, con
      <3>2. RemoveOccurrences(a, con) \in [D -> Int]
        <4> HIDE DEF a
        <4> QED  BY <3>1, OccurrencesAre
      <3>3. b \in [D -> Int]
        BY <3>2
      <3> HIDE DEF b
      <3>4. /\ Without(b, s) \in UNION {[E -> Int] : E \in SUBSET Signal}
            /\ DOMAIN Without(b, s) = D \ {s}
        BY <3>1, <3>3, CountsWithout
      <3> QED  BY <3>4 DEF b, D
    <2> HIDE DEF U, rest, con, O, g, o, with
    <2>7. /\ job' = [cluster |-> job.cluster, todo |-> rest, uniques |-> U,
                     occurrences |-> O, work |-> job.work, holder |-> g, order |-> o]
          /\ job'.cluster = job.cluster /\ job'.todo = rest /\ job'.work = job.work
          /\ job'.holder = g /\ job'.order = o /\ job'.uniques = U /\ job'.occurrences = O
      BY <1>4, <2>5 DEF Jobs
    <2>8. s \in SignalsOf(con) \ Forbidden /\ s \notin DOMAIN job.holder
          /\ SignalsOf(con) \cap DOMAIN job.holder = {} /\ s \in Signal
      <3>1. s \notin Forbidden /\ s \in Signal
        BY <1>5, <1>7 DEF Removable
      <3> QED  BY <3>1, <2>2, <2>4, <1>5
    <2>9. SignalsOf(con) \subseteq JobSignals /\ AllSignalsOf(rest) \subseteq JobSignals
      BY <1>6, <2>4
    <2>10. s \notin AllSignalsOf(rest)
      <3> SUFFICES ASSUME NEW i \in DOMAIN rest, s \in SignalsOf(rest[i])  PROVE  FALSE
        BY DEF AllSignalsOf
      <3>1. PICK j \in DOMAIN job.todo : j # k /\ rest[i] = job.todo[j]
        BY <2>3
      <3>2. s \in SignalsOf(job.todo[k])
        BY <2>2 DEF con
      <3>3. s \in SignalsOf(job.todo[j])
        BY <3>1
      <3> HIDE DEF s
      <3> QED  BY <3>1, <3>2, <3>3, <1>5, <1>7, <2>2
    <2>11. \A t \in U : \A i, j \in DOMAIN rest :
              t \in SignalsOf(rest[i]) /\ t \in SignalsOf(rest[j]) => i = j
      <3> SUFFICES ASSUME NEW t \in U, NEW i \in DOMAIN rest, NEW j \in DOMAIN rest, i # j,
                          t \in SignalsOf(rest[i]), t \in SignalsOf(rest[j])  PROVE  FALSE
        OBVIOUS
      <3>1. PICK l \in DOMAIN job.todo, m \in DOMAIN job.todo :
               l # m /\ rest[i] = job.todo[l] /\ rest[j] = job.todo[m]
        BY <2>3
      <3>2. t \in SignalsOf(job.todo[l]) /\ t \in SignalsOf(job.todo[m]) /\ t \in job.uniques
        BY <3>1, <1>8
      <3> QED  BY <3>1, <3>2, <1>5
    <2> HIDE DEF s
    <2>12. DOMAIN g = DOMAIN job.holder \cup {s}
      <3> DEFINE D == DOMAIN job.holder
                 h == job.holder
                 def == Cleared(con, s)
      <3>1. D \in SUBSET Signal /\ h \in [D -> Definition] /\ s \in Signal \ D
        BY <1>4, <2>8, JobIs
      <3>2. def \in Definition
        BY <2>4, <2>8, ClearedIs
      <3>3. g = Only(s, def) ++ h
        BY DEF g
      <3> HIDE DEF D, h, def
      <3>4. HolderWith(Only(s, def) ++ h, D, h, s, def)
        BY <3>1, <3>2, GrownHolder, Zenon
      <3>5. DOMAIN (Only(s, def) ++ h) = D \cup {s}
        BY <3>4 DEF HolderWith
      <3> QED  BY <3>3, <3>5 DEF D
    <2>13. LessOccurrences' <=> LessOccurrences
      BY <1>2, <2>7 DEF LessOccurrences, FewOccurrencesFirst
    <2>14. UniquesFit'
      <3>1. AllSignalsOf(rest) \cap DOMAIN g = {}
        BY <1>5, <2>4, <2>10, <2>12
      <3>2. U \subseteq Removable
        BY <1>5, <1>8
      <3> QED  BY <3>1, <3>2, <1>5, <1>9, <2>7, <2>11, <2>13 DEF UniquesFit
    <2>15. job' = [cluster |-> job.cluster, todo |-> job'.todo, uniques |-> job'.uniques,
                   occurrences |-> job'.occurrences, work |-> <<>>,
                   holder |-> Only(s, Cleared(con, s)) ++ job.holder, order |-> <<s>> \o job.order]
      BY <1>5, <2>7 DEF g, o
    <2>16. /\ job'.todo \in Seq(CleanLinear) /\ AllSignalsOf(job'.todo) \subseteq JobSignals
           /\ job'.uniques \in SUBSET Signal
           /\ job'.occurrences \in UNION {[E -> Int] : E \in SUBSET Signal}
           /\ DOMAIN job'.occurrences = DOMAIN job.occurrences \ {s}
      BY <1>8, <2>3, <2>6, <2>7, <2>9
    <2>17. \A v \in Valuations : AllHold(job.todo, v) /\ AllHold(job.work, v) <=>
                                    AllHold(job'.todo, v) /\ Holds(con, v)
      <3>1. \A v : AllHold(job.work, v)
        BY <1>5 DEF AllHold
      <3> QED  BY <3>1, <2>4, <2>7
    <2> QED  BY <1>2, <1>3, <1>5, <2>4, <2>8, <2>9, <2>14, <2>15, <2>16, <2>17, DefineStep
  <1> QED  BY <1>11, <1>12

\* Two sets of substitutions together, and the signals they mention.
LEMMA JoinedReplacements ==
    ASSUME NEW f \in Replacements, NEW g \in Replacements, NEW h, h = f ++ g
    PROVE  /\ h \in Replacements /\ DOMAIN h = DOMAIN f \cup DOMAIN g
           /\ Images(h, DOMAIN h) \subseteq Images(f, DOMAIN f) \cup Images(g, DOMAIN g)
           /\ DOMAIN f \cap DOMAIN g = {} =>
                 \A v : Satisfies(v, h) <=> Satisfies(v, f) /\ Satisfies(v, g)
  <1>1. /\ h \in Replacements /\ DOMAIN h = DOMAIN f \cup DOMAIN g
        /\ \A s \in DOMAIN f : h[s] = f[s]
        /\ \A s \in DOMAIN g \ DOMAIN f : h[s] = g[s]
    BY JoinIs
  <1>2. Images(h, DOMAIN h) \subseteq Images(f, DOMAIN f) \cup Images(g, DOMAIN g)
    <2> SUFFICES ASSUME NEW t \in Images(h, DOMAIN h)
                 PROVE  t \in Images(f, DOMAIN f) \/ t \in Images(g, DOMAIN g)
      OBVIOUS
    <2>1. PICK s \in DOMAIN h : t \in DOMAIN h[s] /\ t # One
      BY DEF Images
    <2>2. CASE s \in DOMAIN f
      BY <1>1, <2>1, <2>2 DEF Images
    <2>3. CASE s \notin DOMAIN f
      BY <1>1, <2>1, <2>3 DEF Images
    <2> QED  BY <2>2, <2>3
  <1>3. ASSUME DOMAIN f \cap DOMAIN g = {}, NEW v
        PROVE  Satisfies(v, h) <=> Satisfies(v, f) /\ Satisfies(v, g)
    <2>1. \A s \in DOMAIN g : h[s] = g[s]
      BY <1>1, <1>3
    <2> QED  BY <1>1, <2>1 DEF Satisfies
  <1> QED  BY <1>1, <1>2, <1>3

\* The definitions of a cluster can be made free of each other.
LEMMA JobIsOrderly ==
    ASSUME circuit \in Circuits, job \in Jobs, JobFits, linear \in Seq(CleanLinear)
    PROVE  Orderly(DOMAIN job.holder, job.holder, Order)
  <1> DEFINE H == DOMAIN job.holder
             h == job.holder
             q == Order
  <1>1. H \in SUBSET (Signal \ {One}) /\ H \cap Forbidden = {} /\ H \in SUBSET Signal
    <2>1. JobSignals \subseteq Signal \ {One}
      BY JobSignalsAre DEF JobFits
    <2> QED  BY <2>1 DEF JobFits
  <1>2. h \in [H -> Definition]
    BY JobIs
  <1>3. CASE LessOccurrences
    <2>1. q = job.order /\ job.order \in Seq(Signal)
      BY <1>3, JobIs DEF Order
    <2>2. \A i \in DOMAIN job.order : job.order[i] \in H
      BY DEF JobFits
    <2>3. q \in Seq(H)
      BY <2>1, <2>2, SequenceOf
    <2>4. \A s \in H : \E i \in DOMAIN q : q[i] = s
      BY <2>1 DEF JobFits
    <2>5. \A i, j \in DOMAIN q : i < j => q[i] # q[j]
      <3>1. DOMAIN q \subseteq Int
        BY <2>3
      <3>2. \A i, j \in DOMAIN q : i # j => q[i] # q[j]
        BY <2>1 DEF JobFits
      <3> QED  BY <3>1, <3>2
    <2>6. \A i, j \in DOMAIN q : i <= j => q[j] \notin DOMAIN h[q[i]].to
      <3>1. DOMAIN q \subseteq Int
        BY <2>3
      <3>2. \A i, j \in DOMAIN q : i < j => q[j] \notin DOMAIN h[q[i]].to
        BY <1>3, <2>1 DEF JobFits, EarlierFree
      <3>3. \A i \in DOMAIN q : q[i] \notin DOMAIN h[q[i]].to
        BY <2>1 DEF JobFits, EarlierFree
      <3> HIDE DEF q, h
      <3> QED  BY <3>1, <3>2, <3>3
    <2> HIDE DEF q, h, H
    <2>7. Orderly(H, h, q)
      BY <1>1, <1>2, <2>3, <2>4, <2>5, <2>6 DEF Orderly
    <2> QED  BY <2>7 DEF q, h, H
  <1>4. CASE ~LessOccurrences
    <2>1. q = Ascending(H)
      BY <1>4 DEF Order
    <2>2. /\ Ascending(H) \in Seq(H)
          /\ \A i \in DOMAIN Ascending(H) : Ascending(H)[i] \in H
          /\ \A s \in H : \E i \in DOMAIN Ascending(H) : Ascending(H)[i] = s
          /\ \A i, j \in DOMAIN Ascending(H) : i < j => Ascending(H)[i] < Ascending(H)[j]
      BY <1>1, AscendingIs, Zenon
    <2>3. \A s \in H : \A t \in DOMAIN h[s].to \ Forbidden : t < s
      BY <1>4 DEF JobFits, EarlierFree
    <2> HIDE DEF q, h, H
    <2>4. /\ q \in Seq(H)
          /\ \A i \in DOMAIN q : q[i] \in H
          /\ \A s \in H : \E i \in DOMAIN q : q[i] = s
          /\ \A i, j \in DOMAIN q : i < j => q[i] < q[j]
      BY <2>1, <2>2, Zenon
    <2>5. H \subseteq Int /\ DOMAIN q \subseteq Int
      BY <1>1, <2>4, Numbers
    <2>6. \A i, j \in DOMAIN q : i < j => q[i] # q[j]
      <3> SUFFICES ASSUME NEW i \in DOMAIN q, NEW j \in DOMAIN q, i < j, q[i] = q[j]
                   PROVE  FALSE
        OBVIOUS
      <3>1. q[i] < q[j] /\ q[i] \in Int
        BY <2>4, <2>5
      <3> DEFINE x == q[i]
                 y == q[j]
      <3>2. x \in Int /\ x = y /\ x < y
        BY <3>1
      <3> HIDE DEF x, y
      <3> QED  BY <3>2
    <2>7. \A i, j \in DOMAIN q : i <= j => q[j] \notin DOMAIN h[q[i]].to
      <3> SUFFICES ASSUME NEW i \in DOMAIN q, NEW j \in DOMAIN q, i <= j,
                          q[j] \in DOMAIN h[q[i]].to
                   PROVE  FALSE
        OBVIOUS
      <3>1. q[i] \in H /\ q[j] \in H
        BY <2>4
      <3>2. q[j] < q[i]
        BY <3>1, <1>1, <2>3
      <3>3. i = j \/ q[i] < q[j]
        BY <2>4, <2>5
      <3> DEFINE x == q[i]
                 y == q[j]
      <3>4. x \in Int /\ y \in Int /\ y < x /\ (x = y \/ x < y)
        BY <3>1, <3>2, <3>3, <2>5
      <3> HIDE DEF x, y
      <3> QED  BY <3>4
    <2>8. Orderly(H, h, q)
      BY <1>1, <1>2, <2>4, <2>6, <2>7 DEF Orderly
    <2> QED  BY <2>8 DEF q, h, H
  <1> QED  BY <1>3, <1>4

\* Nothing is left to do: the definitions become the substitutions of the pass, each free of the
\* signals that the others define.
LEMMA FinishClusterKeeps ==
    ASSUME IInv, FinishCluster
    PROVE  IInv'
  <1> DEFINE N == NonOverlapping
             H == DOMAIN job.holder
  <1>1. /\ job # Idle /\ job.todo = <<>> /\ job.work = <<>>
        /\ subs' = N ++ subs /\ job' = Idle
        /\ UNCHANGED <<circuit, options, stage, equalities, consEqualities, linear, lconst, frames,
                       clusters, deleted, storage, listed, log>>
    BY DEF FinishCluster, lists
  <1>2. stage \in {"linear", "round"} /\ Typed /\ Eliminating /\ JobFits /\ job \in Jobs
        /\ subs \in Removals /\ linear \in Seq(CleanLinear) /\ circuit \in Circuits
    BY <1>1, Busy, InElimination DEF Eliminating, Typed
  <1>3. Freed(H, job.holder, H, N)
    BY <1>2, JobIsOrderly, NonOverlappingIs
  <1>4. H \subseteq JobSignals \ Forbidden
        /\ \A s \in H : DOMAIN job.holder[s].to \subseteq {One} \cup JobSignals
    BY <1>2 DEF JobFits
  <1> HIDE DEF N, H
  <1>5. /\ N \in Replacements /\ DOMAIN N = H
        /\ \A s \in H : DOMAIN N[s] \cap H = {} /\ DOMAIN N[s] \subseteq {One} \cup JobSignals
        /\ \A v \in [Signal -> Field] :
              (\A s \in H : Defines(v, s, job.holder[s])) <=> Satisfies(v, N)
    BY <1>3, <1>4 DEF Freed
  <1>6. Images(N, DOMAIN N) \subseteq JobSignals \ H
    BY <1>5 DEF Images
  <1>7. subs \in Replacements /\ DOMAIN subs \subseteq Removable
    BY <1>2, RemovesIs
  <1>8. /\ JobSignals \cap Mentioned(subs) = {}
        /\ Images(subs, DOMAIN subs) \cap DOMAIN subs = {}
        /\ Mentioned(subs) \subseteq AllSignalsOf(linear)
    BY <1>2 DEF Eliminating
  <1>9. DOMAIN N \cap DOMAIN subs = {}
    BY <1>4, <1>5, <1>8 DEF Mentioned
  <1>10. /\ subs' \in Replacements /\ DOMAIN subs' = H \cup DOMAIN subs
         /\ Images(subs', DOMAIN subs') \subseteq Images(N, DOMAIN N) \cup Images(subs, DOMAIN subs)
         /\ \A v : Satisfies(v, subs') <=> Satisfies(v, N) /\ Satisfies(v, subs)
    <2> DEFINE h == subs'
    <2>1. h = N ++ subs
      BY <1>1
    <2> HIDE DEF h
    <2>2. /\ h \in Replacements /\ DOMAIN h = DOMAIN N \cup DOMAIN subs
          /\ Images(h, DOMAIN h) \subseteq Images(N, DOMAIN N) \cup Images(subs, DOMAIN subs)
          /\ \A v : Satisfies(v, h) <=> Satisfies(v, N) /\ Satisfies(v, subs)
      BY <2>1, <1>5, <1>7, <1>9, JoinedReplacements, Zenon
    <2> QED  BY <2>2, <1>5 DEF h
  <1>11. subs' \in Removals
    <2>1. JobSignals \subseteq Signal
      BY <1>2, JobSignalsAre DEF JobFits
    <2>2. DOMAIN subs' \subseteq Removable
      BY <2>1, <1>4, <1>7, <1>10 DEF Removable
    <2> QED  BY <1>10, <2>2 DEF Removals
  <1>12. Images(subs', DOMAIN subs') \cap DOMAIN subs' = {}
    BY <1>4, <1>6, <1>8, <1>10 DEF Mentioned
  <1>13. Mentioned(subs') \subseteq Mentioned(subs) \cup JobSignals
    BY <1>4, <1>6, <1>10 DEF Mentioned
  <1>14. JobSignals \subseteq AllSignalsOf(linear)
    BY <1>2 DEF JobSignals, JobFits, SigsIn, AllSignalsOf
  <1>15. /\ JobSignals' = {} /\ JobFits' /\ UniquesFit' /\ \A v : JobHolds(v)'
    <2>1. job' = Idle => Idle' = Idle
      BY DEF Idle
    <2>2. (job = Idle)' => (JobSignals = {} /\ JobFits /\ UniquesFit /\ \A v : JobHolds(v))'
      BY IdleIs, PTL
    <2>3. (job = Idle)'
      BY <1>1, <2>1
    <2> QED  BY <2>2, <2>3
  <1>16. Forbidden' = Forbidden /\ ConstantsAgree' = ConstantsAgree
    BY <1>1, SameCircuit
  <1>17. Logged'
    BY <1>1, <1>2, <1>16 DEF Eliminating, Logged
  <1>18. Eliminating'
    <2>1. Apart(clusters', linear') /\ AllSignalsOf(linear') \cap deleted' = {}
          /\ AllSignalsOf(lconst') \subseteq Forbidden'
      BY <1>1, <1>2, <1>16 DEF Eliminating
    <2>2. Mentioned(subs') \subseteq AllSignalsOf(linear')
      BY <1>1, <1>8, <1>13, <1>14
    <2>3. \A cl \in clusters' : SigsIn(linear', cl) \cap (Mentioned(subs') \cup JobSignals') = {}
      BY <1>1, <1>2, <1>13, <1>15 DEF Eliminating
    <2>4. JobSignals' \cap Mentioned(subs') = {}
      BY <1>15
    <2> QED  BY <1>12, <1>15, <1>17, <2>1, <2>2, <2>3, <2>4 DEF Eliminating
  <1>19. job' \in Jobs
    <2>1. Idle \in Jobs
      <3>1. /\ <<>> \in Seq(CleanLinear) /\ <<>> \in Seq(Signal) /\ {} \in SUBSET Nat
            /\ {} \in SUBSET Signal /\ <<>> \in [{} -> Definition] /\ <<>> \in [{} -> Int]
        OBVIOUS
      <3>2. /\ <<>> \in UNION {[D -> Int] : D \in SUBSET Signal}
            /\ <<>> \in UNION {[D -> Definition] : D \in SUBSET Signal}
        BY <3>1
      <3> QED  BY <3>1, <3>2, JobMade DEF Idle
    <2> QED  BY <1>1, <2>1
  <1>20. \A v \in Valuations : (ClustersMean(v)' /\ AllHold(lconst', v)) <=>
                                    (ClustersMean(v) /\ AllHold(lconst, v))
    <2> TAKE v \in Valuations
    <2>1. v \in [Signal -> Field]
      BY ValuationsAre
    <2>2. JobHolds(v) <=> Satisfies(v, N)
      <3>1. AllHold(job.todo, v) /\ AllHold(job.work, v)
        BY <1>1 DEF AllHold
      <3> QED  BY <3>1, <2>1, <1>5 DEF JobHolds, H
    <2> QED  BY <2>2, <1>1, <1>10, <1>15 DEF ClustersMean
  <1>21. lconst' \in Seq(Linear)
    BY <1>1, <1>2 DEF Typed
  <1> QED  BY <1>1, <1>2, <1>11, <1>18, <1>19, <1>20, <1>21, EliminationStep

\* Constraints without signals to substitute are left alone.
LEMMA LeftAlone ==
    ASSUME NEW cs \in Seq(Linear), NEW m \in Replacements, AllSignalsOf(cs) \cap DOMAIN m = {},
           NEW q, q = Each(cs, LAMBDA con : SubstitutedAndFixed(con, m))
    PROVE  q = cs
  <1> DEFINE f == [i \in DOMAIN cs |-> SubstitutedAndFixed(cs[i], m)]
  <1>1. q = <<>> \o f
    BY DEF Each
  <1>2. \A i \in DOMAIN cs : SignalsOf(cs[i]) \cap DOMAIN m = {}
    BY DEF AllSignalsOf
  <1>3. \A i \in DOMAIN cs : f[i] = cs[i]
    BY <1>2 DEF SubstitutedAndFixed, Touches
  <1>4. f = [i \in DOMAIN cs |-> cs[i]]
    BY <1>3
  <1>5. cs = [i \in DOMAIN cs |-> cs[i]]
    OBVIOUS
  <1>6. f \in [DOMAIN cs -> Linear]
    BY <1>3
  <1> HIDE DEF f
  <1>7. q = f
    BY <1>1, <1>6, EachIs
  <1> QED  BY <1>4, <1>5, <1>7

\* The substitutions of a pass are logged, and their signals deleted.
LEMMA PassEnds ==
    ASSUME IInv, stage \in {"linear", "round"}, PassFinished, circuit' = circuit,
           deleted' = deleted \cup DOMAIN subs, log' = log \cup Entries(subs)
    PROVE  /\ Logged' /\ deleted' \subseteq Removable /\ log' \in Logs
           /\ (DOMAIN subs \cup Images(subs, DOMAIN subs)) \cap deleted = {}
           /\ Images(subs, DOMAIN subs) \cap deleted' = {}
           /\ \A v \in Valuations : ClustersMean(v) <=> Satisfies(v, subs)
           /\ \A v : Obeys(v, log') <=> Obeys(v, log) /\ Satisfies(v, subs)
           /\ \A f : InLog(f, log) => InLog(f, log')
           /\ InLog(subs, log')
           /\ AllSignalsOf(lconst) \subseteq Forbidden
  <1>1. Typed /\ Eliminating /\ subs \in Removals
    BY InElimination
  <1>2. subs \in Replacements /\ DOMAIN subs \subseteq Removable
    BY <1>1, RemovesIs
  <1>3. clusters = {} /\ job = Idle
    BY DEF PassFinished
  <1>4. (DOMAIN subs \cup Images(subs, DOMAIN subs)) \cap deleted = {}
        /\ Images(subs, DOMAIN subs) \cap DOMAIN subs = {}
    BY <1>1 DEF Eliminating, Mentioned
  <1>5. ConstantsAgree' <=> ConstantsAgree
    BY SameCircuit
  <1>6. /\ InLog(subs, log')
        /\ \A f : InLog(f, log) => InLog(f, log')
        /\ Gone(log') = Gone(log) \cup DOMAIN subs
        /\ log \in Logs /\ subs \in Removals => log' \in Logs
        /\ \A v : Obeys(v, log') <=> Obeys(v, log) /\ Satisfies(v, subs)
    <2> DEFINE lg == log
               m == subs
    <2>1. log' = lg \cup Entries(m)
      OBVIOUS
    <2> HIDE DEF lg, m
    <2>2. /\ InLog(m, lg \cup Entries(m))
          /\ \A f : InLog(f, lg) => InLog(f, lg \cup Entries(m))
          /\ Gone(lg \cup Entries(m)) = Gone(lg) \cup DOMAIN m
          /\ lg \in Logs /\ m \in Removals => lg \cup Entries(m) \in Logs
          /\ \A v : Obeys(v, lg \cup Entries(m)) <=> Obeys(v, lg) /\ Satisfies(v, m)
      BY EntriesAre
    <2> QED  BY <2>1, <2>2, Zenon DEF lg, m
  <1>7. Gone(log) \subseteq deleted /\ (ConstantsAgree => Extendable(deleted, log))
    BY <1>1 DEF Eliminating, Logged
  <1>8. ConstantsAgree => Extendable(deleted', log')
    <2> SUFFICES ASSUME ConstantsAgree  PROVE  Extendable(deleted', log')
      OBVIOUS
    <2>1. Extendable(deleted \cup DOMAIN subs, log \cup Entries(subs))
      BY <1>2, <1>4, <1>7, ExtendedBy
    <2> QED  BY <2>1
  <1>9. Logged'
    BY <1>5, <1>6, <1>7, <1>8 DEF Logged
  <1>10. \A v \in Valuations : ClustersMean(v) <=> Satisfies(v, subs)
    BY <1>3, IdleIs DEF ClustersMean, ClustersHold
  <1>11. deleted' \subseteq Removable /\ log' \in Logs
    BY <1>1, <1>2, <1>6 DEF Typed
  <1>12. Images(subs, DOMAIN subs) \cap deleted' = {}
    BY <1>4
  <1>13. AllSignalsOf(lconst) \subseteq Forbidden
    BY <1>1 DEF Eliminating
  <1> QED  BY <1>4, <1>6, <1>9, <1>10, <1>11, <1>12, <1>13

\* All clusters are done: the substitutions are logged and their signals removed. Those that the
\* non-linear constraints will be told of are enough for what mentions a removed signal.
LEMMA FinishLinearKeeps ==
    ASSUME IInv, FinishLinear
    PROVE  IInv'
  <1> DEFINE S == DOMAIN subs \cap Relevant
             new == Restrict(subs, S)
  <1>1. /\ stage = "linear" /\ PassFinished /\ clusters = {} /\ job = Idle
        /\ deleted' = deleted \cup DOMAIN subs /\ linearSubs' = new
        /\ lconst' = Each(lconst, LAMBDA con : SubstitutedAndFixed(con, new))
        /\ linear' = <<>> /\ subs' = <<>> /\ log' = log \cup Entries(subs) /\ stage' = "nonlinear"
    BY DEF FinishLinear, Log, Entries, PassFinished
  <1>2. UNCHANGED <<circuit, options, equalities, consEqualities, single, cons, clusters, job,
                    storage, listed>>
    BY DEF FinishLinear
  <1>3. /\ Forbidden' = Forbidden /\ Removable' = Removable /\ Logs' = Logs /\ Removals' = Removals
        /\ NonLinear' = NonLinear
        /\ \A v : (Source(v)' <=> Source(v))
    BY <1>2, SameCircuit
  <1>n. \A t : Renamed(t)' = Renamed(t)
    BY <1>2, SameNames
  <1>4. Typed /\ AtLinear /\ subs \in Removals /\ lconst \in Seq(Linear)
    BY <1>1 DEF IInv, Stages, Typed
  <1>5. /\ Logged' /\ deleted' \subseteq Removable /\ log' \in Logs
        /\ Images(subs, DOMAIN subs) \cap deleted' = {}
        /\ \A v \in Valuations : ClustersMean(v) <=> Satisfies(v, subs)
        /\ \A v : Obeys(v, log') <=> Obeys(v, log) /\ Satisfies(v, subs)
        /\ \A f : InLog(f, log) => InLog(f, log')
        /\ InLog(subs, log')
        /\ AllSignalsOf(lconst) \subseteq Forbidden
    BY <1>1, <1>2, PassEnds
  <1>6. /\ new \in Removals /\ DOMAIN new = S /\ (\A s \in S : new[s] = subs[s])
        /\ \A lg : InLog(subs, lg) => InLog(new, lg)
    BY <1>4, RestrictIs
  <1>7. new \in Replacements /\ DOMAIN new \subseteq Removable
    BY <1>6, RemovesIs
  <1>8. lconst' = lconst
    <2>1. AllSignalsOf(lconst) \cap DOMAIN new = {}
      BY <1>5, <1>7 DEF Removable
    <2> HIDE DEF new
    <2> QED  BY <1>1, <1>4, <1>7, <2>1, LeftAlone
  <1> HIDE DEF new
  <1>9. Images(new, DOMAIN new) \subseteq Images(subs, DOMAIN subs)
    BY <1>6 DEF Images
  <1>10. Framed'
    BY <1>2, <1>4, <1>5, <1>n DEF AtLinear, Framed
  <1>11. Typed'
    <2>1. <<>> \in Seq(CleanLinear) /\ <<>> \in Removals
      BY NoReplacements DEF Removals
    <2> QED  BY <1>1, <1>2, <1>3, <1>4, <1>5, <1>6, <1>8, <2>1 DEF Typed
  <1>12. ASSUME NEW s \in AllSignalsOf(NonLinear'), Renamed(s)' \in deleted'
         PROVE  Renamed(s)' \in DOMAIN cons' \cup DOMAIN linearSubs'
    <2>1. Renamed(s)' = Renamed(s) /\ s \in AllSignalsOf(NonLinear)
      BY <1>3, <1>12, <1>n
    <2>2. Renamed(s) \in deleted => Renamed(s) \in DOMAIN cons
      BY <1>4, <2>1 DEF AtLinear
    <2>3. Renamed(s) \in DOMAIN subs => Renamed(s) \in DOMAIN cons \/ Renamed(s) \in S
      BY <2>1 DEF Relevant
    <2> QED  BY <1>1, <1>2, <1>6, <1>12, <2>1, <2>2, <2>3
  <1>13. AllSignalsOf(lconst') \cap deleted' = {} /\ AllSignalsOf(lconst') \subseteq Forbidden'
    BY <1>3, <1>5, <1>8 DEF Removable
  <1>14. ASSUME NEW v \in Valuations
         PROVE  Source(v)' <=> AllHold(NonLinear', v) /\ AllHold(lconst', v) /\ Obeys(v, log')
    <2>1. Source(v) <=> /\ ClustersMean(v) /\ AllHold(NonLinear, v) /\ AllHold(lconst, v)
                        /\ Obeys(v, log)
      BY <1>4 DEF AtLinear
    <2> QED  BY <2>1, <1>3, <1>5, <1>8
  <1>15. /\ InLog(linearSubs', log')
         /\ Images(linearSubs', DOMAIN linearSubs') \cap deleted' = {}
    BY <1>1, <1>5, <1>6, <1>9
  <1>16. clusters' = {} /\ subs' = <<>> /\ job' = Idle'
    BY <1>1, <1>2 DEF Idle
  <1>17. AtNonLinear'
    BY <1>5, <1>10, <1>12, <1>13, <1>14, <1>15, <1>16 DEF AtNonLinear
  <1> QED  BY <1>1, <1>11, <1>17 DEF IInv, Stages

\* A non-linear constraint with the substitutions of the first three stages.
LEMMA UnframedIs ==
    ASSUME Typed, AtNonLinear, NEW con \in CleanCon, SignalsOf(con) \subseteq AllSignalsOf(NonLinear)
    PROVE  /\ Unframed(con) \in CleanCon
           /\ SignalsOf(Unframed(con)) \cap deleted = {}
           /\ \A v \in Valuations : Obeys(v, log) => (Holds(Unframed(con), v) <=> Holds(con, v))
  <1> DEFINE c1 == FastSubstitution(con, single)
             c2 == FastSubstitution(c1, cons)
             c3 == FastSubstitution(c2, linearSubs)
  <1>1. single \in Replacements /\ cons \in Replacements /\ linearSubs \in Replacements
    BY RemovesIs DEF Typed
  <1>2. Framed /\ InLog(single, log) /\ InLog(cons, log) /\ InLog(linearSubs, log)
        /\ Images(linearSubs, DOMAIN linearSubs) \cap deleted = {}
        /\ \A s \in AllSignalsOf(NonLinear) :
              Renamed(s) \in deleted => Renamed(s) \in DOMAIN cons \cup DOMAIN linearSubs
    BY DEF AtNonLinear, Framed
  <1>3. con \in Con
    BY ConIs
  <1>4. /\ c1 \in Con
        /\ SignalsOf(c1) \subseteq (SignalsOf(con) \ DOMAIN single) \cup Images(single, SignalsOf(con))
        /\ \A v \in [Signal -> Field] : Satisfies(v, single) => (Holds(c1, v) <=> Holds(con, v))
    BY <1>1, <1>3, FastIs
  <1> HIDE DEF c1
  <1>5. /\ c2 \in Con
        /\ SignalsOf(c2) \subseteq (SignalsOf(c1) \ DOMAIN cons) \cup Images(cons, SignalsOf(c1))
        /\ \A v \in [Signal -> Field] : Satisfies(v, cons) => (Holds(c2, v) <=> Holds(c1, v))
    BY <1>1, <1>4, FastIs
  <1> HIDE DEF c2
  <1>6. /\ c3 \in Con
        /\ SignalsOf(c3) \subseteq (SignalsOf(c2) \ DOMAIN linearSubs) \cup Images(linearSubs, SignalsOf(c2))
        /\ \A v \in [Signal -> Field] : Satisfies(v, linearSubs) => (Holds(c3, v) <=> Holds(c2, v))
    BY <1>1, <1>5, FastIs
  <1>7. Unframed(con) = Fixed(c3)
    BY DEF Unframed, c1, c2
  <1> HIDE DEF c3
  <1>8. /\ Fixed(c3) \in CleanCon /\ SignalsOf(Fixed(c3)) \subseteq SignalsOf(c3)
        /\ \A v \in Valuations : Holds(Fixed(c3), v) <=> Holds(c3, v)
    BY <1>6, FixedIs
  <1>9. \A t \in SignalsOf(c1) : \E s \in SignalsOf(con) : t = Renamed(s)
    <2> TAKE t \in SignalsOf(c1)
    <2>1. CASE t \in SignalsOf(con) \ DOMAIN single
      BY <2>1 DEF Renamed
    <2>2. CASE t \in Images(single, SignalsOf(con))
      <3>1. PICK s \in SignalsOf(con) \cap DOMAIN single : t \in DOMAIN single[s]
        BY <2>2 DEF Images
      <3>2. PICK r \in Signal \ {One} : single[s] = Only(r, 1) /\ Renamed(s) = r
        BY <1>2, <3>1 DEF Framed
      <3>3. DOMAIN single[s] = {r}
        BY <3>2, OnlySignal
      <3> QED  BY <3>1, <3>2, <3>3
    <2> QED  BY <2>1, <2>2, <1>4
  <1>10. Images(cons, SignalsOf(c1)) = {}
    BY <1>2 DEF Images, Framed
  <1>11. Images(linearSubs, SignalsOf(c2)) \cap deleted = {}
    BY <1>2, ImagesGrow
  <1>12. SignalsOf(c3) \cap deleted = {}
    <2> SUFFICES ASSUME NEW t \in SignalsOf(c2) \ DOMAIN linearSubs, t \in deleted  PROVE  FALSE
      BY <1>6, <1>11
    <2>1. t \in SignalsOf(c1) /\ t \notin DOMAIN cons
      BY <1>5, <1>10
    <2> QED  BY <2>1, <1>2, <1>9
  <1>13. \A v \in Valuations : Obeys(v, log) => (Holds(c3, v) <=> Holds(con, v))
    <2> TAKE v \in Valuations
    <2> HAVE Obeys(v, log)
    <2>1. v \in [Signal -> Field]
      BY ValuationsAre
    <2>2. Satisfies(v, single) /\ Satisfies(v, cons) /\ Satisfies(v, linearSubs)
      BY <1>2, LoggedHolds
    <2> QED  BY <2>1, <2>2, <1>4, <1>5, <1>6
  <1> QED  BY <1>7, <1>8, <1>12, <1>13

\* Constraints listed under their signals.
ListedIn(cs, ids, r) == \A i \in ids : \A s \in SignalsOf(cs[i]) : s \in DOMAIN r /\ i \in r[s]

\* Constraints that are listed under all their signals, together with those listed before.
LEMMA ListInIs ==
    ASSUME NEW cs \in Seq(CleanCon), NEW old \in SUBSET DOMAIN cs, NEW lst \in Lists(old),
           NEW ids \in SUBSET DOMAIN cs, NEW r, r = ListIn(lst, cs, ids)
    PROVE  /\ r \in Lists(DOMAIN cs)
           /\ DOMAIN r = DOMAIN lst \cup UNION {SignalsOf(cs[i]) : i \in ids}
           /\ ListedIn(cs, old, lst) => ListedIn(cs, old \cup ids, r)
  <1> DEFINE U == UNION {SignalsOf(cs[i]) : i \in ids}
             f == [s \in U |-> ListedUnder(lst, s) \cup {i \in ids : s \in SignalsOf(cs[i])}]
  <1>1. r = f ++ lst
    BY DEF ListIn
  <1>2. /\ DOMAIN lst \in SUBSET Signal /\ \A s \in DOMAIN lst : lst[s] \in SUBSET old
        /\ \A s : ListedUnder(lst, s) \in SUBSET old
    BY ListsAre
  <1>3. U \subseteq Signal
    <2>1. \A i \in ids : cs[i] \in Con
      BY ConIs
    <2>2. \A i \in ids : SignalsOf(cs[i]) \subseteq Signal
      BY <2>1, ConIs
    <2> QED  BY <2>2
  <1>4. DOMAIN f = U /\ \A s \in U : f[s] = ListedUnder(lst, s) \cup {i \in ids : s \in SignalsOf(cs[i])}
    OBVIOUS
  <1>5. \A i \in ids : SignalsOf(cs[i]) \subseteq U
    OBVIOUS
  <1> HIDE DEF f, U
  <1>6. r = [s \in U \cup DOMAIN lst |-> IF s \in U THEN f[s] ELSE lst[s]]
    BY <1>1, <1>4 DEF ++
  <1>7. \A s \in U \cup DOMAIN lst : r[s] \in SUBSET DOMAIN cs
    BY <1>2, <1>4, <1>6
  <1>8. r \in [U \cup DOMAIN lst -> SUBSET DOMAIN cs] /\ U \cup DOMAIN lst \in SUBSET Signal
    BY <1>2, <1>3, <1>6, <1>7
  <1>9. ASSUME \A i \in old : \A s \in SignalsOf(cs[i]) : s \in DOMAIN lst /\ i \in lst[s],
               NEW i \in old \cup ids, NEW s \in SignalsOf(cs[i])
        PROVE  s \in DOMAIN r /\ i \in r[s]
    <2>1. CASE s \in U
      <3>1. r[s] = ListedUnder(lst, s) \cup {j \in ids : s \in SignalsOf(cs[j])} /\ s \in DOMAIN r
        BY <2>1, <1>4, <1>6
      <3>2. CASE i \in ids
        BY <3>1, <3>2
      <3>3. CASE i \in old
        BY <3>1, <3>3, <1>9 DEF ListedUnder
      <3> QED  BY <3>2, <3>3
    <2>2. CASE s \notin U
      <3>1. i \in old /\ s \in DOMAIN lst /\ i \in lst[s]
        BY <2>2, <1>5, <1>9
      <3> QED  BY <2>2, <3>1, <1>6
    <2> QED  BY <2>1, <2>2
  <1>10. DOMAIN r = DOMAIN lst \cup U
    BY <1>6
  <1> QED  BY <1>8, <1>9, <1>10 DEF Lists, U, ListedIn

\* What follows when the non-linear constraints are up to date.
LEMMA AfterRound ==
    ASSUME Typed', Stored', Logged', AllSignalsOf(linear') \cap deleted' = {},
           AllSignalsOf(lconst') \cap deleted' = {}, options' = options,
           options.linear => AllSignalsOf(lconst') \subseteq Forbidden',
           subs' = <<>>, job' = Idle, NextRound(linear'),
           \A v \in Valuations :
              Source(v)' <=> /\ AllHold(linear', v) /\ AllHold(storage', v) /\ AllHold(lconst', v)
                             /\ Obeys(v, log')
    PROVE  IInv'
  <1>1. /\ Mentioned(subs') = {} /\ Images(subs', DOMAIN subs') = {} /\ \A v : Satisfies(v, subs')
    BY NothingMentioned
  <1>2. /\ JobSignals' = {} /\ JobFits' /\ UniquesFit' /\ \A v : JobHolds(v)'
    <2>1. (job = Idle)'
      BY DEF Idle
    <2>2. (job = Idle => JobSignals = {} /\ JobFits /\ UniquesFit /\ \A v : JobHolds(v))'
      BY IdleIs, PTL
    <2> QED  BY <2>1, <2>2
  <1>3. CASE stage' = "round" /\ clusters' = Clusters(linear') /\ options.linear
    <2>1. linear' \in Seq(CleanLinear)
      BY DEF Typed
    <2>2. /\ Apart(clusters', linear')
          /\ \A v \in Valuations : ClustersHold(clusters', linear', v) <=> AllHold(linear', v)
      BY <1>3, <2>1, ClustersFit
    <2>3. Eliminating'
      BY <1>1, <1>2, <1>3, <2>2 DEF Eliminating
    <2>4. \A v \in Valuations : ClustersMean(v)' <=> AllHold(linear', v)
      BY <1>1, <1>2, <2>2 DEF ClustersMean
    <2>5. AtRound'
      BY <2>3, <2>4 DEF AtRound
    <2> QED  BY <1>3, <2>5 DEF IInv, Stages
  <1>4. CASE stage' = "witness" /\ clusters' = {}
    <2>1. job' = Idle'
      BY DEF Idle
    <2>2. AtWitness'
      BY <1>4, <2>1 DEF AtWitness
    <2> QED  BY <1>4, <2>2 DEF IInv, Stages
  <1> QED  BY <1>3, <1>4 DEF NextRound

\* The constraints of a sequence that are linear, and the others.
LinearOnes(cs) == At(cs, {i \in DOMAIN cs : IsLinear(cs[i])})
OtherOnes(cs)  == At(cs, {i \in DOMAIN cs : ~IsLinear(cs[i])})

\* Constraints that have become linear, and the others.
LEMMA SplitConstraints ==
    ASSUME NEW cs \in Seq(CleanCon), NEW a, a = OtherOnes(cs), NEW b, b = LinearOnes(cs)
    PROVE  /\ a \in Seq(CleanCon) /\ b \in Seq(CleanLinear)
           /\ \A v : AllHold(cs, v) <=> AllHold(a, v) /\ AllHold(b, v)
           /\ AllSignalsOf(a) \subseteq AllSignalsOf(cs) /\ AllSignalsOf(b) \subseteq AllSignalsOf(cs)
  <1> DEFINE I == {i \in DOMAIN cs : ~IsLinear(cs[i])}
             J == {i \in DOMAIN cs : IsLinear(cs[i])}
  <1>1. a = At(cs, I) /\ b = At(cs, J)
    BY DEF LinearOnes, OtherOnes
  <1>2. I \cap DOMAIN cs = I /\ J \cap DOMAIN cs = J /\ I \cup J = DOMAIN cs
        /\ \A j \in J : IsLinear(cs[j])
    OBVIOUS
  <1>3. \A i \in DOMAIN cs : cs[i] \in CleanCon
    OBVIOUS
  <1> HIDE DEF I, J
  <1>4. At(cs, I) \in Seq(CleanCon) /\ At(cs, J) \in Seq(CleanCon)
        /\ \A i \in DOMAIN At(cs, J) : \E j \in J \cap DOMAIN cs : At(cs, J)[i] = cs[j]
    BY AtIs
  <1>5. a \in Seq(CleanCon) /\ b \in Seq(CleanCon) /\ \A i \in DOMAIN b : \E j \in J \cap DOMAIN cs : b[i] = cs[j]
    BY <1>1, <1>4
  <1>6. \A i \in DOMAIN b : b[i] \in CleanLinear
    <2> TAKE i \in DOMAIN b
    <2>1. PICK j \in J \cap DOMAIN cs : b[i] = cs[j]
      BY <1>5
    <2> QED  BY <2>1, <1>2, <1>3, ConIs
  <1>7. b \in Seq(CleanLinear)
    BY <1>5, <1>6, SequenceOf
  <1>8. \A v : /\ AllHold(At(cs, I), v) <=> \A j \in I \cap DOMAIN cs : Holds(cs[j], v)
               /\ AllHold(At(cs, J), v) <=> \A j \in J \cap DOMAIN cs : Holds(cs[j], v)
    BY AtHolds
  <1>9. \A v : AllHold(cs, v) <=> AllHold(a, v) /\ AllHold(b, v)
    <2> TAKE v
    <2>1. /\ AllHold(a, v) <=> \A j \in I : Holds(cs[j], v)
          /\ AllHold(b, v) <=> \A j \in J : Holds(cs[j], v)
      BY <1>1, <1>2, <1>8
    <2>2. AllHold(cs, v) <=> \A j \in I \cup J : Holds(cs[j], v)
      BY <1>2 DEF AllHold
    <2> QED  BY <2>1, <2>2
  <1>10. /\ AllSignalsOf(At(cs, I)) = UNION {SignalsOf(cs[j]) : j \in I \cap DOMAIN cs}
         /\ AllSignalsOf(At(cs, J)) = UNION {SignalsOf(cs[j]) : j \in J \cap DOMAIN cs}
    BY AtSignals
  <1>11. AllSignalsOf(a) \subseteq AllSignalsOf(cs) /\ AllSignalsOf(b) \subseteq AllSignalsOf(cs)
    <2>1. /\ AllSignalsOf(a) = UNION {SignalsOf(cs[j]) : j \in I \cap DOMAIN cs}
          /\ AllSignalsOf(b) = UNION {SignalsOf(cs[j]) : j \in J \cap DOMAIN cs}
      BY <1>1, <1>10
    <2> QED  BY <2>1 DEF AllSignalsOf
  <1> QED  BY <1>5, <1>7, <1>9, <1>11

\* The non-linear constraints are renamed by the equalities, then given the constants and the
\* linear substitutions: none of the removed signals is left in the storage, and those that
\* have become linear go to the next round.
LEMMA SimplifyNonLinearKeeps ==
    ASSUME IInv, SimplifyNonLinear
    PROVE  IInv'
  <1> DEFINE f == [i \in DOMAIN NonLinear |-> Unframed(NonLinear[i])]
             all == <<>> \o f
  <1>1. /\ stage = "nonlinear"
        /\ storage' = OtherOnes(all) /\ linear' = LinearOnes(all)
    BY DEF SimplifyNonLinear, Those, Each, OtherOnes, LinearOnes
  <1>2. listed' = ListIn(<<>>, storage', DOMAIN storage')
    BY DEF SimplifyNonLinear, Those, Each
  <1>3. NextRound(linear')
    <2> DEFINE lin == Those(Each(NonLinear, Unframed), IsLinear)
    <2>1. linear' = lin /\ NextRound(lin)
      BY DEF SimplifyNonLinear
    <2> HIDE DEF lin
    <2> QED  BY <2>1 DEF NextRound
  <1>4. UNCHANGED <<circuit, options, equalities, consEqualities, lconst, single, cons, linearSubs, job,
                    subs, deleted, log>>
    BY DEF SimplifyNonLinear, frames
  <1>5. Typed /\ AtNonLinear /\ circuit \in Circuits
    BY <1>1 DEF IInv, Stages, Typed
  <1>6. NonLinear \in Seq(CleanCon)
    BY <1>5, Constraints
  <1>7. \A i \in DOMAIN NonLinear :
           /\ f[i] \in CleanCon /\ SignalsOf(f[i]) \cap deleted = {}
           /\ \A v \in Valuations : Obeys(v, log) => (Holds(f[i], v) <=> Holds(NonLinear[i], v))
    <2> TAKE i \in DOMAIN NonLinear
    <2> DEFINE con == NonLinear[i]
    <2>1. f[i] = Unframed(con)
      OBVIOUS
    <2>2. con \in CleanCon /\ SignalsOf(con) \subseteq AllSignalsOf(NonLinear)
      BY <1>6 DEF AllSignalsOf
    <2> HIDE DEF con, f
    <2>3. /\ Unframed(con) \in CleanCon
          /\ SignalsOf(Unframed(con)) \cap deleted = {}
          /\ \A v \in Valuations : Obeys(v, log) => (Holds(Unframed(con), v) <=> Holds(con, v))
      BY <1>5, <2>2, UnframedIs
    <2> QED  BY <2>1, <2>3 DEF con
  <1>8. f \in [DOMAIN NonLinear -> CleanCon]
    BY <1>7
  <1>9. all = f /\ all \in Seq(CleanCon) /\ DOMAIN all = DOMAIN NonLinear
    <2>1. all = <<>> \o f
      OBVIOUS
    <2> HIDE DEF f, all
    <2>2. <<>> \o f = f /\ f \in Seq(CleanCon) /\ DOMAIN f = DOMAIN NonLinear
      BY <1>6, <1>8, EachIs
    <2> QED  BY <2>1, <2>2
  <1> HIDE DEF f, all
  <1>10. /\ AllSignalsOf(all) \cap deleted = {}
         /\ \A v \in Valuations : Obeys(v, log) => (AllHold(all, v) <=> AllHold(NonLinear, v))
    BY <1>7, <1>9 DEF AllSignalsOf, AllHold
  <1>11. /\ storage' \in Seq(CleanCon) /\ linear' \in Seq(CleanLinear)
         /\ \A v : AllHold(all, v) <=> AllHold(storage', v) /\ AllHold(linear', v)
         /\ AllSignalsOf(storage') \subseteq AllSignalsOf(all)
         /\ AllSignalsOf(linear') \subseteq AllSignalsOf(all)
    BY <1>1, <1>9, SplitConstraints
  <1>12. /\ Forbidden' = Forbidden /\ Removable' = Removable /\ Logs' = Logs /\ Removals' = Removals
         /\ NonLinear' = NonLinear /\ ConstantsAgree' = ConstantsAgree
         /\ \A v : (Source(v)' <=> Source(v))
    BY <1>4, SameCircuit
  <1>13. stage' \in {"round", "witness"}
    BY <1>3 DEF NextRound
  <1>14. Typed'
    BY <1>4, <1>5, <1>11, <1>12, <1>13 DEF Typed
  <1>15. listed' \in Lists(DOMAIN storage') /\ Listing(storage', listed')
    <2> DEFINE cs == storage'
               r == listed'
               lst == <<>>
               old == {}
               ids == DOMAIN cs
    <2>1. cs \in Seq(CleanCon) /\ old \in SUBSET DOMAIN cs /\ ids \in SUBSET DOMAIN cs
          /\ r = ListIn(lst, cs, ids)
      BY <1>2, <1>11
    <2>2. lst \in Lists(old)
      <3>1. {} \in SUBSET Signal /\ <<>> \in [{} -> SUBSET {}]
        OBVIOUS
      <3> QED  BY <3>1 DEF Lists
    <2>3. ListedIn(cs, old, lst)
      BY DEF ListedIn
    <2>4. old \cup ids = DOMAIN cs
      OBVIOUS
    <2> HIDE DEF cs, r, lst, old, ids
    <2>5. r \in Lists(DOMAIN cs) /\ ListedIn(cs, old \cup ids, r)
      BY <2>1, <2>2, <2>3, ListInIs
    <2> QED  BY <2>4, <2>5 DEF Listing, ListedIn, cs, r
  <1>16. Stored'
    BY <1>4, <1>10, <1>11, <1>15 DEF Stored
  <1>17. /\ Logged' /\ AllSignalsOf(lconst') \cap deleted' = {}
         /\ options.linear => AllSignalsOf(lconst') \subseteq Forbidden'
         /\ subs' = <<>> /\ job' = Idle
    BY <1>4, <1>5, <1>12 DEF AtNonLinear, Logged
  <1>18. AllSignalsOf(linear') \cap deleted' = {}
    BY <1>4, <1>10, <1>11
  <1>19. \A v \in Valuations :
              Source(v)' <=> /\ AllHold(linear', v) /\ AllHold(storage', v) /\ AllHold(lconst', v)
                             /\ Obeys(v, log')
    BY <1>4, <1>5, <1>10, <1>11, <1>12 DEF AtNonLinear
  <1> QED  BY <1>3, <1>4, <1>14, <1>16, <1>17, <1>18, <1>19, AfterRound

\* The empty constraint holds everywhere.
LEMMA EmptyHolds ==
    ASSUME NEW v \in Valuations
    PROVE  Holds(EmptyConstraint, v)
  <1>1. v \in [Signal -> Field]
    BY ValuationsAre
  <1>2. Zero \in Expr /\ Value(Zero, v) = 0
    BY <1>1, ZeroIs
  <1> QED  BY <1>1, <1>2, LinearHolds DEF EmptyConstraint, LinearConstraint

\* The linear constraints that stay, tidied.
FixedOnes(cs) == <<>> \o [i \in DOMAIN cs |-> Fixed(cs[i])]

\* Linear constraints, each of them cleaned.
LEMMA FixedOnesAre ==
    ASSUME NEW cs \in Seq(Linear), NEW q, q = FixedOnes(cs)
    PROVE  /\ q \in Seq(CleanLinear) /\ q \in Seq(Linear)
           /\ AllSignalsOf(q) \subseteq AllSignalsOf(cs)
           /\ \A v \in Valuations : AllHold(q, v) <=> AllHold(cs, v)
  <1> DEFINE f == [i \in DOMAIN cs |-> Fixed(cs[i])]
  <1>1. q = <<>> \o f
    BY DEF FixedOnes
  <1>2. \A i \in DOMAIN cs : cs[i] \in Linear
    OBVIOUS
  <1>3. \A con \in Linear : con \in Con /\ NonZero(con.a) = Zero
    BY ConIs, ZeroIs, NonZeroIs DEF Linear
  <1>4. \A i \in DOMAIN cs :
           /\ f[i] \in CleanLinear /\ SignalsOf(f[i]) \subseteq SignalsOf(cs[i])
           /\ \A v \in Valuations : Holds(f[i], v) <=> Holds(cs[i], v)
    BY <1>2, <1>3, FixedIs
  <1>5. f \in [DOMAIN cs -> CleanLinear]
    BY <1>4
  <1> HIDE DEF f
  <1>6. q = f /\ q \in Seq(CleanLinear) /\ DOMAIN q = DOMAIN cs
    BY <1>1, <1>5, EachIs
  <1>7. q \in Seq(Linear)
    <2>1. \A i \in DOMAIN q : q[i] \in Linear
      BY <1>6, ConIs
    <2> QED  BY <2>1, <1>6, SequenceOf
  <1>8. AllSignalsOf(q) \subseteq AllSignalsOf(cs)
    BY <1>4, <1>6 DEF AllSignalsOf
  <1>9. \A v \in Valuations : AllHold(q, v) <=> AllHold(cs, v)
    BY <1>4, <1>6 DEF AllHold
  <1> QED  BY <1>6, <1>7, <1>8, <1>9

\* Where there is nothing to replace, the substitutions only clean.
LEMMA FixedAlone ==
    ASSUME NEW cs \in Seq(Linear), NEW m \in Replacements, AllSignalsOf(cs) \cap DOMAIN m = {},
           NEW q, q = Each(cs, LAMBDA con : Fixed(FastSubstitution(con, m)))
    PROVE  q = FixedOnes(cs)
  <1>1. q = <<>> \o [i \in DOMAIN cs |-> Fixed(FastSubstitution(cs[i], m))]
    BY DEF Each
  <1>2. \A i \in DOMAIN cs : SignalsOf(cs[i]) \cap DOMAIN m = {} /\ cs[i] \in Con
    BY ConIs DEF AllSignalsOf
  <1>3. \A i \in DOMAIN cs : FastSubstitution(cs[i], m) = cs[i]
    BY <1>2, FastIs
  <1>4. [i \in DOMAIN cs |-> Fixed(FastSubstitution(cs[i], m))] = [i \in DOMAIN cs |-> Fixed(cs[i])]
    BY <1>3
  <1> QED  BY <1>1, <1>4 DEF FixedOnes

\* The constraints of sto at the positions ids, in some order.
Picked(sto, ids) == <<>> \o [i \in DOMAIN SetToSeq(ids) |-> sto[SetToSeq(ids)[i]]]

\* The constraints of the storage that have become linear
LEMMA PickedAre ==
    ASSUME NEW ids, IsFiniteSet(ids), NEW sto, \A i \in ids : sto[i] \in CleanLinear,
           NEW cs, cs = Picked(sto, ids)
    PROVE  /\ cs \in Seq(CleanLinear) /\ AllSignalsOf(cs) = SigsIn(sto, ids)
           /\ \A v : AllHold(cs, v) <=> \A i \in ids : Holds(sto[i], v)
  <1> DEFINE q == SetToSeq(ids)
             f == [i \in DOMAIN q |-> sto[q[i]]]
  <1>1. /\ q \in Seq(ids) /\ (\A i \in DOMAIN q : q[i] \in ids)
        /\ \A s \in ids : \E i \in DOMAIN q : q[i] = s
    BY SetToSeqIs
  <1>2. cs = <<>> \o f
    BY DEF Picked
  <1> HIDE DEF q
  <1>3. /\ f \in [DOMAIN q -> CleanLinear]
        /\ \A i \in DOMAIN q : f[i] = sto[q[i]]
    BY <1>1
  <1> HIDE DEF f
  <1>4. cs = f /\ cs \in Seq(CleanLinear) /\ DOMAIN cs = DOMAIN q
    BY <1>1, <1>2, <1>3, EachIs
  <1>5. AllSignalsOf(cs) = SigsIn(sto, ids)
    BY <1>1, <1>3, <1>4 DEF AllSignalsOf, SigsIn
  <1>6. \A v : AllHold(cs, v) <=> \A i \in ids : Holds(sto[i], v)
    BY <1>1, <1>3, <1>4 DEF AllHold
  <1> QED  BY <1>4, <1>5, <1>6

\* A round ends: its substitutions are logged and made in the storage, and the constraints that
\* have become linear leave it for the next round, or for the end.
LEMMA FinishRoundKeeps ==
    ASSUME IInv, FinishRound
    PROVE  IInv'
  <1> DEFINE acc == RoundResult
             lin == Picked(acc.storage, acc.linear)
             sto == [i \in DOMAIN storage |-> IF i \in acc.linear THEN EmptyConstraint ELSE acc.storage[i]]
  <1>1. /\ stage = "round" /\ PassFinished /\ clusters = {} /\ job = Idle
        /\ deleted' = deleted \cup DOMAIN subs
        /\ storage' = sto /\ listed' = acc.listed /\ linear' = lin /\ subs' = <<>>
        /\ log' = log \cup Entries(subs)
    BY DEF FinishRound, Log, Entries, PassFinished, RoundResult, Picked, Each
  <1>2. lconst' = Each(lconst, LAMBDA con : Fixed(FastSubstitution(con, subs)))
    BY DEF FinishRound
  <1>3. NextRound(linear')
    BY DEF FinishRound, NextRound
  <1>4. UNCHANGED <<circuit, options, equalities, consEqualities, single, cons, linearSubs, job>>
    BY DEF FinishRound, frames
  <1>5. /\ Typed /\ AtRound /\ Eliminating /\ Stored /\ subs \in Removals /\ lconst \in Seq(Linear)
        /\ storage \in Seq(CleanCon)
    BY <1>1 DEF IInv, Stages, Typed, AtRound
  <1>6. subs \in Replacements /\ DOMAIN subs \subseteq Removable
    BY <1>5, RemovesIs
  <1>7. /\ Logged' /\ deleted' \subseteq Removable /\ log' \in Logs
        /\ Images(subs, DOMAIN subs) \cap deleted' = {}
        /\ \A v \in Valuations : ClustersMean(v) <=> Satisfies(v, subs)
        /\ \A v : Obeys(v, log') <=> Obeys(v, log) /\ Satisfies(v, subs)
        /\ AllSignalsOf(lconst) \subseteq Forbidden
    BY <1>1, <1>4, PassEnds
  <1>8. /\ acc \in Accs(DOMAIN storage)
        /\ Listing(acc.storage, acc.listed)
        /\ \A i \in DOMAIN storage : SignalsOf(acc.storage[i]) \subseteq
                 (SignalsOf(storage[i]) \ DOMAIN subs) \cup Images(subs, DOMAIN subs)
        /\ \A v \in Valuations : Satisfies(v, subs) =>
                 \A i \in DOMAIN storage : Holds(acc.storage[i], v) <=> Holds(storage[i], v)
        /\ \A i \in acc.linear : acc.storage[i] \in CleanLinear
    <2>1. Images(subs, DOMAIN subs) \cap DOMAIN subs = {}
      BY <1>5 DEF Eliminating
    <2>2. listed \in Lists(DOMAIN storage) /\ Listing(storage, listed)
      BY <1>5 DEF Stored
    <2> QED  BY <2>1, <2>2, <1>5, <1>6, RoundIs
  <1> HIDE DEF acc
  <1>9. /\ acc.storage \in [DOMAIN storage -> CleanCon] /\ acc.linear \in SUBSET DOMAIN storage
        /\ acc.listed \in Lists(DOMAIN storage)
    BY <1>8 DEF Accs
  <1>10. IsFiniteSet(acc.linear)
    <2>1. Len(storage) \in Nat /\ DOMAIN storage = 1..Len(storage)
      BY <1>5
    <2>2. IsFiniteSet(DOMAIN storage)
      BY <2>1, FS_Interval
    <2> QED  BY <2>2, <1>9, FS_Subset
  <1>11. /\ lin \in Seq(CleanLinear) /\ AllSignalsOf(lin) = SigsIn(acc.storage, acc.linear)
         /\ \A v : AllHold(lin, v) <=> \A i \in acc.linear : Holds(acc.storage[i], v)
    <2> DEFINE ids == acc.linear
               st == acc.storage
               cs == lin
    <2>1. IsFiniteSet(ids) /\ (\A i \in ids : st[i] \in CleanLinear) /\ cs = Picked(st, ids)
      BY <1>8, <1>10
    <2> HIDE DEF ids, st, cs
    <2>2. /\ cs \in Seq(CleanLinear) /\ AllSignalsOf(cs) = SigsIn(st, ids)
          /\ \A v : AllHold(cs, v) <=> \A i \in ids : Holds(st[i], v)
      BY <2>1, PickedAre
    <2> QED  BY <2>2 DEF ids, st, cs
  <1>12. /\ sto \in [DOMAIN storage -> CleanCon]
         /\ \A i \in DOMAIN storage :
               sto[i] = IF i \in acc.linear THEN EmptyConstraint ELSE acc.storage[i]
    BY <1>9, ConIs
  <1> HIDE DEF sto, lin
  <1>13. sto \in Seq(CleanCon) /\ DOMAIN sto = DOMAIN storage
    BY <1>5, <1>12, EachIs
  <1>14. SignalsOf(EmptyConstraint) = {}
    BY ConIs
  <1>15. Listing(sto, acc.listed)
    <2>1. \A i \in DOMAIN storage : \A s \in SignalsOf(acc.storage[i]) :
             s \in DOMAIN acc.listed /\ i \in acc.listed[s]
      BY <1>8, <1>9 DEF Listing
    <2>2. \A i \in DOMAIN storage : SignalsOf(sto[i]) \subseteq SignalsOf(acc.storage[i])
      BY <1>12, <1>14
    <2> QED  BY <2>1, <2>2, <1>13 DEF Listing
  <1>16. \A i \in DOMAIN storage : SignalsOf(acc.storage[i]) \cap deleted' = {}
    <2>1. \A i \in DOMAIN storage : SignalsOf(storage[i]) \cap deleted = {}
      BY <1>5 DEF Stored, AllSignalsOf
    <2> QED  BY <2>1, <1>1, <1>7, <1>8
  <1>17. AllSignalsOf(sto) \cap deleted' = {} /\ AllSignalsOf(lin) \cap deleted' = {}
    <2> DEFINE d == deleted'
    <2>1. \A i \in DOMAIN storage : SignalsOf(acc.storage[i]) \cap d = {}
      BY <1>16
    <2> HIDE DEF d
    <2>2. \A i \in DOMAIN storage : SignalsOf(sto[i]) \cap d = {}
      BY <2>1, <1>12, <1>14
    <2>3. AllSignalsOf(sto) \cap d = {}
      BY <2>2, <1>13 DEF AllSignalsOf
    <2>4. \A i \in acc.linear : SignalsOf(acc.storage[i]) \cap d = {}
      BY <2>1, <1>9
    <2>5. SigsIn(acc.storage, acc.linear) \cap d = {}
      BY <2>4 DEF SigsIn
    <2> QED  BY <2>3, <2>5, <1>11 DEF d
  <1>18. /\ Forbidden' = Forbidden /\ Removable' = Removable /\ Logs' = Logs /\ Removals' = Removals
         /\ \A v : (Source(v)' <=> Source(v))
    BY <1>4, SameCircuit
  <1>19. /\ lconst' \in Seq(Linear) /\ AllSignalsOf(lconst') \subseteq Forbidden
         /\ \A v \in Valuations : AllHold(lconst', v) <=> AllHold(lconst, v)
    <2>1. AllSignalsOf(lconst) \cap DOMAIN subs = {}
      BY <1>6, <1>7 DEF Removable
    <2>2. lconst' = FixedOnes(lconst)
      BY <1>2, <1>5, <1>6, <2>1, FixedAlone
    <2> QED  BY <2>2, <1>5, <1>7, FixedOnesAre
  <1>20. stage' \in {"round", "witness"}
    BY <1>3 DEF NextRound
  <1>21. Typed'
    <2>1. <<>> \in Removals
      BY NoReplacements DEF Removals
    <2> QED  BY <2>1, <1>1, <1>4, <1>5, <1>7, <1>11, <1>13, <1>18, <1>19, <1>20 DEF Typed
  <1>22. Stored'
    BY <1>1, <1>9, <1>13, <1>15, <1>17 DEF Stored
  <1>23. AllSignalsOf(lconst') \cap deleted' = {} /\ AllSignalsOf(lconst') \subseteq Forbidden'
    BY <1>7, <1>18, <1>19 DEF Removable
  <1>24. \A v \in Valuations :
              Source(v)' <=> /\ AllHold(linear', v) /\ AllHold(storage', v) /\ AllHold(lconst', v)
                             /\ Obeys(v, log')
    <2> TAKE v \in Valuations
    <2>1. Source(v) <=> /\ ClustersMean(v) /\ AllHold(storage, v) /\ AllHold(lconst, v)
                        /\ Obeys(v, log)
      BY <1>5 DEF AtRound
    <2>2. AllHold(lin, v) /\ AllHold(sto, v) <=> \A i \in DOMAIN storage : Holds(acc.storage[i], v)
      <3>1. Holds(EmptyConstraint, v)
        BY EmptyHolds
      <3> QED  BY <3>1, <1>9, <1>11, <1>12, <1>13 DEF AllHold
    <2>3. Satisfies(v, subs) =>
             (AllHold(storage, v) <=> \A i \in DOMAIN storage : Holds(acc.storage[i], v))
      BY <1>8 DEF AllHold
    <2> QED  BY <2>1, <2>2, <2>3, <1>1, <1>7, <1>18, <1>19
  <1>25. AllSignalsOf(linear') \cap deleted' = {} /\ subs' = <<>> /\ job' = Idle /\ options' = options
    BY <1>1, <1>4, <1>17
  <1> QED  BY <1>3, <1>7, <1>21, <1>22, <1>23, <1>24, <1>25, AfterRound

\* The constraints that say anything.
NonEmpty(cs) == At(cs, {i \in DOMAIN cs : cs[i] # EmptyConstraint})

\* The constraints that say anything say all.
LEMMA NonEmptyAre ==
    ASSUME NEW cs \in Seq(CleanCon), NEW q, q = NonEmpty(cs)
    PROVE  /\ q \in Seq(CleanCon) /\ AllSignalsOf(q) \subseteq AllSignalsOf(cs)
           /\ \A v \in Valuations : AllHold(q, v) <=> AllHold(cs, v)
  <1> DEFINE I == {i \in DOMAIN cs : cs[i] # EmptyConstraint}
  <1>1. q = At(cs, I)
    BY DEF NonEmpty
  <1>2. I \cap DOMAIN cs = I /\ I \subseteq DOMAIN cs
        /\ \A i \in DOMAIN cs : i \in I \/ cs[i] = EmptyConstraint
    OBVIOUS
  <1> HIDE DEF I
  <1>3. At(cs, I) \in Seq(CleanCon)
    BY AtIs
  <1>4. AllSignalsOf(At(cs, I)) = UNION {SignalsOf(cs[j]) : j \in I \cap DOMAIN cs}
    BY AtSignals
  <1>5. \A v : AllHold(At(cs, I), v) <=> \A j \in I \cap DOMAIN cs : Holds(cs[j], v)
    BY AtHolds
  <1>6. AllSignalsOf(q) = UNION {SignalsOf(cs[j]) : j \in I}
    BY <1>1, <1>2, <1>4
  <1>7. AllSignalsOf(q) \subseteq AllSignalsOf(cs)
    BY <1>2, <1>6 DEF AllSignalsOf
  <1>8. \A v \in Valuations : AllHold(q, v) <=> AllHold(cs, v)
    <2> TAKE v \in Valuations
    <2>1. Holds(EmptyConstraint, v)
      BY EmptyHolds
    <2>2. AllHold(q, v) <=> \A j \in I : Holds(cs[j], v)
      BY <1>1, <1>2, <1>5
    <2> QED  BY <2>1, <2>2, <1>2 DEF AllHold
  <1> QED  BY <1>1, <1>3, <1>7, <1>8

\* What is said of a witness: the signals that are kept are those that are neither
\* substituted nor unlisted, and their places are consecutive.
LayoutHolds(lst, del, acc, K) ==
    /\ K = Signal \ acc.deleted /\ acc.deleted = del \cup Unlisted(lst)
    /\ \A s \in {One} \cup Public : acc.map[s] = s
    /\ \A s, t \in K : s < t => acc.map[s] < acc.map[t]
    /\ {acc.map[s] : s \in K} = 0..Cardinality(K) - 1

\* The places in the witness are as the layout says.
LEMMA LayoutIs ==
    ASSUME NEW lst, NEW del \in SUBSET (Signal \ Forbidden), NEW m, NEW acc,
           Placed(lst, del, NoLabels, m, acc), circuit \in Circuits,
           NEW K, K = DOMAIN acc.map
    PROVE  LayoutHolds(lst, del, acc, K)
  <1>1. /\ acc.deleted = del \cup {s \in Unlisted(lst) : s < NoLabels}
        /\ m \in 0..NoLabels
        /\ K = (0..NoLabels - 1) \ acc.deleted /\ Cardinality(K) = m
        /\ acc.map \in [K -> 0..m - 1]
        /\ \A s, t \in K : s < t => acc.map[s] < acc.map[t]
        /\ \A p \in 0..m - 1 : \E s \in K : acc.map[s] = p
        /\ \A s \in K : s <= LastPublic => acc.map[s] = s
    BY DEF Placed
  <1>2. NoLabels \in Nat /\ \A s \in Signal : s < NoLabels
    BY Numbers DEF Signal
  <1>3. acc.deleted = del \cup Unlisted(lst)
    <2>1. Unlisted(lst) \subseteq Signal
      BY DEF Unlisted
    <2> QED  BY <2>1, <1>1, <1>2
  <1>4. K = Signal \ acc.deleted
    BY <1>1 DEF Signal
  <1>5. acc.deleted \cap Forbidden = {} /\ Forbidden \subseteq Signal
    BY <1>3, Constraints DEF Unlisted
  <1>6. ASSUME NEW s \in {One} \cup Public  PROVE  acc.map[s] = s
    <2>1. s \in Forbidden
      BY DEF Forbidden
    <2>2. s \in K
      BY <2>1, <1>4, <1>5
    <2>3. s <= LastPublic
      BY CircuitsAssumption DEF Public, LastPublic, One
    <2> QED  BY <2>2, <2>3, <1>1
  <1>7. {acc.map[s] : s \in K} = 0..Cardinality(K) - 1
    <2> DEFINE p == acc.map
    <2>1. p \in [K -> 0..m - 1] /\ \A x \in 0..m - 1 : \E s \in K : p[s] = x
      BY <1>1
    <2> HIDE DEF p
    <2>2. {p[s] : s \in K} = 0..m - 1
      BY <2>1
    <2> QED  BY <2>2, <1>1 DEF p
  <1> QED  BY <1>1, <1>3, <1>4, <1>6, <1>7 DEF LayoutHolds

\* How many private inputs are in the witness.
LEMMA InputsAre ==
    ASSUME NEW D \in SUBSET Signal, D \cap Public = {}
    PROVE  NoPrivateInputs
             - Cardinality(D \cap (NoPublicOutputs + 1..NoPublicOutputs + NoPublicInputs + NoPrivateInputs))
           = Cardinality({s \in Signal \ D : s > Cardinality(Public)
                                      /\ s <= Cardinality(Public) + NoPrivateInputs})
  <1> DEFINE a == NoPublicOutputs
             b == NoPublicInputs
             c == NoPrivateInputs
             l == a + b
             priv == l + 1..l + c
             ins == a + 1..a + b + c
  <1>1. a \in Nat /\ b \in Nat /\ c \in Nat /\ a + b + c < NoLabels /\ NoLabels \in Nat
        /\ Signal = 0..NoLabels - 1 /\ Public = 1..l
    BY CircuitsAssumption DEF Signal, Public
  <1>2. Cardinality(Public) = l
    <2>1. l \in Nat /\ Public = 1..l
      BY <1>1
    <2> HIDE DEF l
    <2>2. Cardinality(1..l) = IF 1 > l THEN 0 ELSE l - 1 + 1
      BY <2>1, FS_Interval
    <2> QED  BY <2>1, <2>2
  <1>3. /\ IsFiniteSet(priv) /\ Cardinality(priv) = c /\ priv \subseteq Signal
    <2>1. l \in Nat /\ l + c < NoLabels
      BY <1>1
    <2> HIDE DEF l
    <2> DEFINE x == l + 1
               y == l + c
    <2>2. x \in Int /\ y \in Int
      BY <1>1, <2>1
    <2>3. IsFiniteSet(x..y) /\ Cardinality(x..y) = IF x > y THEN 0 ELSE y - x + 1
      <3> HIDE DEF x, y
      <3> QED  BY <2>2, FS_Interval
    <2>4. (IF x > y THEN 0 ELSE y - x + 1) = c
      BY <1>1, <2>1
    <2>5. priv \subseteq Signal
      BY <1>1, <2>1
    <2>6. priv = x..y
      OBVIOUS
    <2> HIDE DEF x, y, priv
    <2> QED  BY <2>3, <2>4, <2>5, <2>6
  <1>4. D \cap ins = priv \cap D
    BY <1>1
  <1>5. {s \in Signal \ D : s > l /\ s <= l + c} = priv \ D
    BY <1>1, <1>3
  <1> HIDE DEF priv, ins, l
  <1>6. Cardinality(priv \ D) = Cardinality(priv) - Cardinality(priv \cap D)
    BY <1>3, FS_Difference
  <1>7. c - Cardinality(D \cap ins) = Cardinality({s \in Signal \ D : s > l /\ s <= l + c})
    BY <1>3, <1>4, <1>5, <1>6
  <1>8. {s \in Signal \ D : s > Cardinality(Public) /\ s <= Cardinality(Public) + NoPrivateInputs}
          = {s \in Signal \ D : s > l /\ s <= l + c}
    BY <1>2
  <1> QED  BY <1>7, <1>8 DEF ins

\* Constraints that follow those that are listed, listed after them.
LEMMA AppendedList ==
    ASSUME NEW a \in Seq(CleanCon), NEW cs \in Seq(CleanCon), NEW lst \in Lists(DOMAIN a),
           Listing(a, lst), \A i \in DOMAIN a : i \in DOMAIN cs /\ cs[i] = a[i],
           NEW ids \in SUBSET DOMAIN cs, \A i \in DOMAIN cs : i \in DOMAIN a \/ i \in ids
    PROVE  /\ AllSignalsOf(cs) \subseteq DOMAIN ListIn(lst, cs, ids)
           /\ ListIn(lst, cs, ids) \in Lists(DOMAIN cs)
  <1> DEFINE old == DOMAIN a
             r == ListIn(lst, cs, ids)
  <1>1. old \in SUBSET DOMAIN cs /\ old \cup ids = DOMAIN cs
    OBVIOUS
  <1>2. ListedIn(cs, old, lst)
    BY DEF ListedIn, Listing
  <1>3. lst \in Lists(old) /\ r = ListIn(lst, cs, ids)
    OBVIOUS
  <1> HIDE DEF old, r
  <1>4. r \in Lists(DOMAIN cs) /\ ListedIn(cs, old \cup ids, r)
    BY <1>1, <1>2, <1>3, ListInIs
  <1> QED  BY <1>1, <1>4 DEF ListedIn, AllSignalsOf, r

\* The linear constraints that are left join the storage, signals of no constraint are removed
\* unless they must stay, and the others get their places: the layout is as promised, and
\* the constraints with the log still say what the circuit said.
LEMMA RebuildWitnessKeeps ==
    ASSUME IInv, RebuildWitness
    PROVE  IInv'
  <1> DEFINE fix == FixedOnes(lconst)
             sto == storage \o linear \o fix
             lst == ListIn(listed, sto, Len(storage) + 1..Len(sto))
             wit == Witness(lst, deleted)
             ins == NoPublicOutputs + 1..NoPublicOutputs + NoPublicInputs + NoPrivateInputs
  <1>1. /\ stage = "witness" /\ storage' = NonEmpty(sto)
        /\ deleted' = wit.deleted /\ signalMap' = wit.map
        /\ inputsKept' = NoPrivateInputs - Cardinality(wit.deleted \cap ins)
        /\ stage' = "done"
    BY DEF RebuildWitness, NonEmpty, Those, FixedOnes, Each
  <1>2. UNCHANGED <<circuit, options, equalities, consEqualities, linear, lconst, single, cons,
                    linearSubs, clusters, job, subs, log>>
    BY DEF RebuildWitness, lists, frames, pass
  <1>3. /\ Typed /\ AtWitness /\ Stored /\ Logged /\ circuit \in Circuits
        /\ linear \in Seq(CleanLinear) /\ lconst \in Seq(Linear) /\ storage \in Seq(CleanCon)
        /\ deleted \in SUBSET (Signal \ Forbidden)
    BY <1>1 DEF IInv, Stages, Typed, AtWitness, Removable
  <1>4. /\ fix \in Seq(CleanLinear) /\ AllSignalsOf(fix) \subseteq AllSignalsOf(lconst)
        /\ \A v \in Valuations : AllHold(fix, v) <=> AllHold(lconst, v)
    BY <1>3, FixedOnesAre
  <1>5. linear \in Seq(CleanCon) /\ fix \in Seq(CleanCon)
    <2>1. \A cs \in Seq(CleanLinear) : \A i \in DOMAIN cs : cs[i] \in CleanCon
      BY ConIs
    <2> HIDE DEF fix
    <2> QED  BY <2>1, <1>3, <1>4, SequenceOf
  <1> HIDE DEF fix
  <1> DEFINE b == linear \o fix
  <1>6. /\ b \in Seq(CleanCon) /\ AllSignalsOf(b) = AllSignalsOf(linear) \cup AllSignalsOf(fix)
        /\ \A v : AllHold(b, v) <=> AllHold(linear, v) /\ AllHold(fix, v)
    BY <1>5, JoinedSequences
  <1>7. sto = storage \o b
    BY <1>3, <1>5
  <1> HIDE DEF b, sto
  <1>8. /\ sto \in Seq(CleanCon) /\ AllSignalsOf(sto) = AllSignalsOf(storage) \cup AllSignalsOf(b)
        /\ \A v : AllHold(sto, v) <=> AllHold(storage, v) /\ AllHold(b, v)
    BY <1>3, <1>6, <1>7, JoinedSequences
  <1>9. AllSignalsOf(sto) \subseteq DOMAIN lst
    <2> DEFINE n == Len(storage)
               m == Len(sto)
               ids == n + 1..m
    <2>1. listed \in Lists(DOMAIN storage) /\ Listing(storage, listed)
      BY <1>3 DEF Stored
    <2>2. \A i \in DOMAIN storage : i \in DOMAIN sto /\ sto[i] = storage[i]
      BY <1>3, <1>6, <1>7, JoinedSequences
    <2>3. n \in Nat /\ DOMAIN storage = 1..n /\ m \in Nat /\ DOMAIN sto = 1..m
      BY <1>3, <1>8
    <2>4. lst = ListIn(listed, sto, ids)
      BY DEF lst
    <2> HIDE DEF lst, n, m
    <2>5. ids \in SUBSET DOMAIN sto /\ \A i \in DOMAIN sto : i \in DOMAIN storage \/ i \in ids
      BY <2>3
    <2> HIDE DEF ids
    <2> QED  BY <2>1, <2>2, <2>4, <2>5, <1>3, <1>8, AppendedList
  <1>10. AllSignalsOf(sto) \cap deleted = {}
    BY <1>3, <1>4, <1>6, <1>8 DEF Stored, AtWitness
  <1> HIDE DEF lst
  <1>11. PICK m : Placed(lst, deleted, NoLabels, m, wit)
    BY <1>3, WitnessIs
  <1> HIDE DEF wit
  <1> DEFINE K == DOMAIN wit.map
  <1>m. wit.map = wit.map /\ K = DOMAIN wit.map
    OBVIOUS
  <1> HIDE DEF K
  <1>d. deleted \in SUBSET (Signal \ Forbidden) /\ circuit \in Circuits
    BY <1>3
  <1>l. LayoutHolds(lst, deleted, wit, K)
    BY <1>d, <1>m, <1>11, LayoutIs, Zenon
  <1>12. /\ K = Signal \ wit.deleted /\ wit.deleted = deleted \cup Unlisted(lst)
         /\ \A s \in {One} \cup Public : wit.map[s] = s
         /\ \A s, t \in K : s < t => wit.map[s] < wit.map[t]
         /\ {wit.map[s] : s \in K} = 0..Cardinality(K) - 1
    BY <1>l DEF LayoutHolds
  <1>13. /\ storage' \in Seq(CleanCon) /\ AllSignalsOf(storage') \subseteq AllSignalsOf(sto)
         /\ \A v \in Valuations : AllHold(storage', v) <=> AllHold(sto, v)
    BY <1>1, <1>8, NonEmptyAre
  <1>14. wit.deleted \subseteq Removable /\ wit.deleted \in SUBSET Signal
         /\ wit.deleted \cap Forbidden = {} /\ deleted \subseteq wit.deleted
    BY <1>3, <1>12 DEF Removable, Unlisted
  <1>15. /\ Forbidden' = Forbidden /\ Removable' = Removable /\ Logs' = Logs /\ Removals' = Removals
         /\ ConstantsAgree' = ConstantsAgree
         /\ \A v : (Source(v)' <=> Source(v))
    BY <1>2, SameCircuit
  <1>16. Typed'
    BY <1>1, <1>2, <1>3, <1>13, <1>14, <1>15 DEF Typed
  <1>17. Logged'
    <2>1. Gone(log') \subseteq deleted'
      BY <1>1, <1>2, <1>3, <1>14 DEF Logged
    <2>2. Extendable(deleted, log) => Extendable(deleted', log')
      BY <1>1, <1>2, <1>14 DEF Extendable
    <2> QED  BY <2>1, <2>2, <1>3, <1>15 DEF Logged
  <1>18. Kept' = Signal \ deleted' /\ Kept' = K
    <2>1. Kept' = DOMAIN signalMap'
      BY DEF Kept
    <2> QED  BY <2>1, <1>1, <1>12, <1>m
  <1>19. AllSignalsOf(storage') \cap wit.deleted = {}
    <2>1. AllSignalsOf(sto) \cap Unlisted(lst) = {}
      BY <1>9 DEF Unlisted
    <2> QED  BY <2>1, <1>10, <1>12, <1>13
  <1>20. AllSignalsOf(storage') \cup Forbidden' \subseteq Kept'
    <2>1. AllSignalsOf(storage') \subseteq Signal
      <3>1. \A i \in DOMAIN storage' : storage'[i] \in Con
        BY <1>13, ConIs
      <3>2. \A i \in DOMAIN storage' : SignalsOf(storage'[i]) \subseteq Signal
        BY <3>1, ConIs
      <3> QED  BY <3>2 DEF AllSignalsOf
    <2>2. Forbidden \subseteq Signal
      BY <1>3, Constraints
    <2> QED  BY <2>1, <2>2, <1>12, <1>14, <1>15, <1>18, <1>19
  <1>21. inputsKept' = Cardinality({s \in Kept' : s > Cardinality(Public)
                                      /\ s <= Cardinality(Public) + NoPrivateInputs})
    <2> DEFINE D == wit.deleted
    <2>1. D \in SUBSET Signal /\ D \cap Public = {}
      BY <1>14 DEF Forbidden
    <2>2. inputsKept' = NoPrivateInputs - Cardinality(D \cap ins) /\ Kept' = Signal \ D
      BY <1>1, <1>12, <1>18
    <2> HIDE DEF D
    <2> QED  BY <2>1, <2>2, InputsAre
  <1>22. /\ \A s \in {One} \cup Public : signalMap'[s] = s
         /\ \A s, t \in Kept' : s < t => signalMap'[s] < signalMap'[t]
         /\ {signalMap'[s] : s \in Kept'} = 0..Cardinality(Kept') - 1
    BY <1>1, <1>12, <1>18
  <1>23. WitnessLayout'
    BY <1>20, <1>21, <1>22 DEF WitnessLayout, Kept
  <1>24. job' = Idle'
    BY <1>2, <1>3 DEF AtWitness, Idle
  <1>25. \A v \in Valuations : Source(v)' <=> AllHold(storage', v) /\ Obeys(v, log')
    <2> TAKE v \in Valuations
    <2>1. Source(v) <=> /\ AllHold(linear, v) /\ AllHold(storage, v) /\ AllHold(lconst, v)
                        /\ Obeys(v, log)
      BY <1>3 DEF AtWitness
    <2> QED  BY <2>1, <1>2, <1>4, <1>6, <1>8, <1>13, <1>15
  <1>26. AtDone'
    BY <1>17, <1>18, <1>23, <1>24, <1>25 DEF AtDone
  <1> QED  BY <1>1, <1>16, <1>26 DEF IInv, Stages

-----------------------------------------------------------------------------
(* The theorems *)

\* A value needs no more than the values of the signals that have an entry.
LEMMA ValueOfPart ==
    ASSUME NEW e \in Expr, NEW v \in [Signal -> Field], NEW u, \A s \in DOMAIN e : u[s] = v[s]
    PROVE  Value(e, u) = Value(e, v)
  <1>1. ASSUME NEW W  PROVE  Table(e, u, W) <=> Table(e, v, W)
    <2> DEFINE D == DOMAIN e
               f == [T \in SUBSET D |->
                       IF T = {} THEN 0
                       ELSE e[CHOOSE x \in T : TRUE] * u[CHOOSE x \in T : TRUE]
                            + W[T \ {CHOOSE x \in T : TRUE}]]
               g == [T \in SUBSET D |->
                       IF T = {} THEN 0
                       ELSE e[CHOOSE x \in T : TRUE] * v[CHOOSE x \in T : TRUE]
                            + W[T \ {CHOOSE x \in T : TRUE}]]
    <2>1. \A T \in SUBSET D : T # {} => (CHOOSE x \in T : TRUE) \in D
      OBVIOUS
    <2>2. \A T \in SUBSET D : T # {} => u[CHOOSE x \in T : TRUE] = v[CHOOSE x \in T : TRUE]
      BY <2>1
    <2>3. f = g
      <3> HIDE DEF D
      <3> QED  BY <2>2
    <2> HIDE DEF f, g
    <2> QED  BY <2>3 DEF Table, f, g
  <1> DEFINE X == CHOOSE W : Table(e, u, W)
             Y == CHOOSE W : Table(e, v, W)
             D == DOMAIN e
  <1>2. Table(e, v, X) /\ Table(e, v, Y)
    BY <1>1, ValueTableExists
  <1>3. Value(e, u) = X[D] % P /\ Value(e, v) = Y[D] % P
    BY ValueTable
  <1> HIDE DEF X, Y
  <1>4. X[D] = Y[D]
    <2> DEFINE Q == {T \in SUBSET D : X[T] = Y[T]}
    <2>1. ASSUME NEW T \in SUBSET D, \A x \in T : T \ {x} \in Q  PROVE  T \in Q
      <3>1. CASE T = {}
        <4>1. X[T] = 0 /\ Y[T] = 0
          BY <3>1, <1>2 DEF Table
        <4> QED  BY <4>1
      <3>2. CASE T # {}
        <4> DEFINE y == CHOOSE x \in T : TRUE
        <4>1. y \in T
          BY <3>2
        <4>2. X[T] = e[y] * v[y] + X[T \ {y}] /\ Y[T] = e[y] * v[y] + Y[T \ {y}]
          BY <3>2, <1>2 DEF Table
        <4>3. X[T \ {y}] = Y[T \ {y}]
          BY <2>1, <4>1
        <4> HIDE DEF y
        <4> QED  BY <4>2, <4>3
      <3> QED  BY <3>1, <3>2
    <2> HIDE DEF Q
    <2>2. IsFiniteSet(D)
      BY ExprIs
    <2>3. \A T \in SUBSET D : T \in Q
      BY <2>1, <2>2, SubsetsInduct
    <2> QED  BY <2>3 DEF Q
  <1> QED  BY <1>3, <1>4

\* So does a constraint.
LEMMA HoldsOnPart ==
    ASSUME NEW con \in Con, NEW v \in [Signal -> Field], NEW u,
           \A s \in SignalsOf(con) \cup {One} : u[s] = v[s]
    PROVE  Holds(con, u) <=> Holds(con, v)
  <1>1. con.a \in Expr /\ con.b \in Expr /\ con.c \in Expr
    BY DEF Con
  <1>2. DOMAIN con.a \cup DOMAIN con.b \cup DOMAIN con.c \subseteq SignalsOf(con) \cup {One}
    BY DEF SignalsOf
  <1>3. Value(con.a, u) = Value(con.a, v)
    BY <1>1, <1>2, ValueOfPart
  <1>4. Value(con.b, u) = Value(con.b, v)
    BY <1>1, <1>2, ValueOfPart
  <1>5. Value(con.c, u) = Value(con.c, v)
    BY <1>1, <1>2, ValueOfPart
  <1> QED  BY <1>3, <1>4, <1>5 DEF Holds

\* The assignments to some of the signals.
LEMMA AssignmentsOf ==
    ASSUME NEW S \in SUBSET Signal, One \in S
    PROVE  Assignments(S) = {v \in [S -> Field] : v[One] = 1}
  <1>1. ASSUME NEW v \in Assignments(S)  PROVE  v \in [S -> Field] /\ v[One] = 1
    <2>1. PICK u \in [S \ {One} -> Field] : v = Only(One, 1) ++ u
      BY DEF Assignments
    <2>2. v = [s \in S |-> IF s = One THEN 1 ELSE u[s]]
      BY <2>1 DEF Only, ++
    <2> QED  BY <2>2, Numbers
  <1>2. ASSUME NEW v \in [S -> Field], v[One] = 1  PROVE  v \in Assignments(S)
    <2> DEFINE u == [s \in S \ {One} |-> v[s]]
    <2>1. u \in [S \ {One} -> Field]
      OBVIOUS
    <2>2. v = [s \in S |-> IF s = One THEN 1 ELSE u[s]]
      BY <1>2
    <2>3. Only(One, 1) ++ u = [s \in S |-> IF s = One THEN 1 ELSE u[s]]
      BY DEF Only, ++
    <2> QED  BY <2>1, <2>2, <2>3 DEF Assignments
  <1> QED  BY <1>1, <1>2

\* The solutions of the circuit as it was generated.
LEMMA OriginalIs == Original = {v \in Valuations : Source(v)}
  BY AssignmentsAre DEF Original, Solutions, Source, AllHold

\* At the end, the statement of the circuit is the same.
LEMMA StatementIsKept ==
    ASSUME IInv, stage = "done", ConstantsAgree
    PROVE  StatementKept
  <1>1. /\ AtDone /\ Extendable(deleted, log) /\ storage \in Seq(CleanCon) /\ circuit \in Circuits
        /\ deleted \subseteq Removable
    BY DEF IInv, Stages, Typed, AtDone, Logged
  <1> DEFINE K == Kept
  <1>2. K = Signal \ deleted /\ AllSignalsOf(storage) \subseteq K /\ One \in K /\ K \in SUBSET Signal
    BY <1>1, Constraints DEF AtDone, WitnessLayout
  <1>3. \A i \in DOMAIN storage : storage[i] \in Con /\ SignalsOf(storage[i]) \cup {One} \subseteq K
    BY <1>1, <1>2, ConIs DEF AllSignalsOf
  <1>4. \A v \in Valuations : Source(v) <=> AllHold(storage, v) /\ Obeys(v, log)
    BY <1>1 DEF AtDone
  <1> HIDE DEF K
  <1>5. Solutions(storage, K) = {u \in [K -> Field] : u[One] = 1 /\ AllHold(storage, u)}
    BY <1>2, AssignmentsOf DEF Solutions, AllHold
  <1>6. ASSUME NEW v \in Valuations, NEW u, \A s \in K : u[s] = v[s]
        PROVE  AllHold(storage, u) <=> AllHold(storage, v)
    <2>1. ASSUME NEW i \in DOMAIN storage  PROVE  Holds(storage[i], u) <=> Holds(storage[i], v)
      BY <1>3, <1>6, HoldsOnPart DEF Valuations
    <2> QED  BY <2>1 DEF AllHold
  <1>7. ASSUME NEW v \in Original  PROVE  Restrict(v, K) \in Solutions(storage, K)
    <2>1. v \in Valuations /\ AllHold(storage, v)
      BY <1>4, OriginalIs
    <2> DEFINE u == Restrict(v, K)
    <2>2. u = [s \in K |-> v[s]]
      BY DEF Restrict
    <2>3. u \in [K -> Field] /\ u[One] = 1 /\ \A s \in K : u[s] = v[s]
      BY <2>1, <2>2, <1>2 DEF Valuations
    <2>4. AllHold(storage, u)
      BY <2>1, <2>3, <1>6
    <2> QED  BY <2>3, <2>4, <1>5
  <1>8. ASSUME NEW u \in Solutions(storage, K)
        PROVE  \E v \in Original : u = Restrict(v, K)
    <2>1. u \in [K -> Field] /\ u[One] = 1 /\ AllHold(storage, u)
      BY <1>5
    <2> DEFINE w == [s \in Signal |-> IF s \in K THEN u[s] ELSE 0]
    <2>2. w \in Valuations /\ \A s \in K : w[s] = u[s]
      BY <2>1, <1>2, Numbers DEF Valuations
    <2> HIDE DEF w
    <2>3. PICK v \in Valuations : (\A s \in Signal \ deleted : v[s] = w[s]) /\ Obeys(v, log)
      BY <2>2, <1>1 DEF Extendable
    <2>4. \A s \in K : u[s] = v[s]
      BY <2>2, <2>3, <1>2
    <2>5. AllHold(storage, v)
      BY <2>1, <2>4, <1>6
    <2>6. v \in Original
      BY <2>3, <2>5, <1>4, OriginalIs
    <2>7. u = Restrict(v, K)
      BY <2>1, <2>4 DEF Restrict
    <2> QED  BY <2>6, <2>7
  <1>9. {Restrict(v, K) : v \in Original} = Solutions(storage, K)
    BY <1>7, <1>8
  <1> QED  BY <1>2, <1>9 DEF StatementKept, K

\* A step that changes nothing keeps the invariant: each part of it is about the state alone.
LEMMA StutteringKeeps ==
    ASSUME IInv, UNCHANGED vars
    PROVE  IInv'
  <1>1. /\ UNCHANGED <<circuit, options, stage, equalities, consEqualities, linear, lconst, single,
                       cons, linearSubs, clusters, job, subs, deleted, storage, listed, log,
                       signalMap, inputsKept>>
    BY DEF vars, lists, frames, pass, result
  <1>2. /\ Forbidden' = Forbidden /\ Removable' = Removable /\ Logs' = Logs /\ Removals' = Removals
        /\ NonLinear' = NonLinear /\ ConstantsAgree' = ConstantsAgree
        /\ \A v : (Source(v)' <=> Source(v)) /\ (Simple(v)' <=> Simple(v))
    BY <1>1, SameCircuit
  <1>3. \A s : Renamed(s)' = Renamed(s)
    BY <1>1, SameNames
  <1>4. JobSignals' = JobSignals /\ (LessOccurrences' <=> LessOccurrences) /\ Kept' = Kept /\ Idle' = Idle
    BY <1>1 DEF JobSignals, LessOccurrences, FewOccurrencesFirst, Kept, Idle
  <1>5. Typed'
    BY <1>1, <1>2 DEF IInv, Typed
  <1>6. (Framed' <=> Framed) /\ (Logged' <=> Logged) /\ (Stored' <=> Stored)
    <2>1. Framed' <=> Framed
      BY <1>1, <1>3 DEF Framed
    <2>2. Logged' <=> Logged
      BY <1>1, <1>2 DEF Logged
    <2>3. Stored' <=> Stored
      BY <1>1 DEF Stored
    <2> QED  BY <2>1, <2>2, <2>3
  <1>7. (JobFits' <=> JobFits) /\ (UniquesFit' <=> UniquesFit)
    <2>1. EarlierFree' <=> EarlierFree
      BY <1>1, <1>2, <1>4 DEF EarlierFree
    <2>2. JobFits' <=> JobFits
      BY <1>1, <1>2, <1>4, <2>1 DEF JobFits
    <2>3. UniquesFit' <=> UniquesFit
      BY <1>1, <1>2, <1>4 DEF UniquesFit
    <2> QED  BY <2>2, <2>3
  <1>8. (Eliminating' <=> Eliminating) /\ \A v : (ClustersMean(v)' <=> ClustersMean(v))
    <2>1. Eliminating' <=> Eliminating
      BY <1>1, <1>2, <1>4, <1>6, <1>7 DEF Eliminating
    <2>2. \A v : (JobHolds(v)' <=> JobHolds(v))
      BY <1>1 DEF JobHolds
    <2>3. \A v : (ClustersMean(v)' <=> ClustersMean(v))
      BY <1>1, <2>2 DEF ClustersMean
    <2> QED  BY <2>1, <2>3
  <1>9. AtEqualities' <=> AtEqualities
    BY <1>1, <1>2, <1>4 DEF AtEqualities
  <1>10. AtConstants' <=> AtConstants
    BY <1>1, <1>2, <1>3, <1>4, <1>6 DEF AtConstants
  <1>11. AtLinear' <=> AtLinear
    BY <1>1, <1>2, <1>3, <1>6, <1>8 DEF AtLinear
  <1>12. AtNonLinear' <=> AtNonLinear
    BY <1>1, <1>2, <1>3, <1>4, <1>6 DEF AtNonLinear
  <1>13. AtRound' <=> AtRound
    BY <1>1, <1>2, <1>6, <1>8 DEF AtRound
  <1>14. AtWitness' <=> AtWitness
    BY <1>1, <1>2, <1>4, <1>6 DEF AtWitness
  <1>15. AtDone' <=> AtDone
    <2>1. WitnessLayout' <=> WitnessLayout
      BY <1>1, <1>2, <1>4 DEF WitnessLayout
    <2> QED  BY <1>1, <1>2, <1>4, <1>6, <2>1 DEF AtDone
  <1>16. Stages'
    BY <1>1, <1>9, <1>10, <1>11, <1>12, <1>13, <1>14, <1>15 DEF IInv, Stages
  <1> QED  BY <1>5, <1>16 DEF IInv

\* Every step of the simplification keeps the invariant: a case for each action.
LEMMA StepKeeps ==
    ASSUME IInv, [Next]_vars
    PROVE  IInv'
  <1>1. ASSUME NEW cl, SimplifyEqualities(cl)  PROVE  IInv'
    BY <1>1, SimplifyEqualitiesKeeps
  <1>2. CASE FinishEqualities
    BY <1>2, FinishEqualitiesKeeps
  <1>3. CASE SimplifyConstant
    BY <1>3, SimplifyConstantKeeps
  <1>4. CASE FinishConstants
    BY <1>4, FinishConstantsKeeps
  <1>5. ASSUME NEW cl, StartCluster(cl)  PROVE  IInv'
    BY <1>5, StartClusterKeeps
  <1>6. CASE Elimination
    <2>1. CASE TakeUnique
      BY <2>1, TakeUniqueKeeps
    <2>2. ASSUME NEW i \in DOMAIN job.todo, TakeConstraint(i)  PROVE  IInv'
      BY <2>2, TakeConstraintKeeps
    <2>3. CASE KeepConstraint
      BY <2>3, KeepConstraintKeeps
    <2>4. ASSUME NEW s \in Signal, Eliminate(s)  PROVE  IInv'
      BY <2>4, EliminateKeeps
    <2>5. ASSUME NEW s \in Signal, Merge(s)  PROVE  IInv'
      BY <2>5, MergeKeeps
    <2>6. CASE FinishCluster
      BY <2>6, FinishClusterKeeps
    <2> QED  BY <1>6, <2>1, <2>2, <2>3, <2>4, <2>5, <2>6, Zenon DEF Elimination
  <1>7. CASE FinishLinear
    BY <1>7, FinishLinearKeeps
  <1>8. CASE SimplifyNonLinear
    BY <1>8, SimplifyNonLinearKeeps
  <1>9. CASE FinishRound
    BY <1>9, FinishRoundKeeps
  <1>10. CASE RebuildWitness
    BY <1>10, RebuildWitnessKeeps
  <1>11. CASE Done
    BY <1>11, StutteringKeeps DEF Done
  <1>12. CASE UNCHANGED vars
    BY <1>12, StutteringKeeps
  <1> QED  BY <1>1, <1>2, <1>3, <1>4, <1>5, <1>6, <1>7, <1>8, <1>9, <1>10, <1>11, <1>12, Zenon DEF Next

\* The invariant holds from the lists of constraints (map_tree) to the new witness
\* (rebuild_witness), in whatever order the clusters and their constraints are taken.
THEOREM Invariant == Spec => []IInv
  <1>1. Init => IInv
    BY AtStart
  <1>2. IInv /\ [Next]_vars => IInv'
    BY StepKeeps
  <1> QED  BY <1>1, <1>2, PTL DEF Spec

(* The witness has every signal of a constraint, the public signals, the   *)
(* inputs and the signals of custom gates at places without gaps, in the   *)
(* order of the signals, and the private inputs in it are counted          *)
(* (rebuild_witness), for every circuit over every prime field.            *)
THEOREM LayoutIsRight == Spec => []WitnessLayout
  <1>1. IInv => WitnessLayout
    BY DEF IInv, Stages, AtDone, WitnessLayout
  <1> QED  BY <1>1, Invariant, PTL

(* A signal is removed only for an expression that has its value in every  *)
(* solution of the circuit: the substitutions written to the log           *)
(* (log_substitutions) are so, and the signals they replace are no longer  *)
(* in the witness.                                                         *)
THEOREM LoggedReplacementsHold == Spec => []ReplacementsHold
  <1>1. ASSUME IInv, stage = "done", NEW r \in log
        PROVE  r.from \notin Kept /\ \A v \in Original : v[r.from] = Value(r.to, v)
    <2>1. AtDone
      BY <1>1 DEF IInv, Stages
    <2>2. r.from \in deleted /\ Kept = Signal \ deleted
      BY <1>1, <2>1 DEF AtDone, Logged, Gone
    <2>3. ASSUME NEW v \in Original  PROVE  v[r.from] = Value(r.to, v)
      <3>1. v \in Valuations /\ Source(v)
        BY OriginalIs
      <3> QED  BY <1>1, <2>1, <3>1 DEF AtDone, Obeys
    <2> QED  BY <2>2, <2>3
  <1>2. IInv => ReplacementsHold
    BY <1>1 DEF ReplacementsHold
  <1> QED  BY <1>2, Invariant, PTL

(* The simplified circuit makes the same statement as the one the program  *)
(* generated (simplification, and all the passes it runs): the values of   *)
(* the signals that are left which satisfy its constraints are those of    *)
(* the solutions of the original, nothing more and nothing less.           *)
THEOREM StatementIsTheSame == Spec => []ConsistentStatementKept
  <1>1. IInv => ConsistentStatementKept
    BY StatementIsKept DEF ConsistentStatementKept
  <1> QED  BY <1>1, Invariant, PTL

\* A sequence without repetitions is as long as the set of its elements.
LEMMA OrderIs ==
    ASSUME NEW q \in Seq(Signal), NEW D, \A i \in DOMAIN q : q[i] \in D,
           \A s \in D : \E i \in DOMAIN q : q[i] = s,
           \A i, j \in DOMAIN q : i # j => q[i] # q[j]
    PROVE  ToSet(q) = D /\ Len(q) = Cardinality(D)
  <1>1. ToSet(q) = D
    BY DEF ToSet
  <1>2. q \in [1..Len(q) -> D] /\ Len(q) \in Nat
    OBVIOUS
  <1>3. q \in Bijection(1..Len(q), D)
    BY <1>2 DEF Bijection, Injection, Surjection, IsInjective
  <1>4. ExistsBijection(1..Len(q), D)
    BY <1>3 DEF ExistsBijection
  <1>5. Cardinality(D) = Len(q)
    BY <1>2, <1>4, FS_CountingElements
  <1> QED  BY <1>1, <1>5

(* The assertions and unwraps of the simplification hold: no division by   *)
(* zero in clear_signal and normalize_substitutions, a count for every     *)
(* signal that take_signal_4 compares, and for each signal of the order    *)
(* the one definition that create_nonoverlapping_substitutions expects.    *)
THEOREM NothingPanics == Spec => []NoPanic
  <1>1. ASSUME IInv, stage = "constants", consEqualities # <<>>
        PROVE  /\ SignalsOf(Head(consEqualities)) # {}
               /\ \A s \in SignalsOf(Head(consEqualities)) : Head(consEqualities).c[s] # 0
    <2> DEFINE con == Head(consEqualities)
    <2>1. consEqualities \in Seq(OneSignal)
      BY <1>1 DEF IInv, Typed
    <2>2. con \in OneSignal
      BY <1>1, <2>1
    <2> HIDE DEF con
    <2>3. con \in CleanLinear /\ SignalsOf(con) # {}
      BY <2>2 DEF OneSignal
    <2>4. \A s \in SignalsOf(con) : con.c[s] # 0
      BY <2>3 DEF CleanLinear, Clean, SignalsOf, Zero
    <2> QED  BY <2>3, <2>4 DEF con
  <1>2. ASSUME IInv, Working
        PROVE  LET con == job.work[1]
               IN  /\ \A s \in DOMAIN con.c : con.c[s] # 0
                   /\ LessOccurrences => Takeable(con) \ DOMAIN job.holder \subseteq DOMAIN job.occurrences
    <2> DEFINE con == job.work[1]
    <2>1. con \in CleanLinear /\ SignalsOf(con) \subseteq JobSignals /\ Eliminating /\ circuit \in Circuits
      BY <1>2, InWork DEF Typed
    <2> HIDE DEF con
    <2>2. \A s \in DOMAIN con.c : con.c[s] # 0
      BY <2>1 DEF CleanLinear, Clean
    <2>3. Takeable(con) \subseteq JobSignals \ Forbidden
      BY <2>1, Constraints DEF Takeable, SignalsOf
    <2>4. LessOccurrences => DOMAIN job.occurrences = (JobSignals \ Forbidden) \ DOMAIN job.holder
      BY <2>1 DEF Eliminating, JobFits
    <2> QED  BY <2>2, <2>3, <2>4 DEF con
  <1>3. ASSUME IInv
        PROVE  /\ \A s \in DOMAIN job.holder : job.holder[s].coef # 0
               /\ ToSet(job.order) = DOMAIN job.holder
               /\ Len(job.order) = Cardinality(DOMAIN job.holder)
    <2> DEFINE h == job.holder
               q == job.order
    <2>1. h \in [DOMAIN h -> Definition] /\ q \in Seq(Signal)
      BY <1>3, JobIs DEF IInv, Typed
    <2>2. JobFits
      <3>1. CASE job = Idle
        BY <3>1, IdleIs
      <3>2. CASE job # Idle
        BY <1>3, <3>2, Busy, InElimination DEF Eliminating
      <3> QED  BY <3>1, <3>2
    <2>3. /\ \A i \in DOMAIN q : q[i] \in DOMAIN h
          /\ \A s \in DOMAIN h : \E i \in DOMAIN q : q[i] = s
          /\ \A i, j \in DOMAIN q : i # j => q[i] # q[j]
      BY <2>2 DEF JobFits
    <2> HIDE DEF h, q
    <2>4. \A s \in DOMAIN h : h[s].coef \in 1..P - 1
      BY <2>1 DEF Definition
    <2>5. ToSet(q) = DOMAIN h /\ Len(q) = Cardinality(DOMAIN h)
      BY <2>1, <2>3, OrderIs
    <2>6. \A s \in DOMAIN h : h[s].coef # 0
      BY <2>4
    <2> QED  BY <2>5, <2>6 DEF h, q
  <1>4. IInv => NoPanic
    BY <1>1, <1>2, <1>3 DEF NoPanic
  <1> QED  BY <1>4, Invariant, PTL
=============================================================================
