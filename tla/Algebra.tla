------------------------------- MODULE Algebra -------------------------------
(***************************************************************************)
(* Expressions, constraints and substitutions over a prime field, as       *)
(* circom_algebra represents them.  A linear expression is a map from the  *)
(* signals that have an entry to coefficients; an entry may be zero, and   *)
(* the key 0 (constant_coefficient) carries the constant.  A constraint    *)
(* [a, b, c] means a*b - c = 0.                                            *)
(***************************************************************************)
EXTENDS Integers, SequencesExt

CONSTANT P   \* the order of the field

ASSUME FieldAssumption ==
    P \in Nat /\ P > 1 /\ \A d \in 2..P - 1 : P % d # 0

One  == 0
Zero == <<>>

InverseOf(k) == CHOOSE i \in 1..P - 1 : (i * k) % P = 1

Coefficient(e, s) == IF s \in DOMAIN e THEN e[s] ELSE 0

\* The map with the one entry k at s, and f with the entries of g where it has none.
Only(s, k) == [t \in {s} |-> k]
f ++ g     == [s \in DOMAIN f \cup DOMAIN g |-> IF s \in DOMAIN f THEN f[s] ELSE g[s]]

WithConstant(e) == e ++ Only(One, 0)
Times(k, e)     == [s \in DOMAIN e |-> (k * e[s]) % P]
Plus(e, f)      == [s \in DOMAIN e \cap DOMAIN f |-> (e[s] + f[s]) % P] ++ e ++ f
NonZero(e)      == RestrictValues(e, LAMBDA v : v # 0)
Without(e, s)   == Restrict(e, DOMAIN e \ {s})
IsConstant(e)   == DOMAIN e = {One}

LinearConstraint(e) == [a |-> Zero, b |-> Zero, c |-> e]
EmptyConstraint     == LinearConstraint(Zero)
IsLinear(con)       == DOMAIN con.a = {} /\ DOMAIN con.b = {}
SignalsOf(con)      == (DOMAIN con.a \cup DOMAIN con.b \cup DOMAIN con.c) \ {One}

\* `signal = signal`, with opposite coefficients and no constant
IsEquality(con) ==
    /\ IsLinear(con)
    /\ One \notin DOMAIN con.c /\ Cardinality(DOMAIN con.c) = 2
    /\ \A s, t \in DOMAIN con.c : s # t => con.c[s] = (-con.c[t]) % P
\* `signal = constant`
IsConstantEquality(con) ==
    IsLinear(con) /\ Cardinality(DOMAIN con.c) = (IF One \in DOMAIN con.c THEN 2 ELSE 1)

\* Replace `from` by `to` wherever it has an entry; nothing is tidied up.
RawSubstitution(e, from, to) ==
    LET w == WithConstant(e)
    IN  IF from \notin DOMAIN w THEN w
        ELSE Plus(Times(w[from], WithConstant(to)), Without(w, from))
Substituted(con, from, to) ==
    [a |-> RawSubstitution(con.a, from, to),
     b |-> RawSubstitution(con.b, from, to),
     c |-> RawSubstitution(con.c, from, to)]

\* Drop zero entries, and turn a product with a constant into a linear term.
ConstantReduction(k, e, c) ==
    LinearConstraint(NonZero(Plus(Times(-k[One], WithConstant(e)), WithConstant(c))))
Fixed(con) ==
    LET a == NonZero(con.a) b == NonZero(con.b) c == NonZero(con.c)
    IN  IF a = Zero \/ b = Zero THEN LinearConstraint(c)
        ELSE IF IsConstant(a) THEN ConstantReduction(a, b, c)
        ELSE IF IsConstant(b) THEN ConstantReduction(b, a, c)
        ELSE [a |-> a, b |-> b, c |-> c]

\* The signals of e that are in `subs`, replaced one after the other.
Replaced(e, subs) ==
    FoldSet(LAMBDA s, acc : RawSubstitution(acc, s, subs[s]), e,
            DOMAIN e \cap DOMAIN subs)
Touches(subs, con) == SignalsOf(con) \cap DOMAIN subs # {}
FastSubstitution(con, subs) ==
    FoldSet(LAMBDA s, acc : Substituted(acc, s, subs[s]), con,
            SignalsOf(con) \cap DOMAIN subs)
SubstitutedAndFixed(con, subs) ==
    IF Touches(subs, con) THEN Fixed(FastSubstitution(con, subs)) ELSE con

\* k * s = e, from a linear constraint in which s has coefficient -k
Cleared(con, s) == [coef |-> (-con.c[s]) % P, to |-> WithConstant(Without(con.c, s))]
\* Variant of Normal: the coefficient is forgotten.
NormalUndivided(cleared) == cleared.to
Normal(cleared) == Times(InverseOf(cleared.coef), cleared.to)

\* Two definitions of one signal: their difference, as a constraint.
Merged(left, right) ==
    LinearConstraint(NonZero(Times(-1, Plus(Times(right.coef, left.to),
                                            Times(-left.coef, right.to)))))
=============================================================================
