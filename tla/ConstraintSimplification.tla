---------------------- MODULE ConstraintSimplification ----------------------
(***************************************************************************)
(* The simplification of the constraints of a circuit                      *)
(* (constraint_simplification.rs, simplification_utils.rs).                *)
(*                                                                         *)
(* Signals are numbered 0..NoLabels-1: 0 is the constant one, then come    *)
(* the outputs, the public inputs and the private inputs of the main       *)
(* component, then everything else.  Three kinds of linear constraints are *)
(* removed in turn by substituting a signal that may be removed:           *)
(* equalities, constant equalities, and (O2) all the others by a lazy      *)
(* Gaussian elimination, cluster by cluster.  The non-linear constraints   *)
(* are then put in the storage, and as long as substitutions make some of  *)
(* them linear, further rounds follow.  At last the signals that are left  *)
(* get their places in the witness.                                        *)
(*                                                                         *)
(* Clusters are simplified by a pool of threads that share nothing but     *)
(* the set of forbidden signals; one is modelled as started, simplified    *)
(* and its result appended at a time, in any order.  The order of the      *)
(* constraints of a cluster is left open as well: it comes from the order  *)
(* of the program, of the merges, and of hash maps.                        *)
(***************************************************************************)
EXTENDS Algebra

CONSTANTS
    Circuits,            \* records [constraints, customGates]: constraints a
                         \* sequence, customGates the signals of custom gates
    Options,             \* records [linear, rounds, old]
    NoLabels,
    NoPublicOutputs, NoPublicInputs, NoPrivateInputs,
    LessOccurrencesMin,  \* size from which a cluster uses occurrences (350)
    MaxRounds            \* the rounds of O2 (usize::MAX)

Signal == 0..NoLabels - 1

\* The constraints come without zero entries (clean_constraints).
Clean == UNION {[D -> 1..P - 1] : D \in SUBSET Signal}

ASSUME CircuitsAssumption ==
    /\ NoLabels \in Nat
    /\ NoPublicOutputs \in Nat /\ NoPublicInputs \in Nat /\ NoPrivateInputs \in Nat
    /\ NoPublicOutputs + NoPublicInputs + NoPrivateInputs < NoLabels
    /\ LessOccurrencesMin \in Nat
    /\ \A o \in Options : o.linear \in BOOLEAN /\ o.old \in BOOLEAN
                          /\ o.rounds \in 0..MaxRounds
                          /\ (o.linear <=> o.rounds # 0)
    /\ \A circ \in Circuits :
          /\ circ.customGates \subseteq Signal
          /\ circ.constraints \in Seq([a : Clean, b : Clean, c : Clean])

VARIABLES
    circuit, options,
    stage,         \* "equalities", "constants", "linear", "nonlinear", "round",
                   \* "witness" or "done"
    equalities, consEqualities, linear,
    lconst,        \* the linear constraints that stay
    single, cons, linearSubs,   \* the substitutions of the three stages
    clusters,      \* the clusters still to simplify
    job,           \* the elimination of one cluster
    subs,          \* the substitutions of the clusters of this pass
    deleted,
    storage,       \* the constraint storage
    listed,        \* non_linear_map: the constraints listed under a signal
    rounds,        \* no_rounds
    log,           \* the substitutions written to the substitution log
    signalMap,     \* the place of a signal in the witness
    inputsKept     \* no_private_inputs_witness

lists  == <<equalities, consEqualities, linear, lconst>>
frames == <<single, cons, linearSubs>>
pass   == <<clusters, job, subs>>
result == <<signalMap, inputsKept>>
vars == <<circuit, options, stage, lists, frames, pass, deleted, storage, listed,
          rounds, log, result>>

\* The constraints of cs at the positions ids, and those that pass a test.
At(cs, ids) ==
    LET those[i \in 0..Len(cs)] ==
            IF i = 0 THEN <<>>
            ELSE IF i \in ids THEN Append(those[i - 1], cs[i]) ELSE those[i - 1]
    IN  those[Len(cs)]
Those(cs, Test(_)) == At(cs, {i \in DOMAIN cs : Test(cs[i])})

Public    == 1..NoPublicOutputs + NoPublicInputs
Forbidden == {One} \cup Public \cup circuit.customGates
NonLinear == Those(circuit.constraints, LAMBDA con : ~IsLinear(con))

AllSignalsOf(cs) == UNION {SignalsOf(cs[i]) : i \in DOMAIN cs}
\* (Concatenation makes TLC compute the elements once.)
Each(cs, Op(_))  == <<>> \o [i \in DOMAIN cs |-> Op(cs[i])]

\* The constraints connected by shared signals, as sets of positions; an
\* empty constraint is in no cluster.
AddToClusters(cs, cls, i) ==
    LET near == {cl \in cls : \E j \in cl : SignalsOf(cs[i]) \cap SignalsOf(cs[j]) # {}}
    IN  IF cs[i] = EmptyConstraint THEN cls ELSE (cls \ near) \cup {{i} \cup UNION near}
Clusters(cs) == FoldLeftDomain(LAMBDA cls, i : AddToClusters(cs, cls, i), {}, cs)

Idle == [cluster |-> {}, todo |-> <<>>, uniques |-> {}, occurrences |-> <<>>,
         work |-> <<>>, holder |-> <<>>, order |-> <<>>]

Init ==
    /\ circuit \in Circuits
    /\ options \in Options
    /\ LET con == circuit.constraints
           Rest(c) == IsLinear(c) /\ ~IsConstantEquality(c)
       IN  /\ consEqualities = Those(con, IsConstantEquality)
           /\ equalities = Those(con, LAMBDA c : Rest(c) /\ IsEquality(c))
           /\ linear = Those(con, LAMBDA c : Rest(c) /\ ~IsEquality(c))
    /\ stage = "equalities"
    /\ lconst = <<>> /\ single = <<>> /\ cons = <<>> /\ linearSubs = <<>>
    /\ clusters = Clusters(equalities)
    /\ job = Idle /\ subs = <<>>
    /\ deleted = {}
    /\ storage = <<>> /\ listed = <<>>
    /\ rounds = options.rounds
    /\ log = {}
    /\ signalMap = <<>> /\ inputsKept = 0

Log(s) == log' = log \cup {[from |-> t, to |-> s[t]] : t \in DOMAIN s}

-----------------------------------------------------------------------------
(* Equalities between signals: each cluster becomes one signal.            *)

\* The signal the others become: the least that must stay, or the least.
Representative(sigs) ==
    IF sigs \cap Forbidden # {} THEN Min(sigs \cap Forbidden) ELSE Min(sigs)

EqualTo(s, r) == LinearConstraint(Only(s, P - 1) ++ Only(r, 1) ++ Only(One, 0))

SimplifyEqualities(cl) ==
    LET sigs == UNION {SignalsOf(equalities[i]) : i \in cl}
        r    == Representative(sigs)
        left == SetToSeq((sigs \cap Forbidden) \ {r})
        new  == [s \in (sigs \ Forbidden) \ {r} |-> Only(r, 1)]
    IN  /\ stage = "equalities" /\ cl \in clusters
        /\ clusters' = clusters \ {cl}
        /\ single' = new ++ single
        /\ lconst' = lconst \o
              (IF Cardinality(cl) = 1 /\ left # <<>>
               THEN [i \in 1..1 |-> equalities[CHOOSE j \in cl : TRUE]]
               ELSE Each(left, LAMBDA s : EqualTo(s, r)))
        /\ Log(new)
        /\ UNCHANGED <<circuit, options, stage, equalities, consEqualities, linear, cons,
                       linearSubs, job, subs, deleted, storage, listed, rounds, result>>

\* The substitutions of signals of non-linear constraints are kept for them.
FinishEqualities ==
    /\ stage = "equalities" /\ clusters = {}
    /\ linear' = Each(linear, LAMBDA con : SubstitutedAndFixed(con, single))
    /\ consEqualities' = Each(consEqualities, LAMBDA con : SubstitutedAndFixed(con, single))
    /\ deleted' = DOMAIN single
    /\ single' = Restrict(single, DOMAIN single \cap AllSignalsOf(NonLinear))
    /\ stage' = "constants"
    /\ UNCHANGED <<circuit, options, equalities, lconst, cons, linearSubs, pass, storage,
                   listed, rounds, log, result>>

-----------------------------------------------------------------------------
(* Equalities with a constant, one after the other.                        *)

SimplifyConstant ==
    LET con == Head(consEqualities)
        s   == Max(SignalsOf(con))
        new == Only(s, NonZero(Normal(Cleared(con, s))))
    IN  /\ stage = "constants" /\ consEqualities # <<>>
        /\ consEqualities' = Tail(consEqualities)
        /\ IF s \in Forbidden
           THEN /\ lconst' = Append(lconst, con)
                /\ UNCHANGED <<cons, log>>
           ELSE /\ cons' = new ++ cons
                /\ Log(new)
                /\ UNCHANGED lconst
        /\ UNCHANGED <<circuit, options, stage, equalities, linear, single, linearSubs,
                       pass, deleted, storage, listed, rounds, result>>

\* O1 keeps the other linear constraints as they are now.
FinishConstants ==
    LET lin == Each(linear, LAMBDA con : SubstitutedAndFixed(con, cons))
    IN  /\ stage = "constants" /\ consEqualities = <<>>
        /\ deleted' = deleted \cup DOMAIN cons
        /\ IF options.linear
           THEN /\ linear' = lin /\ clusters' = Clusters(lin)
                /\ stage' = "linear"
                /\ UNCHANGED lconst
           ELSE /\ lconst' = lconst \o lin
                /\ linear' = <<>>
                /\ stage' = "nonlinear"
                /\ UNCHANGED clusters
        /\ UNCHANGED <<circuit, options, equalities, consEqualities, frames, job, subs,
                       storage, listed, rounds, log, result>>

-----------------------------------------------------------------------------
(* The elimination in one cluster (full_simplification).  Large clusters   *)
(* prefer the signals with the fewest occurrences, unless the old          *)
(* heuristics are asked for; all others take the greatest signal.          *)

FewOccurrencesFirst(cl) == ~options.old /\ Cardinality(cl) >= LessOccurrencesMin
LessOccurrences == FewOccurrencesFirst(job.cluster)

OccurrencesIn(cs) ==
    [s \in AllSignalsOf(cs) \ Forbidden |->
        Cardinality({i \in DOMAIN cs : s \in DOMAIN cs[i].c})]
RemoveOccurrences(occ, con) ==
    [s \in DOMAIN occ |-> IF s \in DOMAIN con.c THEN occ[s] - 1 ELSE occ[s]]

UNCHANGED_outside == UNCHANGED <<circuit, options, stage, lists, frames, subs, deleted,
                                 storage, listed, rounds, log, result>>

StartCluster(cl) ==
    LET cs  == Each(SetToSeq(cl), LAMBDA i : linear[i])
        occ == OccurrencesIn(cs)
    IN  /\ stage \in {"linear", "round"} /\ cl \in clusters /\ job = Idle
        /\ clusters' = clusters \ {cl}
        /\ job' = [Idle EXCEPT !.cluster = cl, !.todo = cs,
                      !.occurrences = IF FewOccurrencesFirst(cl) THEN occ ELSE <<>>,
                      !.uniques = {s \in DOMAIN occ :
                                      FewOccurrencesFirst(cl) /\ occ[s] = 1}]
        /\ UNCHANGED_outside

\* A signal that only one constraint has is eliminated with it, unless the
\* constraint was already used for a smaller one.
TakeUnique ==
    LET s    == Min(job.uniques)
        with == {i \in DOMAIN job.todo : s \in SignalsOf(job.todo[i])}
        i    == Min(with)
    IN  /\ job.uniques # {}
        /\ job' = IF with = {} THEN [job EXCEPT !.uniques = @ \ {s}]
                  ELSE [job EXCEPT
                          !.uniques = @ \ {s},
                          !.todo = RemoveAt(@, i),
                          !.occurrences = Without(RemoveOccurrences(@, job.todo[i]), s),
                          !.holder = Only(s, Cleared(job.todo[i], s)) ++ @,
                          !.order = <<s>> \o @]
        /\ UNCHANGED clusters /\ UNCHANGED_outside

TakeConstraint(i) ==
    /\ job.uniques = {} /\ job.work = <<>> /\ i \in DOMAIN job.todo
    /\ job' = [job EXCEPT !.work = <<job.todo[i]>>, !.todo = RemoveAt(@, i),
                          !.occurrences = RemoveOccurrences(@, job.todo[i])]
    /\ UNCHANGED clusters /\ UNCHANGED_outside

\* The signals a constraint may be used for: take_signal_3, take_signal_4.
\* Which of several eliminated signals comes first is a matter of hashing.
Takeable(con) == DOMAIN con.c \ Forbidden
Greatest(S)   == IF S = {} THEN {} ELSE {Max(S)}
FewestOccurrences(S) ==
    Greatest({s \in S : \A t \in S : job.occurrences[s] <= job.occurrences[t]})
TakeSignal(con) ==
    LET take == Takeable(con)
        gone == take \cap DOMAIN job.holder
    IN  IF ~LessOccurrences THEN Greatest(take)
        ELSE IF gone # {} THEN gone ELSE FewestOccurrences(take)

Working == job.work # <<>>

\* Nothing is left of the constraint, or only signals that must stay.
KeepConstraint ==
    /\ Working /\ TakeSignal(job.work[1]) = {}
    /\ job' = [job EXCEPT !.work = <<>>]
    /\ IF job.work[1] = EmptyConstraint THEN UNCHANGED lconst
       ELSE lconst' = Append(lconst, job.work[1])
    /\ UNCHANGED <<circuit, options, stage, equalities, consEqualities, linear, frames,
                   clusters, subs, deleted, storage, listed, rounds, log, result>>

Eliminate(s) ==
    /\ Working /\ s \in TakeSignal(job.work[1]) \ DOMAIN job.holder
    /\ job' = [job EXCEPT !.work = <<>>,
                          !.holder = Only(s, Cleared(job.work[1], s)) ++ @,
                          !.order = <<s>> \o @,
                          !.occurrences = Without(@, s)]
    /\ UNCHANGED clusters /\ UNCHANGED_outside

\* Variant of Merge: the second definition of a signal is dropped.
MergeDropped(s) ==
    /\ Working /\ s \in TakeSignal(job.work[1]) \cap DOMAIN job.holder
    /\ job' = [job EXCEPT !.work = <<>>]
    /\ UNCHANGED clusters /\ UNCHANGED_outside

\* The signal has a definition already: go on with the difference.
Merge(s) ==
    /\ Working /\ s \in TakeSignal(job.work[1]) \cap DOMAIN job.holder
    /\ job' = [job EXCEPT !.work = <<Merged(Cleared(job.work[1], s), job.holder[s])>>]
    /\ UNCHANGED clusters /\ UNCHANGED_outside

\* Definitions made free of each other: by ascending signal, or the last
\* eliminated first.
Ascending(S) ==
    CHOOSE q \in [1..Cardinality(S) -> S] : \A i, j \in DOMAIN q : i < j => q[i] < q[j]
Order == IF LessOccurrences THEN job.order ELSE Ascending(DOMAIN job.holder)
NonOverlapping ==
    FoldLeft(LAMBDA done, s : Only(s, Replaced(Normal(job.holder[s]), done)) ++ done,
             <<>>, Order)

FinishCluster ==
    /\ job # Idle /\ job.uniques = {} /\ job.todo = <<>> /\ job.work = <<>>
    /\ subs' = NonOverlapping ++ subs
    /\ job' = Idle
    /\ UNCHANGED <<circuit, options, stage, lists, frames, clusters, deleted, storage,
                   listed, rounds, log, result>>

-----------------------------------------------------------------------------
(* The end of the linear stage, the non-linear constraints, the rounds.    *)

PassFinished == clusters = {} /\ job = Idle

\* The signals of the non-linear constraints once the first two stages'
\* substitutions are applied.
Renamed(s) == IF s \in DOMAIN single THEN Min(DOMAIN single[s]) ELSE s
\* Variant of Relevant: the first stage's renaming is not followed.
RelevantNotRenamed == AllSignalsOf(NonLinear) \ DOMAIN cons
Relevant   == {Renamed(s) : s \in AllSignalsOf(NonLinear)} \ DOMAIN cons

FinishLinear ==
    LET new == Restrict(subs, DOMAIN subs \cap Relevant)
    IN  /\ stage = "linear" /\ PassFinished
        /\ deleted' = deleted \cup DOMAIN subs
        /\ linearSubs' = new
        /\ lconst' = Each(lconst, LAMBDA con : SubstitutedAndFixed(con, new))
        /\ linear' = <<>> /\ subs' = <<>>
        /\ Log(subs)
        /\ stage' = "nonlinear"
        /\ UNCHANGED <<circuit, options, equalities, consEqualities, single, cons, clusters,
                       job, storage, listed, rounds, result>>

Unframed(con) ==
    Fixed(FastSubstitution(FastSubstitution(FastSubstitution(con, single), cons), linearSubs))

\* Constraints `ids` of cs, listed under each of their signals on top of lst.
ListedUnder(lst, s) == IF s \in DOMAIN lst THEN lst[s] ELSE {}
ListIn(lst, cs, ids) ==
    [s \in UNION {SignalsOf(cs[i]) : i \in ids} |->
        ListedUnder(lst, s) \cup {i \in ids : s \in SignalsOf(cs[i])}] ++ lst

NextRound(lin) ==
    IF options.linear /\ rounds' # 0 /\ lin # <<>>
    THEN stage' = "round" /\ clusters' = Clusters(lin)
    ELSE stage' = "witness" /\ clusters' = {}

SimplifyNonLinear ==
    LET all == Each(NonLinear, Unframed)
        sto == Those(all, LAMBDA con : ~IsLinear(con))
        lin == Those(all, IsLinear)
    IN  /\ stage = "nonlinear"
        /\ storage' = sto /\ linear' = lin
        /\ listed' = ListIn(<<>>, sto, DOMAIN sto)
        /\ rounds' = IF rounds = 0 THEN 0 ELSE rounds - 1
        /\ NextRound(lin)
        /\ UNCHANGED <<circuit, options, equalities, consEqualities, lconst, frames, job,
                       subs, deleted, log, result>>

\* A substitution is applied to the constraints listed under its signal, and
\* they are listed under the signals that replace it.
ApplyToMap(acc, s) ==
    LET ids == ListedUnder(acc.listed, s)
        sto == [i \in ids |-> Fixed(Substituted(acc.storage[i], s, subs[s]))] ++ acc.storage
        new == IF ids = {} THEN {} ELSE DOMAIN subs[s]
    IN  [storage |-> sto,
         linear  |-> acc.linear \cup {i \in ids : IsLinear(sto[i])},
         listed  |-> [t \in new |-> ids \cup ListedUnder(acc.listed, t)] ++ acc.listed]

FinishRound ==
    LET acc == FoldSet(LAMBDA s, acc : ApplyToMap(acc, s),
                       [storage |-> storage, linear |-> {}, listed |-> listed],
                       DOMAIN subs)
        lin == Each(SetToSeq(acc.linear), LAMBDA i : acc.storage[i])
    IN  /\ stage = "round" /\ PassFinished
        /\ deleted' = deleted \cup DOMAIN subs
        /\ lconst' = Each(lconst, LAMBDA con : Fixed(FastSubstitution(con, subs)))
        /\ storage' = [i \in DOMAIN storage |->
                          IF i \in acc.linear THEN EmptyConstraint ELSE acc.storage[i]]
        /\ listed' = acc.listed
        /\ linear' = lin /\ subs' = <<>>
        /\ rounds' = rounds - 1
        /\ NextRound(lin)
        /\ Log(subs)
        /\ UNCHANGED <<circuit, options, equalities, consEqualities, frames, job, result>>

-----------------------------------------------------------------------------
(* The witness: every signal that is not deleted and is in some constraint *)
(* keeps its place or takes the first one that a deleted signal left.      *)

\* Variant of PlaceSignal: the place of a moved signal is not given away.
PlaceSignalLeavingGaps(acc, s) ==
    IF s \in acc.deleted THEN [acc EXCEPT !.free = Append(@, s)]
    ELSE IF s \notin Forbidden /\ s \notin DOMAIN acc.listed
    THEN [acc EXCEPT !.free = Append(@, s), !.deleted = @ \cup {s}]
    ELSE IF acc.free # <<>>
    THEN [acc EXCEPT !.map = Only(s, Head(acc.free)) ++ @, !.free = Tail(@)]
    ELSE [acc EXCEPT !.map = Only(s, s) ++ @]
PlaceSignal(acc, s) ==
    IF s \in acc.deleted THEN [acc EXCEPT !.free = Append(@, s)]
    ELSE IF s \notin Forbidden /\ s \notin DOMAIN acc.listed
    THEN [acc EXCEPT !.free = Append(@, s), !.deleted = @ \cup {s}]
    ELSE IF acc.free # <<>>
    THEN [acc EXCEPT !.map = Only(s, Head(acc.free)) ++ @, !.free = Append(Tail(@), s)]
    ELSE [acc EXCEPT !.map = Only(s, s) ++ @]

Witness(lst, del) ==
    FoldLeft(PlaceSignal, [map |-> <<>>, free |-> <<>>, deleted |-> del, listed |-> lst],
             [i \in 1..NoLabels |-> i - 1])

RebuildWitness ==
    LET sto  == storage \o linear \o Each(lconst, Fixed)
        lst  == ListIn(listed, sto, Len(storage) + 1..Len(sto))
        wit  == Witness(lst, deleted)
        ins  == NoPublicOutputs + 1..NoPublicOutputs + NoPublicInputs + NoPrivateInputs
    IN  /\ stage = "witness"
        /\ storage' = Those(sto, LAMBDA con : con # EmptyConstraint)
        /\ listed' = lst
        /\ deleted' = wit.deleted
        /\ signalMap' = wit.map
        /\ inputsKept' = NoPrivateInputs - Cardinality(wit.deleted \cap ins)
        /\ stage' = "done"
        /\ UNCHANGED <<circuit, options, lists, frames, pass, rounds, log>>

Done == stage = "done" /\ UNCHANGED vars

Elimination ==
    \/ TakeUnique
    \/ \E i \in DOMAIN job.todo : TakeConstraint(i)
    \/ KeepConstraint
    \/ \E s \in Signal : Eliminate(s) \/ Merge(s)
    \/ FinishCluster

Next ==
    \/ \E cl \in clusters : SimplifyEqualities(cl) \/ StartCluster(cl)
    \/ FinishEqualities
    \/ SimplifyConstant \/ FinishConstants
    \/ Elimination
    \/ FinishLinear \/ SimplifyNonLinear \/ FinishRound
    \/ RebuildWitness
    \/ Done

Spec == Init /\ [][Next]_vars

-----------------------------------------------------------------------------
(* Properties.                                                             *)

Field == 0..P - 1
Expression(e) == DOMAIN e \subseteq Signal /\ \A s \in DOMAIN e : e[s] \in Field
WellFormed(cs) == \A i \in DOMAIN cs : \A part \in {"a", "b", "c"} : Expression(cs[i][part])

TypeOK ==
    /\ stage \in {"equalities", "constants", "linear", "nonlinear", "round", "witness", "done"}
    /\ WellFormed(equalities) /\ WellFormed(consEqualities) /\ WellFormed(linear)
    /\ WellFormed(lconst) /\ WellFormed(storage)
    /\ \A s \in DOMAIN single : Expression(single[s])
    /\ \A s \in DOMAIN cons : Expression(cons[s])
    /\ \A s \in DOMAIN linearSubs : Expression(linearSubs[s])
    /\ clusters \subseteq SUBSET Nat
    /\ deleted \subseteq Signal \ {One}
    /\ \A s \in DOMAIN listed : s \in Signal /\ listed[s] \subseteq Nat
    /\ rounds \in 0..options.rounds
    /\ DOMAIN signalMap \subseteq Signal /\ inputsKept \in 0..NoPrivateInputs

\* The solutions of constraints over the signals S, with signal 0 equal to 1.
Value(e, v)    == MapThenSumSet(LAMBDA s : e[s] * v[s], DOMAIN e) % P
Holds(con, v)  == (Value(con.a, v) * Value(con.b, v) - Value(con.c, v)) % P = 0
Assignments(S) == {Only(One, 1) ++ v : v \in [S \ {One} -> Field]}
Solutions(cs, S) == {v \in Assignments(S) : \A i \in DOMAIN cs : Holds(cs[i], v)}

Original == Solutions(circuit.constraints, Signal)
Kept     == DOMAIN signalMap

(* The simplified circuit makes the same statement: the values of the      *)
(* signals in the witness that satisfy the simplified constraints are      *)
(* those of the solutions of the constraints the program generated.        *)
StatementKept ==
    stage = "done" =>
        /\ AllSignalsOf(storage) \subseteq Kept
        /\ {Restrict(v, Kept) : v \in Original} = Solutions(storage, Kept)

(* That is so whenever the equalities and constant equalities of the       *)
(* circuit do not contradict each other, satisfiable or not as a whole.    *)
ConstantsAgree ==
    Solutions(Those(circuit.constraints,
                        LAMBDA con : IsConstantEquality(con) \/ IsEquality(con)),
              Signal) # {}
ConsistentStatementKept == stage = "done" /\ ConstantsAgree => StatementKept

(* Every substitution in the substitution log holds in every solution of   *)
(* the circuit, and replaces a signal that is no longer in the witness by  *)
(* a linear expression: a removed signal can be computed from it.          *)
ReplacementsHold ==
    stage = "done" =>
        \A r \in log : /\ r.from \notin Kept
                       /\ \A v \in Original : v[r.from] = Value(r.to, v)

(* The witness has every signal of a constraint (apply_correspondence would *)
(* stop on another), the constant and the public signals in their places,   *)
(* the signals of custom gates, the others in the order of their numbers    *)
(* and no gaps; and the count of private inputs in it is right.             *)
WitnessLayout ==
    stage = "done" =>
        /\ AllSignalsOf(storage) \cup Forbidden \subseteq Kept
        /\ \A s \in {One} \cup Public : signalMap[s] = s
        /\ \A s, t \in Kept : s < t => signalMap[s] < signalMap[t]
        /\ {signalMap[s] : s \in Kept} = 0..Cardinality(Kept) - 1
        /\ inputsKept = Cardinality({s \in Kept : s > Cardinality(Public)
                                      /\ s <= Cardinality(Public) + NoPrivateInputs})

(* With O2, rounds go on until no linear constraint has a signal that may  *)
(* be removed.                                                             *)
NoLinearLeft ==
    stage = "done" /\ options.rounds = MaxRounds =>
        \A i \in DOMAIN storage : IsLinear(storage[i]) => SignalsOf(storage[i]) \subseteq Forbidden

(* The assertions and unwraps of the simplification hold: a coefficient    *)
(* that is divided by is not zero, a signal has a count of occurrences     *)
(* when they are compared, and one definition when it is in the order.     *)
NoPanic ==
    /\ stage = "constants" /\ consEqualities # <<>> =>
          /\ SignalsOf(Head(consEqualities)) # {}
          /\ \A s \in SignalsOf(Head(consEqualities)) : Head(consEqualities).c[s] # 0
    /\ Working =>
          LET con == job.work[1]
          IN  /\ \A s \in DOMAIN con.c : con.c[s] # 0
              /\ LessOccurrences => Takeable(con) \ DOMAIN job.holder \subseteq DOMAIN job.occurrences
    /\ \A s \in DOMAIN job.holder : job.holder[s].coef # 0
    /\ ToSet(job.order) = DOMAIN job.holder /\ Len(job.order) = Cardinality(DOMAIN job.holder)

(* O2 needs no limit: each round but the last removes a signal, so there   *)
(* are never more rounds than signals that may be removed, and one.        *)
RoundsAreBounded ==
    options.rounds - rounds <= Cardinality(Signal \ Forbidden) + 1

(* Whatever the order of the constraints of a cluster, the elimination     *)
(* removes as many signals as there are to remove, and without occurrence  *)
(* counts the same ones: the greatest signals of the combinations of the   *)
(* constraints.                                                            *)
Combination(k, s) ==
    MapThenSumSet(LAMBDA i : k[i] * Coefficient(linear[i].c, s), DOMAIN k) % P
Pivots(cl) ==
    LET sigs == UNION {SignalsOf(linear[i]) : i \in cl} \ Forbidden
    IN  UNION {Greatest({s \in sigs : Combination(k, s) # 0}) : k \in [cl -> Field]}
ClusterIsEliminated ==
    job # Idle /\ job.uniques = {} /\ job.todo = <<>> /\ job.work = <<>> =>
        /\ Cardinality(DOMAIN job.holder) = Cardinality(Pivots(job.cluster))
        /\ ~LessOccurrences => DOMAIN job.holder = Pivots(job.cluster)

(* The elimination goes on until nothing linear is left to remove, in      *)
(* every cluster and over the rounds, and it ends without a panic.         *)
EliminationIsComplete ==
    /\ TypeOK
    /\ NoPanic
    /\ ClusterIsEliminated
    /\ NoLinearLeft
    /\ RoundsAreBounded
=============================================================================
