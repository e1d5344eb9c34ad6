-------------------- MODULE ConditionalAssignment_proofs --------------------
(***************************************************************************)
(* Proofs about ConditionalAssignment, for every bound: the list of        *)
(* conditions is a stack that never runs empty under an else branch, and   *)
(* in programs without loops inside unknown conditionals the analysis is   *)
(* exact.  What it accepts gives each cell at most one value in every      *)
(* execution, and what it refuses gives a cell two values in one.          *)
(*                                                                         *)
(* The argument is about three things at once: the frames around the       *)
(* statement, the list of conditions, which in those programs is the       *)
(* conditions of the frames after some left over from loops, and the       *)
(* conditions recorded for a cell, which stand for all its assignments.    *)
(***************************************************************************)
EXTENDS ConditionalAssignment, FiniteSetTheorems, SequenceTheorems, TLAPS

(* The inductive invariant *)

\* No condition is twice in the list, and no else branch ran out of conditions.
StackInv ==
    /\ \A i, j \in DOMAIN conds : conds[i].id = conds[j].id => i = j
    /\ \A i \in DOMAIN conds : conds[i].id < counter
    /\ status # "panic"

\* The frames whose end pops a condition that the frame still counts on: inside
\* an unknown conditional a loop makes at most one pass by itself.
Owed == Guards \cup {i \in DOMAIN frames : /\ frames[i].kind \in {"test", "pass"}
                                           /\ \E j \in Guards : j < i}

OwedInv == Cardinality(Owed) <= Len(conds)

\* Without loops inside unknown conditionals the frames of those conditionals
\* are the innermost ones, and their conditions the last ones of the list, the
\* only ones that can be negated.
Shift == Len(conds) - Len(frames)

\* f is the condition of frame g.
IsOf(f, g) == f.id = g.id /\ (f.branch <=> g.kind # "else")

FramesInv ==
    /\ \A i \in Guards :
          /\ \A j \in i..Len(frames) : j \in Guards
          /\ frames[i].kind \in {"first", "again"} => i - 1 \notin Guards
          /\ i + Shift \in DOMAIN conds
          /\ IsOf(conds[i + Shift], frames[i])
    /\ \A k \in DOMAIN conds : ~conds[k].branch => k - Shift \in Guards

\* u was the list of conditions, or the start of it, and what has left the list
\* since does not come back.
Former(u) ==
    /\ \A i, j \in DOMAIN u : u[i].id = u[j].id => i = j
    /\ \A j \in DOMAIN u : u[j].id < counter
    /\ \A j \in DOMAIN u, k \in DOMAIN conds : u[j].id = conds[k].id =>
          /\ j = k
          /\ \A l \in 1..j - 1 : u[l].id = conds[l].id
          /\ ~u[j].branch => ~conds[k].branch

\* Path h is one on which no later path with u[1], ..., u[i] continues: h has
\* condition i itself, or a branch that u takes the other way.
Against(h, u, i) ==
    \/ u[i] \in h
    \/ \E k \in 1..i : ~u[k].branch /\ [id |-> u[k].id, branch |-> TRUE] \in h

OpenIds == {f.id : f \in Path}

CellInv(c) ==
    /\ \/ cell[c] \in {NoAssigned, Assigned}
       \/ cell[c] = MightAssigned(cell[c].under) /\ Former(cell[c].under)
    /\ cell[c] = NoAssigned <=> history[c] = <<>>

ExactInv(c) ==
    /\ ~Conflict(c)
    /\ cell[c].is = "might" =>
          \A i \in DOMAIN cell[c].under : cell[c].under[i].id \in OpenIds =>
             \A n \in DOMAIN history[c] : Against(history[c][n], cell[c].under, i)
    /\ \A v \in Valuations :
          \/ cell[c] = NoAssigned
          \/ cell[c].is = "might" /\ ~Takes(v, Recorded(c))
          \/ \E i \in DOMAIN history[c] : Takes(v, history[c][i])

CellsInv == \A c \in Cell : CellInv(c) /\ (~nested => ExactInv(c))

Inv == TypeOK /\ StackInv /\ OwedInv /\ (~nested => FramesInv) /\ CellsInv

-----------------------------------------------------------------------------
(* Lists *)

\* Vec::pop on a list of conditions or of frames.
LEMMA PopType ==
    ASSUME NEW S, NEW s \in Seq(S)
    PROVE  /\ Pop(s) \in Seq(S)
           /\ Len(Pop(s)) = IF s = <<>> THEN 0 ELSE Len(s) - 1
           /\ DOMAIN Pop(s) = 1..Len(Pop(s))
           /\ \A i \in 1..Len(Pop(s)) : i \in 1..Len(s) /\ Pop(s)[i] = s[i]
  <1>1. CASE s = <<>>
    BY <1>1 DEF Pop
  <1>2. CASE s # <<>>
    <2>1. Len(s) \in Nat \ {0}
      BY <1>2
    <2>2. Pop(s) = SubSeq(s, 1, Len(s) - 1)
      BY <1>2 DEF Pop
    <2>3. /\ SubSeq(s, 1, Len(s) - 1) \in Seq(S)
          /\ Len(SubSeq(s, 1, Len(s) - 1)) = Len(s) - 1
          /\ \A i \in 1..Len(s) - 1 : SubSeq(s, 1, Len(s) - 1)[i] = s[i]
      <3> DEFINE m == Len(s) - 1
      <3>1. m \in Int /\ 1 \in Int /\ \A i \in 1..m : s[i] \in S
        BY <2>1
      <3> HIDE DEF m
      <3>2. /\ SubSeq(s, 1, m) \in Seq(S)
            /\ Len(SubSeq(s, 1, m)) = IF 1 <= m THEN m - 1 + 1 ELSE 0
            /\ \A i \in 1..m - 1 + 1 : SubSeq(s, 1, m)[i] = s[1 + i - 1]
        BY <3>1, SubSeqProperties
      <3>3. m \in Nat
        BY <2>1 DEF m
      <3>4. \A i \in 1..m : SubSeq(s, 1, m)[i] = s[i]
        BY <3>2, <3>3
      <3>5. Len(SubSeq(s, 1, m)) = m
        BY <3>2, <3>3
      <3>6. SubSeq(s, 1, m) \in Seq(S)
        BY <3>2
      <3> QED
        <4> DEFINE t == SubSeq(s, 1, m)
        <4>1. t \in Seq(S) /\ Len(t) = m /\ \A i \in 1..m : t[i] = s[i]
          BY <3>4, <3>5, <3>6
        <4> HIDE DEF t
        <4>2. t \in Seq(S) /\ Len(t) = Len(s) - 1 /\ \A i \in 1..Len(s) - 1 : t[i] = s[i]
          BY <4>1 DEF m
        <4> QED  BY <4>2 DEF t, m
    <2> HIDE DEF Pop
    <2> QED  BY <1>2, <2>1, <2>2, <2>3
  <1> QED  BY <1>1, <1>2

\* Vec::push on a list of conditions or of frames.
LEMMA PushType ==
    ASSUME NEW S, NEW s \in Seq(S), NEW x \in S
    PROVE  /\ Append(s, x) \in Seq(S)
           /\ Len(Append(s, x)) = Len(s) + 1
           /\ DOMAIN Append(s, x) = 1..Len(s) + 1
           /\ DOMAIN s = 1..Len(s) /\ Len(s) \in Nat
           /\ \A i \in 1..Len(s) : Append(s, x)[i] = s[i]
           /\ Append(s, x)[Len(s) + 1] = x
  OBVIOUS

\* Two lists of conditions that differ differ first somewhere: the search of the
\* first difference in Join is over the naturals.
LEMMA LeastIs ==
    ASSUME NEW S \in SUBSET Nat, S # {}
    PROVE  Least(S) \in S /\ \A j \in S : Least(S) <= j
  <1> DEFINE T == {0..y : y \in S}
  <1>1. T \subseteq FiniteSubsetsOf(Nat)
    <2>1. \A y \in S : IsFiniteSet(0..y) /\ 0..y \in SUBSET Nat
      BY FS_Interval
    <2> QED  BY <2>1 DEF FiniteSubsetsOf
  <1>2. PICK X \in T : \A Y \in T : <<Y, X>> \notin StrictSubsetOrdering(Nat)
    <2>1. T # {}
      OBVIOUS
    <2> HIDE DEF T
    <2> QED  BY <1>1, <2>1, FS_StrictSubsetOrderingWellFounded, WFMin
  <1>3. PICK x \in S : X = 0..x
    BY <1>2
  <1>4. ASSUME NEW y \in S  PROVE  x <= y
    <2> SUFFICES ASSUME y < x  PROVE  FALSE
      OBVIOUS
    <2>1. 0..y \subseteq 0..x /\ 0..y # 0..x
      BY <1>3
    <2>2. 0..y \in SUBSET Nat /\ 0..x \in SUBSET Nat
      OBVIOUS
    <2>3. <<0..y, 0..x>> \in StrictSubsetOrdering(Nat)
      BY <2>1, <2>2 DEF StrictSubsetOrdering
    <2> QED  BY <1>2, <1>3, <2>3
  <1> QED  BY <1>4 DEF Least

-----------------------------------------------------------------------------
(* Types *)

CondType  == [id : 0..MaxConds, branch : BOOLEAN]
FrameType == [kind : Bodies \cup {"test", "unknown", "twice", "over"},
              id : 0..MaxConds, passes : 0..MaxPasses]

\* The innermost structure is the last frame, if there is one.
LEMMA InnermostIs ==
    ASSUME frames \in Seq(FrameType), Innermost # "template"
    PROVE  /\ frames # <<>> /\ Len(frames) \in Nat \ {0}
           /\ Innermost = frames[Len(frames)].kind
           /\ Top(frames) = frames[Len(frames)] /\ Top(frames) \in FrameType
  <1>1. frames # <<>> /\ Len(frames) \in Nat \ {0}
    BY DEF Innermost
  <1> QED  BY <1>1 DEF Innermost, Top

\* What Path records are conditions.
LEMMA PathType ==
    ASSUME TypeOK
    PROVE  Path \in SUBSET CondType
  <1>1. frames \in Seq(FrameType)
    BY DEF TypeOK, FrameType
  <1>2. ASSUME NEW i \in Guards
        PROVE  [id |-> frames[i].id, branch |-> frames[i].kind # "else"] \in CondType
    <2>1. frames[i] \in FrameType
      BY <1>1 DEF Guards
    <2> QED  BY <2>1 DEF FrameType, CondType
  <1> QED  BY <1>2 DEF Path

\* Every state of a cell is one of the kinds of AssignmentState.
LEMMA CellKinds ==
    ASSUME NEW p
    PROVE  /\ NoAssigned # Assigned /\ MightAssigned(p) \notin {NoAssigned, Assigned}
           /\ MightAssigned(p).is = "might" /\ MightAssigned(p).under = p
           /\ NoAssigned.is = "no" /\ Assigned.is = "yes"
  <1>1. /\ NoAssigned.is = "no" /\ Assigned.is = "yes"
        /\ MightAssigned(p).is = "might" /\ MightAssigned(p).under = p
    BY DEF NoAssigned, Assigned, MightAssigned
  <1> QED  BY <1>1

\* Assigning under conditions leaves NoAssigned, Assigned or conditions that are a
\* nonempty start of the current ones.
LEMMA UpdatedIs ==
    ASSUME TypeOK, NEW c \in Cell, CellInv(c)
    PROVE  \/ Updated(cell[c]) \in {NoAssigned, Assigned}
           \/ \E n \in 1..Len(conds) : Updated(cell[c]) = MightAssigned(SubSeq(conds, 1, n))
  <1>1. conds \in Seq(CondType) /\ Len(conds) \in Nat
    BY DEF TypeOK, CondType, Conditions
  <1>2. conds # <<>> => Len(conds) \in 1..Len(conds) /\ SubSeq(conds, 1, Len(conds)) = conds
    BY <1>1
  <1>3. CASE cell[c].is = "no" \/ cell[c].is = "yes" \/ conds = <<>>
    BY <1>2, <1>3 DEF Updated
  <1>4. CASE cell[c].is \notin {"no", "yes"} /\ conds # <<>>
    <2> DEFINE old == cell[c].under
               differ == {i \in DOMAIN old \cap DOMAIN conds : old[i] # conds[i]}
    <2>1. Updated(cell[c]) = Join(old, conds)
      BY <1>4 DEF Updated
    <2>2. differ \in SUBSET Nat
      BY <1>1
    <2>3. differ # {} => Least(differ) \in DOMAIN conds
      <3> HIDE DEF differ
      <3>1. differ # {} => Least(differ) \in differ
        BY <2>2, LeastIs
      <3> QED  BY <3>1 DEF differ
    <2>4. CASE Join(old, conds) \in {NoAssigned, Assigned, MightAssigned(conds)}
      BY <1>2, <1>4, <2>1, <2>4
    <2>5. CASE /\ differ # {} /\ Least(differ) # 1
               /\ Join(old, conds) = MightAssigned(SubSeq(conds, 1, Least(differ) - 1))
      <3>1. Least(differ) - 1 \in 1..Len(conds)
        BY <1>1, <2>3, <2>5
      <3> QED  BY <2>1, <2>5, <3>1
    <2> QED  BY <2>4, <2>5 DEF Join
  <1> QED  BY <1>3, <1>4

\* The steps that enter and leave conditionals and loops.
Structural ==
    \/ EnterThen \/ EnterElse \/ LeaveIf
    \/ EnterLoop \/ Pass \/ EndPass \/ ExitLoop
    \/ FirstPass \/ SecondPass \/ EndUnknownPass

\* Control structures do not touch the cells or what is known of them.
LEMMA StructuralKeeps ==
    ASSUME Structural
    PROVE  UNCHANGED <<nested, cell, left, history>>
  BY DEF Structural, EnterThen, EnterElse, LeaveIf, EnterLoop, Pass, EndPass, ExitLoop,
         FirstPass, SecondPass, UnknownPass, EndUnknownPass

\* Control structures push and pop frames and conditions, and nothing else.
LEMMA StructuralType ==
    ASSUME TypeOK, Structural
    PROVE  TypeOK'
  <1>0. /\ conds \in Seq(CondType) /\ frames \in Seq(FrameType) /\ counter \in 0..MaxConds
        /\ status \in {"running", "accepted", "twice", "missing", "panic"}
        /\ MaxConds \in Nat /\ MaxDepth \in Nat /\ MaxPasses \in Nat
    BY BoundsAssumption DEF TypeOK, CondType, Conditions, FrameType
  <1>1. SUFFICES /\ conds' \in Seq(CondType) /\ frames' \in Seq(FrameType)
                 /\ counter' \in 0..MaxConds
                 /\ status' \in {"running", "accepted", "twice", "missing", "panic"}
    BY StructuralKeeps DEF TypeOK, CondType, Conditions, FrameType
  <1>2. Open => counter + 1 \in 0..MaxConds /\ Condition(counter) \in CondType
    BY <1>0 DEF Open, Condition, CondType
  <1>3. /\ Pop(conds) \in Seq(CondType) /\ Pop(frames) \in Seq(FrameType)
        /\ Pop(Pop(frames)) \in Seq(FrameType)
    BY <1>0, PopType
  <1>4. \A kind \in Bodies, id \in 0..MaxConds : Body(kind, id) \in FrameType
    BY <1>0 DEF Body, FrameType
  <1>5. \A kind \in {"test", "unknown", "twice", "over"}, n \in 0..MaxPasses :
           Loop(kind, n) \in FrameType
    BY <1>0 DEF Loop, FrameType
  <1>6. CASE EnterThen
    <2>1. Body("then", counter) \in FrameType
      BY <1>0, <1>4 DEF Bodies, Branches
    <2>2. conds' = Append(conds, Condition(counter)) /\ Open /\ counter' = counter + 1
          /\ frames' = Append(frames, Body("then", counter)) /\ status' = status
      BY <1>6 DEF EnterThen
    <2> QED  BY <1>0, <1>2, <2>1, <2>2, PushType
  <1>7. CASE EnterElse
    <2>1. CASE conds = <<>>
      BY <1>0, <1>7, <2>1 DEF EnterElse
    <2>2. CASE conds # <<>>
      <3>1. /\ conds' = [conds EXCEPT ![Len(conds)].branch = FALSE]
            /\ frames' = [frames EXCEPT ![Len(frames)].kind = "else"]
            /\ status' = status /\ counter' = counter
        BY <1>7, <2>2 DEF EnterElse
      <3>2. Len(conds) \in DOMAIN conds /\ conds[Len(conds)] \in CondType
        BY <1>0, <2>2
      <3>3. Len(frames) \in DOMAIN frames /\ frames[Len(frames)] \in FrameType
        BY <1>0, <1>7, InnermostIs DEF EnterElse
      <3>4. [conds[Len(conds)] EXCEPT !.branch = FALSE] \in CondType
        BY <3>2 DEF CondType
      <3>5. [frames[Len(frames)] EXCEPT !.kind = "else"] \in FrameType
        BY <3>3 DEF FrameType, Bodies, Branches
      <3>6. conds' \in Seq(CondType)
        BY <1>0, <3>1, <3>2, <3>4, ExceptSeq
      <3>7. frames' \in Seq(FrameType)
        BY <1>0, <3>1, <3>3, <3>5, ExceptSeq
      <3> QED  BY <1>0, <3>1, <3>6, <3>7
    <2> QED  BY <2>1, <2>2
  <1>8. CASE LeaveIf \/ EndPass
    BY <1>0, <1>3, <1>8 DEF LeaveIf, EndPass
  <1>9. CASE EnterLoop
    <2>1. conds' = Append(conds, Condition(counter)) /\ Open /\ counter' = counter + 1
          /\ frames' = Append(frames, Loop("test", 0)) /\ status' = status
      BY <1>9 DEF EnterLoop
    <2>2. Loop("test", 0) \in FrameType
      BY <1>0, <1>5
    <2> QED  BY <1>0, <1>2, <2>1, <2>2, PushType
  <1>10. CASE Pass
    <2> DEFINE kind == IF InUnknown THEN "unknown" ELSE "test"
               n == Top(frames).passes + 1
    <2>1. /\ frames' = Append(Append(Pop(frames), Loop(kind, n)), Body("pass", 0))
          /\ UNCHANGED <<conds, counter, status>> /\ Innermost = "test"
          /\ Top(frames).passes < MaxPasses
      BY <1>10 DEF Pass, Testing
    <2>2. Top(frames) \in FrameType
      BY <1>0, <2>1, InnermostIs
    <2>3. n \in 0..MaxPasses
      BY <1>0, <2>1, <2>2 DEF FrameType
    <2>4. Loop(kind, n) \in FrameType /\ Body("pass", 0) \in FrameType
      <3>1. kind \in {"test", "unknown"}
        OBVIOUS
      <3>2. "pass" \in Bodies /\ 0 \in 0..MaxConds
        BY <1>0 DEF Bodies
      <3> HIDE DEF kind, n
      <3> QED  BY <1>4, <1>5, <2>3, <3>1, <3>2
    <2> QED  BY <1>0, <1>3, <2>1, <2>4, PushType
  <1>11. CASE ExitLoop
    BY <1>0, <1>3, <1>11 DEF ExitLoop
  <1>12. ASSUME NEW from, NEW kind \in {"first", "again"}, NEW to \in {"twice", "over"},
                UnknownPass(from, kind, to)
         PROVE  /\ conds' \in Seq(CondType) /\ frames' \in Seq(FrameType)
                /\ counter' \in 0..MaxConds /\ status' = status
    <2>1. /\ conds' = Append(conds, Condition(counter)) /\ Open /\ counter' = counter + 1
          /\ frames' = Append(Append(Pop(frames), Loop(to, 0)), Body(kind, counter))
          /\ status' = status
      BY <1>12 DEF UnknownPass
    <2>2. Loop(to, 0) \in FrameType /\ Body(kind, counter) \in FrameType
      BY <1>0, <1>4, <1>5 DEF Bodies, Branches
    <2> QED  BY <1>0, <1>2, <1>3, <2>1, <2>2, PushType
  <1>13. CASE FirstPass \/ SecondPass
    BY <1>0, <1>12, <1>13 DEF FirstPass, SecondPass
  <1>14. CASE EndUnknownPass
    BY <1>0, <1>3, <1>14 DEF EndUnknownPass
  <1> QED
    BY <1>6, <1>7, <1>8, <1>9, <1>10, <1>11, <1>13, <1>14 DEF Structural

-----------------------------------------------------------------------------
(* The list of conditions *)

\* Control structures push a new condition, pop the last or negate it: an id
\* stays where it is as long as it is in the list, and a negated condition stays
\* negated.
LEMMA CondsStep ==
    ASSUME TypeOK, Structural
    PROVE  /\ DOMAIN conds = 1..Len(conds) /\ DOMAIN conds' = 1..Len(conds')
           /\ Len(conds) \in Nat /\ Len(conds') \in Nat
           /\ counter \in Nat /\ counter' \in {counter, counter + 1}
           /\ \A k \in DOMAIN conds' :
                 IF k \in DOMAIN conds
                 THEN /\ conds'[k].id = conds[k].id
                      /\ ~conds[k].branch => ~conds'[k].branch
                      /\ conds'[k] = conds[k] \/ EnterElse
                 ELSE k = Len(conds) + 1 /\ conds'[k] = Condition(counter)
                      /\ counter' = counter + 1
  <1>0. conds \in Seq(CondType) /\ counter \in Nat
    BY BoundsAssumption DEF TypeOK, CondType, Conditions
  <1>1. /\ DOMAIN conds = 1..Len(conds) /\ DOMAIN conds' = 1..Len(conds')
        /\ Len(conds) \in Nat /\ Len(conds') \in Nat
    <2>1. conds' \in Seq(CondType)
      BY StructuralType DEF TypeOK, CondType, Conditions
    <2> QED  BY <1>0, <2>1
  <1>2. CASE conds' = Append(conds, Condition(counter)) /\ counter' = counter + 1
    <2>1. conds \in Seq(CondType \cup {Condition(counter)})
      BY <1>0, SeqMonotonic
    <2>2. /\ DOMAIN conds' = 1..Len(conds) + 1
          /\ \A k \in 1..Len(conds) : conds'[k] = conds[k]
          /\ conds'[Len(conds) + 1] = Condition(counter)
      BY <1>2, <2>1, PushType
    <2> QED  BY <1>0, <1>1, <1>2, <2>2
  <1>3. CASE conds' = Pop(conds) /\ counter' = counter
    BY <1>0, <1>1, <1>3, PopType
  <1>4. CASE /\ conds # <<>> /\ conds' = [conds EXCEPT ![Len(conds)].branch = FALSE]
             /\ counter' = counter /\ EnterElse
    <2> DEFINE n == Len(conds)
    <2>1. n \in DOMAIN conds /\ conds[n] \in CondType
      BY <1>0, <1>4
    <2>2. DOMAIN conds' = DOMAIN conds
      BY <1>4
    <2>3. \A k \in DOMAIN conds : k # n => conds'[k] = conds[k]
      BY <1>4
    <2>4. conds'[n] = [conds[n] EXCEPT !.branch = FALSE]
      BY <1>4, <2>1
    <2>5. conds'[n].id = conds[n].id /\ ~conds'[n].branch
      BY <2>1, <2>4 DEF CondType
    <2> QED  BY <1>0, <1>1, <1>4, <2>2, <2>3, <2>5
  <1>5. CASE conds' = conds /\ counter' = counter
    BY <1>0, <1>1, <1>5
  <1>6. CASE EnterThen \/ EnterLoop \/ FirstPass \/ SecondPass
    BY <1>2, <1>6 DEF EnterThen, EnterLoop, FirstPass, SecondPass, UnknownPass
  <1>7. CASE LeaveIf \/ EndPass \/ EndUnknownPass
    BY <1>3, <1>7 DEF LeaveIf, EndPass, EndUnknownPass
  <1>8. CASE EnterElse
    BY <1>4, <1>5, <1>8 DEF EnterElse
  <1>9. CASE Pass \/ ExitLoop
    BY <1>5, <1>9 DEF Pass, ExitLoop
  <1> QED  BY <1>6, <1>7, <1>8, <1>9 DEF Structural

\* The frame an else branch belongs to is one that owes a condition.
LEMMA ElseFindsCondition ==
    ASSUME TypeOK, OwedInv, EnterElse
    PROVE  conds # <<>>
  <1>1. conds \in Seq(CondType) /\ frames \in Seq(FrameType)
    BY DEF TypeOK, CondType, Conditions, FrameType
  <1>2. Len(frames) \in Owed
    BY <1>1, InnermostIs DEF EnterElse, Owed, Guards, Branches
  <1>3. IsFiniteSet(Owed)
    <2>1. Owed \in SUBSET (1..Len(frames)) /\ Len(frames) \in Nat
      BY <1>1 DEF Owed, Guards
    <2>2. IsFiniteSet(1..Len(frames))
      BY <2>1, FS_Interval
    <2> QED  BY <2>1, <2>2, FS_Subset
  <1>4. Cardinality(Owed) # 0 /\ Cardinality(Owed) \in Nat
    BY <1>2, <1>3, FS_EmptySet, FS_CardinalityType
  <1> QED  BY <1>1, <1>4 DEF OwedInv

\* Control structures keep the ids in the list distinct and below the counter,
\* and no else branch finds the list empty.
LEMMA StackStep ==
    ASSUME TypeOK, StackInv, OwedInv, Structural
    PROVE  StackInv'
  <1>1. status' # "panic"
    <2>1. CASE EnterElse
      BY <2>1, ElseFindsCondition DEF StackInv, EnterElse
    <2>2. CASE ~EnterElse
      BY <2>2 DEF StackInv, Structural, EnterThen, LeaveIf, EnterLoop, Pass, EndPass,
           ExitLoop, FirstPass, SecondPass, UnknownPass, EndUnknownPass
    <2> QED  BY <2>1, <2>2
  <1>2. \A k \in DOMAIN conds : conds[k].id \in Nat
    <2>1. conds \in Seq(CondType)
      BY DEF TypeOK, CondType, Conditions
    <2>2. \A k \in DOMAIN conds : conds[k] \in CondType
      BY <2>1
    <2> QED  BY <2>2, BoundsAssumption DEF CondType
  <1>3. ASSUME NEW k \in DOMAIN conds'  PROVE  conds'[k].id < counter'
    <2>1. CASE k \in DOMAIN conds
      BY <1>2, <2>1, CondsStep DEF StackInv
    <2>2. CASE k \notin DOMAIN conds
      BY <2>2, CondsStep DEF Condition
    <2> QED  BY <2>1, <2>2
  <1>4. ASSUME NEW i \in DOMAIN conds', NEW j \in DOMAIN conds', conds'[i].id = conds'[j].id
        PROVE  i = j
    <2>1. \A k \in DOMAIN conds' : IF k \in DOMAIN conds THEN conds'[k].id < counter
                                   ELSE conds'[k].id = counter /\ k = Len(conds) + 1
      BY CondsStep DEF StackInv, Condition
    <2>2. CASE i \in DOMAIN conds /\ j \in DOMAIN conds
      BY <1>4, <2>2, CondsStep DEF StackInv
    <2>3. CASE i \notin DOMAIN conds \/ j \notin DOMAIN conds
      BY <1>2, <1>4, <2>1, <2>3, CondsStep
    <2> QED  BY <2>2, <2>3
  <1> QED  BY <1>1, <1>3, <1>4 DEF StackInv

-----------------------------------------------------------------------------
(* The frames *)

\* The kinds and the lengths the steps leave behind.
LEMMA FramesStep ==
    ASSUME TypeOK, Structural
    PROVE  LET n == Len(frames) IN
           /\ DOMAIN frames = 1..n /\ n \in Nat
           /\ DOMAIN frames' = 1..Len(frames') /\ Len(frames') \in Nat
           /\ EnterThen =>
                 /\ Len(frames') = n + 1 /\ \A i \in 1..n : frames'[i] = frames[i]
                 /\ frames'[n + 1] = Body("then", counter)
           /\ EnterLoop =>
                 /\ Len(frames') = n + 1 /\ \A i \in 1..n : frames'[i] = frames[i]
                 /\ frames'[n + 1].kind = "test"
           /\ EnterElse /\ conds # <<>> =>
                 /\ n # 0 /\ frames[n].kind = "then"
                 /\ Len(frames') = n /\ \A i \in 1..n - 1 : frames'[i] = frames[i]
                 /\ frames'[n].kind = "else" /\ frames'[n].id = frames[n].id
  <1>0. /\ conds \in Seq(CondType) /\ frames \in Seq(FrameType) /\ frames' \in Seq(FrameType)
    BY StructuralType DEF TypeOK, CondType, Conditions, FrameType
  <1>1. \A x : Append(frames, x)[Len(frames) + 1] = x
    BY <1>0
  <1>2. ASSUME EnterElse, conds # <<>>
        PROVE  LET n == Len(frames) IN
               /\ n # 0 /\ frames[n].kind = "then"
               /\ Len(frames') = n /\ \A i \in 1..n - 1 : frames'[i] = frames[i]
               /\ frames'[n].kind = "else" /\ frames'[n].id = frames[n].id
    <2> DEFINE n == Len(frames)
    <2>1. n \in DOMAIN frames /\ frames[n] \in FrameType /\ frames[n].kind = "then" /\ n # 0
      BY <1>0, <1>2, InnermostIs DEF EnterElse
    <2>2. frames' = [frames EXCEPT ![n].kind = "else"]
      BY <1>2 DEF EnterElse
    <2>3. frames'[n] = [frames[n] EXCEPT !.kind = "else"]
      BY <2>1, <2>2
    <2>4. DOMAIN frames' = DOMAIN frames /\ \A i \in 1..n - 1 : frames'[i] = frames[i]
      BY <1>0, <2>2
    <2>5. Len(frames') = n
      BY <1>0, <2>4
    <2> QED  BY <2>1, <2>3, <2>4, <2>5 DEF FrameType
  <1>3. ASSUME EnterThen
        PROVE  LET n == Len(frames) IN
               /\ Len(frames') = n + 1 /\ \A i \in 1..n : frames'[i] = frames[i]
               /\ frames'[n + 1] = Body("then", counter)
    BY <1>0, <1>1, <1>3 DEF EnterThen
  <1>4. ASSUME EnterLoop
        PROVE  LET n == Len(frames) IN
               /\ Len(frames') = n + 1 /\ \A i \in 1..n : frames'[i] = frames[i]
               /\ frames'[n + 1].kind = "test"
    BY <1>0, <1>1, <1>4 DEF EnterLoop, Loop
  <1> QED  BY <1>0, <1>2, <1>3, <1>4

\* The end of a control structure removes one frame; the end of the second pass
\* of an unknown loop removes the frame of the loop too.
LEMMA FramesPop ==
    ASSUME TypeOK
    PROVE  LET n == Len(frames) IN
           /\ frames' = Pop(frames) /\ n # 0 =>
                 Len(frames') = n - 1 /\ \A i \in 1..n - 1 : frames'[i] = frames[i]
           /\ frames' = Pop(Pop(frames)) /\ n # 0 =>
                 /\ Len(frames') = IF n = 1 THEN 0 ELSE n - 2
                 /\ \A i \in 1..n - 2 : frames'[i] = frames[i]
           /\ \A x, y \in FrameType :
                 frames' = Append(Append(Pop(frames), x), y) /\ n # 0 =>
                    /\ Len(frames') = n + 1 /\ \A i \in 1..n - 1 : frames'[i] = frames[i]
                    /\ frames'[n] = x /\ frames'[n + 1] = y
  <1> DEFINE n == Len(frames)  p == Pop(frames)  q == Pop(p)
  <1>0. frames \in Seq(FrameType)
    BY DEF TypeOK, FrameType
  <1>1. /\ n \in Nat /\ p \in Seq(FrameType)
        /\ n # 0 => Len(p) = n - 1
        /\ \A i \in 1..Len(p) : p[i] = frames[i]
    BY <1>0, PopType
  <1>2. /\ Len(q) = IF p = <<>> THEN 0 ELSE Len(p) - 1
        /\ \A i \in 1..Len(q) : i \in 1..Len(p) /\ q[i] = p[i]
    <2> HIDE DEF p
    <2> QED  BY <1>1, PopType
  <1>3. ASSUME NEW x \in FrameType, NEW y \in FrameType, n # 0
        PROVE  LET s == Append(Append(p, x), y) IN
               /\ Len(s) = n + 1 /\ \A i \in 1..n - 1 : s[i] = frames[i]
               /\ s[n] = x /\ s[n + 1] = y
    <2> DEFINE r == Append(p, x)
    <2> HIDE DEF p
    <2>1. /\ r \in Seq(FrameType) /\ Len(r) = n /\ r[n] = x
          /\ \A i \in 1..n - 1 : r[i] = p[i]
      BY <1>1, <1>3, PushType
    <2> HIDE DEF r
    <2>2. /\ Len(Append(r, y)) = n + 1 /\ Append(r, y)[n + 1] = y
          /\ \A i \in 1..n : Append(r, y)[i] = r[i]
      BY <1>1, <2>1, PushType
    <2>3. Append(r, y)[n] = x /\ \A i \in 1..n - 1 : Append(r, y)[i] = frames[i]
      BY <1>1, <1>3, <2>1, <2>2
    <2> QED  BY <2>2, <2>3 DEF r
  <1>4. ASSUME n # 0
        PROVE  /\ Len(q) = IF n = 1 THEN 0 ELSE n - 2
               /\ \A i \in 1..n - 2 : q[i] = frames[i]
    <2>1. p = <<>> <=> n = 1
      <3> HIDE DEF p
      <3> QED  BY <1>1, <1>4
    <2> HIDE DEF p, q
    <2>2. n \in Nat
      BY <1>0
    <2> HIDE DEF n
    <2>3. CASE n = 1
      BY <1>2, <2>1, <2>3
    <2>4. CASE n # 1
      <3>1. Len(p) = n - 1 /\ Len(q) = n - 2
        BY <1>1, <1>2, <1>4, <2>1, <2>2, <2>4
      <3>2. \A i \in 1..n - 2 : q[i] = p[i] /\ p[i] = frames[i]
        BY <1>1, <1>2, <2>2, <3>1
      <3> QED  BY <2>4, <3>1, <3>2
    <2> QED  BY <2>3, <2>4
  <1> HIDE DEF p, q
  <1>5. ASSUME frames' = p, n # 0
        PROVE  Len(frames') = n - 1 /\ \A i \in 1..n - 1 : frames'[i] = frames[i]
    BY <1>1, <1>5
  <1>6. ASSUME frames' = q, n # 0
        PROVE  /\ Len(frames') = IF n = 1 THEN 0 ELSE n - 2
               /\ \A i \in 1..n - 2 : frames'[i] = frames[i]
    BY <1>4, <1>6
  <1> QED  BY <1>3, <1>5, <1>6, SMTT(30) DEF p, q

\* Frames that stay where they are owe what they owed.
LEMMA OwedBelow ==
    ASSUME TypeOK, Structural, NEW m \in Int, m <= Len(frames), m <= Len(frames'),
           \A i \in 1..m : frames'[i].kind = frames[i].kind
    PROVE  \A i \in 1..m : (i \in Guards' <=> i \in Guards) /\ (i \in Owed' <=> i \in Owed)
  <1>1. DOMAIN frames = 1..Len(frames) /\ DOMAIN frames' = 1..Len(frames')
    BY FramesStep
  <1>2. Len(frames) \in Nat /\ Len(frames') \in Nat
    BY FramesStep
  <1>3. \A i \in 1..m : i \in DOMAIN frames /\ i \in DOMAIN frames'
    BY <1>1, <1>2
  <1>4. \A i \in 1..m : i \in Guards' <=> i \in Guards
    BY <1>3 DEF Guards
  <1>5. ASSUME NEW i \in 1..m
        PROVE  (\E j \in Guards' : j < i) <=> (\E j \in Guards : j < i)
    <2>1. \A j \in Guards : j < i => j \in 1..m
      BY <1>1, <1>2 DEF Guards
    <2>2. \A j \in Guards' : j < i => j \in 1..m
      BY <1>1, <1>2 DEF Guards
    <2> QED  BY <1>4, <2>1, <2>2
  <1> QED  BY <1>3, <1>4, <1>5 DEF Owed

\* The count of a finite set under adding and removing one element.
LEMMA SubsetCount ==
    ASSUME NEW S, IsFiniteSet(S), NEW T, NEW x
    PROVE  /\ Cardinality(S) \in Nat
           /\ T \subseteq S => Cardinality(T) <= Cardinality(S)
           /\ T \subseteq S \cup {x} => Cardinality(T) <= Cardinality(S) + 1
           /\ T \subseteq S \ {x} /\ x \in S => Cardinality(T) <= Cardinality(S) - 1
           /\ T \subseteq S \cup {x} => Cardinality(T) \in Nat
  <1>1. Cardinality(S) \in Nat
    BY FS_CardinalityType
  <1>2. /\ IsFiniteSet(S \cup {x})
        /\ Cardinality(S \cup {x}) = IF x \in S THEN Cardinality(S) ELSE Cardinality(S) + 1
    BY FS_AddElement
  <1>3. /\ IsFiniteSet(S \ {x})
        /\ Cardinality(S \ {x}) = IF x \in S THEN Cardinality(S) - 1 ELSE Cardinality(S)
    BY FS_RemoveElement
  <1>4. T \subseteq S => Cardinality(T) <= Cardinality(S)
    BY FS_Subset
  <1>5. T \subseteq S \cup {x} => Cardinality(T) <= Cardinality(S \cup {x}) /\ Cardinality(T) \in Nat
    BY <1>2, FS_Subset, FS_CardinalityType
  <1>6. T \subseteq S \ {x} => Cardinality(T) <= Cardinality(S \ {x})
    BY <1>3, FS_Subset
  <1>7. T \subseteq S \cup {x} => Cardinality(T) <= Cardinality(S) + 1
    <2>1. Cardinality(S \cup {x}) \in {Cardinality(S), Cardinality(S) + 1}
      BY <1>2
    <2> HIDE DEF Cardinality
    <2> QED  BY <1>1, <1>5, <2>1
  <1>8. T \subseteq S \ {x} /\ x \in S => Cardinality(T) <= Cardinality(S) - 1
    BY <1>3, <1>6
  <1> QED  BY <1>1, <1>4, <1>5, <1>7, <1>8

\* The conditions in the list are enough for the frames that will pop one.
LEMMA OwedStep ==
    ASSUME TypeOK, OwedInv, Structural
    PROVE  OwedInv'
  <1> DEFINE n == Len(frames)
  <1>0. /\ DOMAIN frames = 1..n /\ DOMAIN frames' = 1..Len(frames')
        /\ n \in Nat /\ Len(frames') \in Nat
        /\ Len(conds) \in Nat
    BY FramesStep, CondsStep
  <1>1. /\ conds \in Seq(CondType) /\ frames \in Seq(FrameType) /\ counter \in 0..MaxConds
    BY DEF TypeOK, CondType, Conditions, FrameType
  <1>2. IsFiniteSet(Owed)
    <2>1. Owed \in SUBSET (1..n)
      BY <1>0 DEF Owed, Guards
    <2>2. IsFiniteSet(1..n)
      BY <1>0, FS_Interval
    <2> QED  BY <2>1, <2>2, FS_Subset
  <1>3. Cardinality(Owed) \in Nat /\ Cardinality(Owed) <= Len(conds)
    BY <1>2, FS_CardinalityType DEF OwedInv
  <1>4. Owed' \subseteq 1..Len(frames') /\ Guards' \subseteq 1..Len(frames')
    BY <1>0 DEF Owed, Guards
  <1>5. Len(Pop(conds)) = IF conds = <<>> THEN 0 ELSE Len(conds) - 1
    BY <1>1, PopType
  <1>6. /\ \A x : Append(conds, x) # <<>>
        /\ \A x \in CondType : Len(Append(conds, x)) = Len(conds) + 1
    BY <1>1
  <1>7. Guards' = {} => Owed' = {} /\ Cardinality(Owed') = 0
    BY FS_EmptySet DEF Owed
  <1>8. (InUnknown <=> Guards # {}) /\ Guards \subseteq Owed
    BY DEF InUnknown, Owed
  <1>9. ASSUME NEW x, Owed' \subseteq Owed \cup {x}, Len(conds') = Len(conds) + 1
        PROVE  OwedInv'
    BY <1>0, <1>2, <1>3, <1>9, SubsetCount DEF OwedInv
  <1>10. ASSUME NEW x \in Owed, Owed' \subseteq Owed \ {x}, conds' = Pop(conds)
         PROVE  OwedInv'
    <2>1. Cardinality(Owed') <= Cardinality(Owed) - 1 /\ Cardinality(Owed) # 0
      BY <1>2, <1>10, SubsetCount, FS_EmptySet
    <2>2. Cardinality(Owed') \in Nat
      BY <1>2, <1>10, SubsetCount
    <2>3. conds # <<>>
      BY <1>1, <1>3, <2>1
    <2> QED  BY <1>0, <1>3, <1>5, <1>10, <2>1, <2>2, <2>3 DEF OwedInv
  <1>11. ASSUME Guards' = {}  PROVE  OwedInv'
    <2>1. Len(conds') \in Nat
      BY CondsStep
    <2> QED  BY <1>7, <1>11, <2>1 DEF OwedInv
  <1>12. Open => Condition(counter) \in CondType /\ Body("then", counter) \in FrameType
    BY <1>1, BoundsAssumption DEF Open, Condition, CondType, Body, FrameType, Bodies, Branches
  <1>13. CASE EnterThen \/ EnterLoop
    <2>1. /\ Len(frames') = n + 1 /\ \A i \in 1..n : frames'[i] = frames[i]
          /\ conds' = Append(conds, Condition(counter)) /\ Open
      BY <1>13, FramesStep DEF EnterThen, EnterLoop
    <2>2. Len(conds') = Len(conds) + 1
      BY <1>6, <1>12, <2>1
    <2>3. Owed' \subseteq Owed \cup {n + 1}
      <3>1. \A i \in 1..n : i \in Owed' => i \in Owed
        BY <1>0, <2>1, OwedBelow
      <3> QED  BY <1>0, <1>4, <2>1, <3>1
    <2> QED  BY <1>9, <2>2, <2>3
  <1>14. CASE EnterElse
    <2>1. conds # <<>>
      BY <1>14, ElseFindsCondition
    <2>2. /\ n # 0 /\ frames[n].kind = "then"
          /\ Len(frames') = n /\ \A i \in 1..n - 1 : frames'[i] = frames[i]
          /\ frames'[n].kind = "else"
      BY <1>14, <2>1, FramesStep
    <2>3. n \in Owed
      BY <1>0, <2>2 DEF Owed, Guards, Branches
    <2>4. Owed' \subseteq Owed
      <3>1. \A i \in 1..n - 1 : i \in Owed' => i \in Owed
        BY <1>0, <2>2, OwedBelow
      <3> QED  BY <1>0, <1>4, <2>2, <2>3, <3>1
    <2>5. Len(conds') = Len(conds)
      <3>1. conds' = [conds EXCEPT ![Len(conds)].branch = FALSE]
        BY <1>14, <2>1 DEF EnterElse
      <3>2. DOMAIN conds' = DOMAIN conds
        BY <3>1
      <3> QED  BY <3>2, CondsStep
    <2>6. Cardinality(Owed') <= Cardinality(Owed) /\ Cardinality(Owed') \in Nat
      BY <1>2, <2>4, SubsetCount
    <2> QED  BY <1>0, <1>3, <2>5, <2>6 DEF OwedInv
  <1>15. CASE LeaveIf \/ EndPass \/ EndUnknownPass
    <2>1. /\ Innermost \in {"then", "else", "pass", "first", "again"} /\ conds' = Pop(conds)
          /\ \/ frames' = Pop(frames)
             \/ frames' = Pop(Pop(frames)) /\ Innermost = "again"
      BY <1>15, <1>1, InnermostIs DEF LeaveIf, EndPass, EndUnknownPass
    <2>2. n # 0 /\ Innermost = frames[n].kind
      BY <1>1, <2>1, InnermostIs
    <2>3. \A i \in 1..Len(frames') : i < n /\ (i \in Guards' <=> i \in Guards)
                                 /\ (i \in Owed' <=> i \in Owed)
      <3>1. Len(frames') < n /\ \A i \in 1..Len(frames') : frames'[i] = frames[i]
        <4>1. CASE frames' = Pop(frames)
          <5>1. Len(frames') = n - 1 /\ \A i \in 1..n - 1 : frames'[i] = frames[i]
            BY <2>2, <4>1, FramesPop
          <5> HIDE DEF n
          <5>2. Len(frames') < n
            BY <1>0, <5>1
          <5> QED  BY <5>1, <5>2
        <4>2. CASE frames' = Pop(Pop(frames))
          <5>1. /\ Len(frames') = IF n = 1 THEN 0 ELSE n - 2
                /\ \A i \in 1..n - 2 : frames'[i] = frames[i]
            BY <2>2, <4>2, FramesPop
          <5> HIDE DEF n
          <5>2. Len(frames') < n
            BY <1>0, <2>2, <5>1
          <5>3. \A i \in 1..Len(frames') : i \in 1..n - 2
            BY <1>0, <2>2, <5>1
          <5> QED  BY <5>1, <5>2, <5>3
        <4> QED  BY <2>1, <4>1, <4>2
      <3> QED  BY <1>0, <3>1, OwedBelow
    <2>4. Owed' \subseteq Owed \ {n}
      <3> SUFFICES ASSUME NEW i \in Owed'  PROVE  i \in Owed /\ i < n
        BY <1>0
      <3>1. i \in 1..Len(frames')
        BY <1>4
      <3> QED  BY <2>3, <3>1
    <2>5. CASE n \in Owed
      BY <1>10, <2>1, <2>4, <2>5
    <2>6. CASE n \notin Owed
      <3>1. n \notin Guards /\ frames[n].kind = "pass"
        BY <1>0, <1>8, <2>1, <2>2, <2>6 DEF Guards, Branches
      <3>2. \A j \in Guards : ~(j < n)
        BY <1>0, <2>2, <2>6, <3>1 DEF Owed
      <3>3. Guards = {}
        BY <1>0, <3>1, <3>2 DEF Guards
      <3> QED  BY <1>4, <1>11, <2>3, <3>3
    <2> QED  BY <2>5, <2>6
  <1>16. CASE Pass
    <2> DEFINE kind == IF InUnknown THEN "unknown" ELSE "test"
               x == Loop(kind, Top(frames).passes + 1)
    <2>1. /\ Innermost = "test" /\ conds' = conds
          /\ frames' = Append(Append(Pop(frames), x), Body("pass", 0))
          /\ Top(frames).passes < MaxPasses
      BY <1>16 DEF Pass, Testing
    <2>2. n # 0 /\ frames[n].kind = "test" /\ Top(frames) \in FrameType
      BY <1>1, <2>1, InnermostIs
    <2>3. x \in FrameType /\ Body("pass", 0) \in FrameType
      BY <2>1, <2>2, BoundsAssumption DEF Loop, Body, FrameType, Bodies
    <2>4. /\ Len(frames') = n + 1 /\ \A i \in 1..n - 1 : frames'[i] = frames[i]
          /\ frames'[n] = x /\ frames'[n + 1] = Body("pass", 0)
      <3> HIDE DEF x
      <3> QED  BY <2>1, <2>2, <2>3, FramesPop
    <2>5. \A i \in 1..n - 1 : (i \in Guards' <=> i \in Guards) /\ (i \in Owed' <=> i \in Owed)
      BY <1>0, <2>4, OwedBelow, SMTT(30)
    <2>6. n \notin Guards' /\ n + 1 \notin Guards' /\ n \notin Guards
      BY <2>2, <2>4 DEF Guards, Loop, Body, Branches
    <2>7. CASE InUnknown
      <3>1. n \in Owed
        <4>1. PICK j \in Guards : TRUE
          BY <1>8, <2>7
        <4>2. j < n
          BY <1>0, <2>6 DEF Guards
        <4> QED  BY <1>0, <2>2, <4>2 DEF Owed
      <3>2. frames'[n].kind = "unknown"
        BY <2>4, <2>7 DEF Loop
      <3>3. n \notin Owed'
        BY <2>6, <3>2 DEF Owed
      <3>4. Owed' \subseteq (Owed \ {n}) \cup {n + 1}
        <4> SUFFICES ASSUME NEW i \in Owed'  PROVE  i \in (Owed \ {n}) \cup {n + 1}
          OBVIOUS
        <4>1. i \in 1..n - 1 \/ i = n + 1
          BY <1>0, <1>4, <2>4, <3>3
        <4> QED  BY <1>0, <2>5, <4>1
      <3>5. /\ Cardinality(Owed') <= Cardinality(Owed \ {n}) + 1
            /\ Cardinality(Owed \ {n}) = Cardinality(Owed) - 1
            /\ Cardinality(Owed') \in Nat
        <4>1. IsFiniteSet(Owed \ {n}) /\ Cardinality(Owed \ {n}) = Cardinality(Owed) - 1
          BY <1>2, <3>1, FS_RemoveElement
        <4> QED  BY <3>4, <4>1, SubsetCount
      <3> QED  BY <1>0, <1>3, <2>1, <3>5 DEF OwedInv
    <2>8. CASE ~InUnknown
      <3>1. Guards' = {}
        BY <1>0, <1>4, <1>8, <2>4, <2>5, <2>6, <2>8
      <3> QED  BY <1>11, <3>1
    <2> QED  BY <2>7, <2>8
  <1>17. CASE ExitLoop
    <2>1. frames' = Pop(frames) /\ conds' = conds /\ n # 0
      BY <1>1, <1>17, InnermostIs DEF ExitLoop, Testing
    <2>2. Len(frames') = n - 1 /\ \A i \in 1..n - 1 : frames'[i] = frames[i]
      BY <2>1, FramesPop
    <2>3. Owed' \subseteq Owed
      BY <1>0, <1>4, <2>2, OwedBelow
    <2>4. Cardinality(Owed') <= Cardinality(Owed) /\ Cardinality(Owed') \in Nat
      BY <1>2, <2>3, SubsetCount
    <2> QED  BY <1>0, <1>3, <2>1, <2>4 DEF OwedInv
  <1>18. ASSUME NEW from \in SUBSET {"test", "unknown", "twice"}, NEW kind \in {"first", "again"},
                NEW to \in {"twice", "over"}, UnknownPass(from, kind, to)
         PROVE  OwedInv'
    <2>1. /\ Innermost \in {"test", "unknown", "twice"} /\ Open
          /\ conds' = Append(conds, Condition(counter))
          /\ frames' = Append(Append(Pop(frames), Loop(to, 0)), Body(kind, counter))
      BY <1>18 DEF UnknownPass, Testing
    <2>2. n # 0
      BY <1>1, <2>1, InnermostIs
    <2>3. Loop(to, 0) \in FrameType /\ Body(kind, counter) \in FrameType
      BY <1>1, BoundsAssumption DEF Loop, Body, FrameType, Bodies, Branches
    <2>4. /\ Len(frames') = n + 1 /\ \A i \in 1..n - 1 : frames'[i] = frames[i]
          /\ frames'[n] = Loop(to, 0)
      BY <2>1, <2>2, <2>3, FramesPop
    <2>5. \A i \in 1..n - 1 : i \in Owed' => i \in Owed
      BY <1>0, <2>4, OwedBelow
    <2>6. n \notin Owed'
      <3>1. frames'[n].kind \in {"twice", "over"}
        BY <2>4 DEF Loop
      <3> QED  BY <3>1 DEF Owed, Guards, Branches
    <2>7. Owed' \subseteq Owed \cup {n + 1}
      BY <1>0, <1>4, <2>4, <2>5, <2>6
    <2>8. Len(conds') = Len(conds) + 1
      BY <1>6, <1>12, <2>1
    <2> QED  BY <1>9, <2>7, <2>8
  <1>19. CASE FirstPass \/ SecondPass
    BY <1>18, <1>19 DEF FirstPass, SecondPass
  <1> QED  BY <1>13, <1>14, <1>15, <1>16, <1>17, <1>19 DEF Structural

\* Without loops inside unknown conditionals the last conditions of the list are
\* those of the frames, whatever loops before have left in it or taken from it.
LEMMA ShapeStep ==
    ASSUME TypeOK, OwedInv, ~nested, FramesInv, Structural
    PROVE  FramesInv'
  <1> DEFINE n == Len(frames)  c == Len(conds)
  <1>0. /\ DOMAIN frames = 1..n /\ DOMAIN frames' = 1..Len(frames')
        /\ n \in Nat /\ Len(frames') \in Nat
        /\ DOMAIN conds = 1..c /\ DOMAIN conds' = 1..Len(conds')
        /\ c \in Nat /\ Len(conds') \in Nat
    BY FramesStep, CondsStep
  <1>1. /\ conds \in Seq(CondType) /\ frames \in Seq(FrameType) /\ counter \in 0..MaxConds
    BY DEF TypeOK, CondType, Conditions, FrameType
  <1>2. Guards \subseteq 1..n /\ Guards' \subseteq 1..Len(frames')
    BY <1>0 DEF Guards
  <1>3. \A k \in DOMAIN conds' :
           IF k \in DOMAIN conds THEN EnterElse \/ conds'[k] = conds[k]
           ELSE k = c + 1 /\ conds'[k] = Condition(counter)
    BY CondsStep
  <1>4. Len(Pop(conds)) = IF conds = <<>> THEN 0 ELSE c - 1
    BY <1>1, PopType
  <1>5. Open => Condition(counter) \in CondType /\ Body("then", counter) \in FrameType
    BY <1>1, BoundsAssumption DEF Open, Condition, CondType, Body, FrameType, Bodies, Branches
  <1>6. \A x \in CondType : conds' = Append(conds, x) => Len(conds') = c + 1 /\ conds'[c + 1] = x
    BY <1>1
  <1>7. n # 0 /\ n \notin Guards => Guards = {}
    BY <1>0, <1>2 DEF FramesInv
  <1>8. Guards = {} => \A k \in DOMAIN conds : conds[k].branch
    BY DEF FramesInv
  <1>9. ASSUME Guards' = {}, \A k \in DOMAIN conds' : conds'[k].branch
        PROVE  FramesInv'
    BY <1>9 DEF FramesInv
  <1>10. Condition(counter).branch
    BY DEF Condition
  <1>11. CASE EnterThen
    <2>1. /\ Len(frames') = n + 1 /\ \A i \in 1..n : frames'[i] = frames[i]
          /\ frames'[n + 1] = Body("then", counter)
          /\ conds' = Append(conds, Condition(counter)) /\ Open
      BY <1>11, FramesStep DEF EnterThen
    <2>2. Len(conds') = c + 1 /\ conds'[c + 1] = Condition(counter)
      BY <1>5, <1>6, <2>1
    <2>3. \A k \in 1..c : conds'[k] = conds[k]
      BY <1>1, <2>1
    <2>4. \A i \in 1..n + 1 : i \in Guards' <=> i \in Guards \/ i = n + 1
      BY <1>0, <1>2, <2>1 DEF Guards, Body, Branches
    <2>5. Shift' = Shift /\ Shift = c - n /\ n + 1 + Shift = c + 1
      BY <1>0, <2>1, <2>2 DEF Shift
    <2>6. ASSUME NEW i \in Guards'
          PROVE  /\ \A j \in i..Len(frames') : j \in Guards'
                 /\ frames'[i].kind \in {"first", "again"} => i - 1 \notin Guards'
                 /\ i + Shift \in DOMAIN conds'
                 /\ IsOf(conds'[i + Shift], frames'[i])
      <3>1. CASE i = n + 1
        <4>1. frames'[n + 1].kind = "then" /\ frames'[n + 1].id = counter
          BY <2>1 DEF Body
        <4>2. IsOf(conds'[c + 1], frames'[n + 1])
          BY <2>2, <4>1 DEF IsOf, Condition
        <4> HIDE DEF n, c
        <4>3. \A j \in n + 1..Len(frames') : j \in Guards'
          BY <1>0, <2>1, <2>4
        <4>4. c + 1 \in DOMAIN conds'
          BY <1>0, <2>2
        <4>5. i + Shift = c + 1
          BY <2>5, <3>1
        <4>6. /\ \A j \in i..Len(frames') : j \in Guards'
              /\ IsOf(conds'[c + 1], frames'[i])
          BY <3>1, <4>2, <4>3
        <4> QED  BY <3>1, <4>1, <4>4, <4>5, <4>6
      <3>2. CASE i # n + 1
        <4>1. i \in Guards /\ i \in 1..n
          BY <1>2, <2>1, <2>4, <3>2
        <4>2. /\ \A j \in i..n : j \in Guards
              /\ frames[i].kind \in {"first", "again"} => i - 1 \notin Guards
              /\ i + Shift \in 1..c /\ IsOf(conds[i + Shift], frames[i])
          BY <1>0, <4>1 DEF FramesInv
        <4>3. \A j \in i..n + 1 : j \in Guards'
          BY <1>0, <2>4, <4>1, <4>2
        <4>4. i - 1 \notin Guards => i - 1 \notin Guards'
          BY <1>0, <1>2, <2>1, <2>4, <4>1
        <4> QED  BY <1>0, <2>1, <2>2, <2>3, <4>1, <4>2, <4>3, <4>4
      <3> QED  BY <3>1, <3>2
    <2>7. ASSUME NEW k \in DOMAIN conds', ~conds'[k].branch  PROVE  k - Shift \in Guards'
      <3>1. k \in 1..c /\ ~conds[k].branch
        BY <1>0, <1>10, <2>2, <2>3, <2>7
      <3>2. k - Shift \in Guards
        BY <1>0, <3>1 DEF FramesInv
      <3> QED
        <4> HIDE DEF n, c
        <4> DEFINE i == k - Shift
        <4>0. i \in Guards
          BY <3>2
        <4> HIDE DEF i
        <4>1. i \in 1..n + 1
          BY <1>0, <1>2, <4>0
        <4>2. i \in Guards'
          BY <2>4, <4>0, <4>1
        <4> QED  BY <4>2 DEF i
    <2> QED  BY <2>5, <2>6, <2>7 DEF FramesInv
  <1>12. CASE EnterElse
    <2>1. conds # <<>>
      BY <1>12, ElseFindsCondition
    <2>2. /\ n # 0 /\ frames[n].kind = "then"
          /\ Len(frames') = n /\ \A i \in 1..n - 1 : frames'[i] = frames[i]
          /\ frames'[n].kind = "else" /\ frames'[n].id = frames[n].id
      BY <1>12, <2>1, FramesStep
    <2>3. n \in Guards /\ Guards' = Guards
      <3>1. n \in Guards /\ n \in Guards'
        BY <1>0, <2>2 DEF Guards, Branches
      <3>2. \A i \in 1..n - 1 : i \in Guards' <=> i \in Guards
        BY <1>0, <2>2 DEF Guards
      <3> QED
        <4>1. ASSUME NEW i \in 1..n  PROVE  i \in Guards' <=> i \in Guards
          <5> HIDE DEF n
          <5>1. i = n \/ i \in 1..n - 1
            BY <1>0
          <5> QED  BY <3>1, <3>2, <5>1
        <4> HIDE DEF n, c
        <4> QED  BY <1>2, <2>2, <3>1, <4>1
    <2>4. conds' = [conds EXCEPT ![c].branch = FALSE] /\ c \in DOMAIN conds
      <3> HIDE DEF n, c
      <3> QED  BY <1>0, <1>1, <1>12, <2>1 DEF EnterElse
    <2>5. /\ DOMAIN conds' = DOMAIN conds /\ Len(conds') = c
          /\ \A k \in 1..c - 1 : conds'[k] = conds[k]
          /\ conds'[c] = [conds[c] EXCEPT !.branch = FALSE]
      BY <1>0, <2>4
    <2>6. Shift' = Shift /\ Shift = c - n /\ n + Shift = c
      BY <1>0, <2>2, <2>5 DEF Shift
    <2>7. IsOf(conds'[c], frames'[n])
      <3>1. conds[c] \in CondType /\ conds[c].id = frames[n].id
        <4>1. IsOf(conds[n + Shift], frames[n])
          BY <2>3 DEF FramesInv
        <4> QED  BY <1>1, <2>4, <2>6, <4>1 DEF IsOf
      <3>2. conds'[c] = [id |-> frames[n].id, branch |-> FALSE]
        BY <2>5, <3>1 DEF CondType
      <3> QED  BY <2>2, <3>2 DEF IsOf
    <2>8. ASSUME NEW i \in Guards'
          PROVE  /\ \A j \in i..Len(frames') : j \in Guards'
                 /\ frames'[i].kind \in {"first", "again"} => i - 1 \notin Guards'
                 /\ i + Shift \in DOMAIN conds'
                 /\ IsOf(conds'[i + Shift], frames'[i])
      <3>1. /\ \A j \in i..n : j \in Guards
            /\ frames[i].kind \in {"first", "again"} => i - 1 \notin Guards
            /\ i + Shift \in 1..c /\ IsOf(conds[i + Shift], frames[i])
        BY <1>0, <2>3 DEF FramesInv
      <3>2. CASE i = n
        BY <1>0, <2>2, <2>3, <2>5, <2>6, <2>7, <3>1, <3>2
      <3>3. CASE i # n
        <4>1. i \in 1..n - 1 /\ i + Shift \in 1..c - 1
          <5> HIDE DEF n, c
          <5> QED  BY <1>0, <1>2, <2>3, <2>6, <3>1, <3>3
        <4> QED  BY <1>0, <2>2, <2>3, <2>5, <3>1, <4>1
      <3> QED  BY <3>2, <3>3
    <2>9. ASSUME NEW k \in DOMAIN conds', ~conds'[k].branch  PROVE  k - Shift \in Guards'
      <3>1. CASE k = c
        BY <1>0, <2>3, <2>6, <3>1
      <3>2. CASE k # c
        BY <1>0, <2>3, <2>5, <2>9, <3>2 DEF FramesInv
      <3> QED  BY <3>1, <3>2
    <2> QED  BY <2>6, <2>8, <2>9 DEF FramesInv
  <1>13. CASE LeaveIf \/ EndUnknownPass
    <2>1. /\ Innermost \in {"then", "else", "first", "again"} /\ conds' = Pop(conds)
          /\ \/ frames' = Pop(frames)
             \/ frames' = Pop(Pop(frames)) /\ Innermost = "again"
      BY <1>13, <1>1, InnermostIs DEF LeaveIf, EndUnknownPass
    <2>2. n # 0 /\ Innermost = frames[n].kind /\ n \in Guards
      BY <1>0, <1>1, <2>1, InnermostIs DEF Guards, Branches
    <2>3. n + Shift = c /\ c \in 1..c /\ Shift = c - n
      BY <1>0, <2>2 DEF FramesInv, Shift
    <2>4. Len(conds') = c - 1 /\ \A k \in 1..c - 1 : conds'[k] = conds[k]
      <3>1. conds # <<>>
        BY <1>1, <2>3
      <3> QED  BY <1>0, <1>1, <1>4, <2>1, <3>1, PopType
    <2>5. CASE frames' = Pop(frames)
      <3>1. Len(frames') = n - 1 /\ \A i \in 1..n - 1 : frames'[i] = frames[i]
        BY <2>2, <2>5, FramesPop
      <3>2. Guards' = Guards \ {n}
        BY <1>0, <1>2, <3>1 DEF Guards
      <3>3. Shift' = Shift
        BY <1>0, <2>4, <3>1 DEF Shift
      <3>4. ASSUME NEW i \in Guards'
            PROVE  /\ \A j \in i..Len(frames') : j \in Guards'
                   /\ frames'[i].kind \in {"first", "again"} => i - 1 \notin Guards'
                   /\ i + Shift \in DOMAIN conds'
                   /\ IsOf(conds'[i + Shift], frames'[i])
        <4>1. i \in Guards /\ i \in 1..n - 1
          <5> HIDE DEF n, c
          <5> QED  BY <1>0, <1>2, <3>2
        <4>2. /\ \A j \in i..n : j \in Guards
              /\ frames[i].kind \in {"first", "again"} => i - 1 \notin Guards
              /\ i + Shift \in 1..c /\ IsOf(conds[i + Shift], frames[i])
          BY <1>0, <4>1 DEF FramesInv
        <4>3. i + Shift \in 1..c - 1
          BY <1>0, <2>3, <4>1, <4>2
        <4> QED
          <5> HIDE DEF n, c
          <5> QED  BY <1>0, <2>4, <3>1, <3>2, <4>1, <4>2, <4>3
      <3>5. ASSUME NEW k \in DOMAIN conds', ~conds'[k].branch  PROVE  k - Shift \in Guards'
        <4>1. k \in 1..c - 1 /\ ~conds[k].branch
          BY <1>0, <2>4, <3>5
        <4>2. k - Shift \in Guards
          BY <1>0, <4>1 DEF FramesInv
        <4> QED  BY <1>0, <2>3, <3>2, <4>1, <4>2
      <3> QED  BY <3>3, <3>4, <3>5 DEF FramesInv
    <2>6. CASE frames' = Pop(Pop(frames)) /\ Innermost = "again"
      <3>1. Guards = {n}
        <4>1. n - 1 \notin Guards
          BY <2>2, <2>6 DEF FramesInv
        <4>2. \A i \in Guards : n - 1 \in i..n => n - 1 \in Guards
          BY DEF FramesInv
        <4> QED
          <5> HIDE DEF n, c
          <5>1. ASSUME NEW i \in Guards, i # n  PROVE  FALSE
            <6>1. n - 1 \in i..n
              BY <1>0, <1>2, <5>1
            <6> QED  BY <4>1, <4>2, <6>1
          <5> QED  BY <2>2, <5>1
      <3>2. /\ Len(frames') = IF n = 1 THEN 0 ELSE n - 2
            /\ \A i \in 1..n - 2 : frames'[i] = frames[i]
        BY <2>2, <2>6, FramesPop
      <3>3. \A i \in 1..Len(frames') : i \in 1..n - 2
        <4> HIDE DEF n, c
        <4> QED  BY <1>0, <2>2, <3>2
      <3>4. Guards' = {}
        <4> SUFFICES ASSUME NEW i \in Guards'  PROVE  FALSE
          OBVIOUS
        <4>1. i \in 1..n - 2
          BY <1>2, <3>3
        <4>2. i \in Guards
          <5> HIDE DEF n, c
          <5> QED  BY <1>0, <3>2, <4>1 DEF Guards
        <4> QED  BY <1>0, <3>1, <4>1, <4>2
      <3>5. ASSUME NEW k \in DOMAIN conds'  PROVE  conds'[k].branch
        <4> SUFFICES ASSUME ~conds'[k].branch  PROVE  FALSE
          OBVIOUS
        <4>1. k \in 1..c - 1 /\ ~conds[k].branch
          BY <1>0, <2>4
        <4>2. k - Shift \in Guards
          BY <1>0, <4>1 DEF FramesInv
        <4> QED  BY <1>0, <2>3, <3>1, <4>1, <4>2
      <3> QED  BY <1>9, <3>4, <3>5
    <2> QED  BY <2>1, <2>5, <2>6
  <1>14. CASE EnterLoop \/ Pass \/ EndPass \/ ExitLoop
    <2>1. Guards = {}
      <3>1. CASE EnterLoop
        BY <3>1 DEF EnterLoop, InUnknown
      <3>2. CASE Pass \/ EndPass \/ ExitLoop
        <4>1. Innermost \in {"test", "pass"}
          BY <3>2 DEF Pass, EndPass, ExitLoop, Testing
        <4>2. n # 0 /\ n \notin Guards
          BY <1>1, <4>1, InnermostIs DEF Guards, Branches
        <4> QED  BY <1>7, <4>2
      <3> QED  BY <1>14, <3>1, <3>2
    <2>2. \A k \in DOMAIN conds' : conds'[k].branch
      BY <1>3, <1>8, <1>10, <1>14, <2>1 DEF EnterLoop, Pass, EndPass, ExitLoop, EnterElse, Testing
    <2>3. ASSUME NEW m \in 0..n, \A i \in 1..m : frames'[i] = frames[i],
                 \A i \in m + 1..Len(frames') : frames'[i].kind \notin Branches
          PROVE  Guards' = {}
      <3> SUFFICES ASSUME NEW i \in Guards'  PROVE  FALSE
        OBVIOUS
      <3>1. i \in 1..Len(frames') /\ frames'[i].kind \in Branches
        BY <1>2 DEF Guards
      <3>2. i \in 1..m
        BY <1>0, <2>3, <3>1
      <3> QED  BY <1>0, <2>1, <2>3, <3>1, <3>2 DEF Guards
    <2>4. CASE EnterLoop
      <3>1. /\ Len(frames') = n + 1 /\ \A i \in 1..n : frames'[i] = frames[i]
            /\ frames'[n + 1].kind = "test"
        BY <2>4, FramesStep
      <3>2. \A i \in n + 1..Len(frames') : frames'[i].kind \notin Branches
        BY <1>0, <3>1 DEF Branches
      <3> QED  BY <1>0, <1>9, <2>2, <2>3, <3>1, <3>2
    <2>5. CASE EndPass \/ ExitLoop
      <3>1. frames' = Pop(frames) /\ n # 0
        BY <1>1, <2>5, InnermostIs DEF EndPass, ExitLoop, Testing
      <3>2. Len(frames') = n - 1 /\ \A i \in 1..n - 1 : frames'[i] = frames[i]
        BY <3>1, FramesPop
      <3>3. n - 1 \in 0..n /\ \A i \in n - 1 + 1..Len(frames') : frames'[i].kind \notin Branches
        BY <1>0, <3>1, <3>2
      <3>4. Guards' = {}
        BY <2>3, <3>2, <3>3
      <3> QED  BY <1>9, <2>2, <3>4
    <2>6. CASE Pass
      <3> DEFINE x == Loop("test", Top(frames).passes + 1)
      <3>1. /\ Innermost = "test" /\ Top(frames).passes < MaxPasses
            /\ frames' = Append(Append(Pop(frames), x), Body("pass", 0))
        BY <2>1, <2>6 DEF Pass, Testing, InUnknown
      <3>2. n # 0 /\ Top(frames) \in FrameType
        BY <1>1, <3>1, InnermostIs
      <3>3. x \in FrameType /\ Body("pass", 0) \in FrameType
        BY <3>1, <3>2, BoundsAssumption DEF Loop, Body, FrameType, Bodies
      <3>4. /\ Len(frames') = n + 1 /\ \A i \in 1..n - 1 : frames'[i] = frames[i]
            /\ frames'[n] = x /\ frames'[n + 1] = Body("pass", 0)
        <4> HIDE DEF x
        <4> QED  BY <3>1, <3>2, <3>3, FramesPop
      <3>5. frames'[n].kind \notin Branches /\ frames'[n + 1].kind \notin Branches
        BY <3>4 DEF Loop, Body, Branches
      <3>6. n - 1 \in 0..n /\ \A i \in n - 1 + 1..Len(frames') : frames'[i].kind \notin Branches
        BY <1>0, <3>2, <3>4, <3>5
      <3>7. Guards' = {}
        BY <2>3, <3>4, <3>6
      <3> QED  BY <1>9, <2>2, <3>7
    <2> QED  BY <1>14, <2>4, <2>5, <2>6
  <1>15. ASSUME NEW from \in SUBSET {"test", "unknown", "twice"}, NEW kind \in {"first", "again"},
                NEW to \in {"twice", "over"}, UnknownPass(from, kind, to)
         PROVE  FramesInv'
    <2>1. /\ Innermost \in {"test", "unknown", "twice"} /\ Open
          /\ conds' = Append(conds, Condition(counter))
          /\ frames' = Append(Append(Pop(frames), Loop(to, 0)), Body(kind, counter))
      BY <1>15 DEF UnknownPass, Testing
    <2>2. n # 0 /\ n \notin Guards /\ Guards = {}
      <3>1. n # 0 /\ n \notin Guards
        BY <1>1, <2>1, InnermostIs DEF Guards, Branches
      <3> QED  BY <1>7, <3>1
    <2>3. Loop(to, 0) \in FrameType /\ Body(kind, counter) \in FrameType
      BY <1>1, BoundsAssumption DEF Loop, Body, FrameType, Bodies, Branches
    <2>4. /\ Len(frames') = n + 1 /\ \A i \in 1..n - 1 : frames'[i] = frames[i]
          /\ frames'[n] = Loop(to, 0) /\ frames'[n + 1] = Body(kind, counter)
      BY <2>1, <2>2, <2>3, FramesPop
    <2>5. Guards' = {n + 1}
      <3>1. n + 1 \in Guards'
        BY <1>0, <2>4 DEF Guards, Body, Branches
      <3>2. n \notin Guards'
        BY <2>4 DEF Guards, Loop, Branches
      <3>3. \A i \in 1..n - 1 : i \notin Guards'
        BY <1>0, <2>2, <2>4 DEF Guards
      <3>4. \A i \in Guards' : i \in 1..n + 1
        BY <1>0, <2>4 DEF Guards
      <3>5. \A i \in Guards' : i = n + 1
        <4> SUFFICES ASSUME NEW i \in Guards'  PROVE  i = n + 1
          OBVIOUS
        <4>1. n \in Nat /\ i \in 1..n + 1 /\ i # n /\ i \notin 1..n - 1
          BY <1>0, <1>2, <3>2, <3>3, <3>4
        <4> HIDE DEF n
        <4> QED  BY <4>1
      <3> QED  BY <3>1, <3>5
    <2>6. Len(conds') = c + 1 /\ conds'[c + 1] = Condition(counter)
      BY <1>5, <1>6, <2>1
    <2>7. Shift' = c - n /\ n + 1 + Shift' = c + 1
      BY <1>0, <2>4, <2>6 DEF Shift
    <2>8. IsOf(conds'[c + 1], frames'[n + 1])
      <3>1. frames'[n + 1].id = counter /\ frames'[n + 1].kind # "else"
        BY <2>4 DEF Body
      <3> QED  BY <2>6, <3>1 DEF IsOf, Condition
    <2>9. \A k \in DOMAIN conds' : conds'[k].branch
      <3>1. \A k \in 1..c : conds'[k] = conds[k]
        BY <1>1, <2>1
      <3> QED  BY <1>0, <1>8, <1>10, <2>2, <2>6, <3>1
    <2>10. \A j \in n + 1..Len(frames') : j \in Guards'
      BY <1>0, <2>4, <2>5
    <2> QED
      <3> HIDE DEF n, c
      <3>1. ASSUME NEW i \in Guards'
            PROVE  /\ \A j \in i..Len(frames') : j \in Guards'
                   /\ i - 1 \notin Guards'
                   /\ i + Shift' \in DOMAIN conds'
                   /\ IsOf(conds'[i + Shift'], frames'[i])
        <4>1. i = n + 1
          BY <2>5
        <4>2. i - 1 \notin Guards' /\ c + 1 \in DOMAIN conds'
          BY <1>0, <2>5, <2>6, <4>1
        <4>3. i + Shift' = c + 1
          BY <2>7, <4>1
        <4>4. /\ \A j \in i..Len(frames') : j \in Guards'
              /\ IsOf(conds'[c + 1], frames'[i])
          BY <2>6, <2>8, <2>10, <4>1
        <4> QED  BY <4>2, <4>3, <4>4
      <3> QED  BY <2>9, <3>1 DEF FramesInv
  <1>16. CASE FirstPass \/ SecondPass
    BY <1>15, <1>16 DEF FirstPass, SecondPass
  <1> QED  BY <1>11, <1>12, <1>13, <1>14, <1>16 DEF Structural

-----------------------------------------------------------------------------
(* The conditions recorded for a cell *)

\* A frame of an unknown conditional keeps its id, and only the next one is new.
LEMMA OpenStep ==
    ASSUME TypeOK, OwedInv, Structural, NEW i \in Guards'
    PROVE  frames'[i].id = counter \/ \E j \in Guards : frames'[i].id = frames[j].id
  <1> DEFINE n == Len(frames)
  <1>0. /\ DOMAIN frames = 1..n /\ DOMAIN frames' = 1..Len(frames')
        /\ n \in Nat /\ Len(frames') \in Nat
    BY FramesStep
  <1>1. frames \in Seq(FrameType) /\ counter \in 0..MaxConds
    BY DEF TypeOK, FrameType
  <1>2. i \in 1..Len(frames') /\ frames'[i].kind \in Branches
    BY <1>0 DEF Guards
  <1>3. ASSUME i \in 1..n, frames'[i] = frames[i]  PROVE  i \in Guards
    BY <1>0, <1>2, <1>3 DEF Guards
  <1>4. CASE EnterThen \/ EnterLoop
    <2>1. /\ Len(frames') = n + 1 /\ \A j \in 1..n : frames'[j] = frames[j]
          /\ frames'[n + 1] = Body("then", counter) \/ frames'[n + 1].kind = "test"
      BY <1>4, FramesStep
    <2>2. frames'[n + 1].kind = "test" \/ frames'[n + 1].id = counter
      BY <2>1 DEF Body
    <2>3. i \in 1..n \/ i = n + 1
      BY <1>0, <1>2, <2>1
    <2> QED  BY <1>2, <1>3, <2>1, <2>2, <2>3 DEF Branches
  <1>5. CASE EnterElse
    <2>1. conds # <<>>
      BY <1>5, ElseFindsCondition
    <2>2. /\ n # 0 /\ frames[n].kind = "then"
          /\ Len(frames') = n /\ \A j \in 1..n - 1 : frames'[j] = frames[j]
          /\ frames'[n].id = frames[n].id
      BY <1>5, <2>1, FramesStep
    <2>3. CASE i = n
      BY <1>0, <2>2, <2>3 DEF Guards, Branches
    <2>4. CASE i # n
      <3>1. i \in 1..n - 1 /\ i \in 1..n
        <4> HIDE DEF n
        <4> QED  BY <1>0, <1>2, <2>2, <2>4
      <3> QED  BY <1>3, <2>2, <3>1
    <2> QED  BY <2>3, <2>4
  <1>6. CASE LeaveIf \/ EndPass \/ ExitLoop \/ EndUnknownPass
    <2>1. /\ n # 0
          /\ frames' = Pop(frames) \/ frames' = Pop(Pop(frames))
      BY <1>1, <1>6, InnermostIs DEF LeaveIf, EndPass, ExitLoop, EndUnknownPass, Testing
    <2>2. frames'[i] = frames[i] /\ i \in 1..n
      <3>1. CASE frames' = Pop(frames)
        <4>1. Len(frames') = n - 1 /\ \A j \in 1..n - 1 : frames'[j] = frames[j]
          BY <2>1, <3>1, FramesPop
        <4> HIDE DEF n
        <4> QED  BY <1>0, <1>2, <4>1
      <3>2. CASE frames' = Pop(Pop(frames))
        <4>1. /\ Len(frames') = IF n = 1 THEN 0 ELSE n - 2
              /\ \A j \in 1..n - 2 : frames'[j] = frames[j]
          BY <2>1, <3>2, FramesPop
        <4> HIDE DEF n
        <4>2. i \in 1..n - 2
          BY <1>0, <1>2, <2>1, <4>1
        <4> QED  BY <1>0, <4>1, <4>2
      <3> QED  BY <2>1, <3>1, <3>2
    <2> QED  BY <1>3, <2>2
  <1>7. ASSUME NEW x \in FrameType, NEW y \in FrameType, n # 0,
               frames' = Append(Append(Pop(frames), x), y),
               x.kind \notin Branches, y.kind \in Branches => y.id = counter
        PROVE  frames'[i].id = counter \/ \E j \in Guards : frames'[i].id = frames[j].id
    <2>1. /\ Len(frames') = n + 1 /\ \A j \in 1..n - 1 : frames'[j] = frames[j]
          /\ frames'[n] = x /\ frames'[n + 1] = y
      BY <1>7, FramesPop
    <2>2. i \in 1..n - 1 \/ i = n \/ i = n + 1
      <3> HIDE DEF n
      <3> QED  BY <1>0, <1>2, <2>1
    <2>3. CASE i \in 1..n - 1
      <3>1. i \in 1..n
        <4> HIDE DEF n
        <4> QED  BY <1>0, <2>3
      <3> QED  BY <1>3, <2>1, <2>3, <3>1
    <2> QED  BY <1>2, <1>7, <2>1, <2>2, <2>3
  <1>8. CASE Pass
    <2> DEFINE kind == IF InUnknown THEN "unknown" ELSE "test"
               x == Loop(kind, Top(frames).passes + 1)
    <2>1. /\ Innermost = "test" /\ Top(frames).passes < MaxPasses
          /\ frames' = Append(Append(Pop(frames), x), Body("pass", 0))
      BY <1>8 DEF Pass, Testing
    <2>2. n # 0 /\ Top(frames) \in FrameType
      BY <1>1, <2>1, InnermostIs
    <2>3. /\ x \in FrameType /\ Body("pass", 0) \in FrameType
          /\ x.kind \notin Branches /\ Body("pass", 0).kind \notin Branches
      BY <2>1, <2>2, BoundsAssumption DEF Loop, Body, FrameType, Bodies, Branches
    <2> HIDE DEF x
    <2> QED  BY <1>7, <2>1, <2>2, <2>3
  <1>9. ASSUME NEW from \in SUBSET {"test", "unknown", "twice"}, NEW kind \in {"first", "again"},
               NEW to \in {"twice", "over"}, UnknownPass(from, kind, to)
        PROVE  frames'[i].id = counter \/ \E j \in Guards : frames'[i].id = frames[j].id
    <2>1. /\ Innermost \in {"test", "unknown", "twice"} /\ Open
          /\ frames' = Append(Append(Pop(frames), Loop(to, 0)), Body(kind, counter))
      BY <1>9 DEF UnknownPass, Testing
    <2>2. n # 0
      BY <1>1, <2>1, InnermostIs
    <2>3. /\ Loop(to, 0) \in FrameType /\ Body(kind, counter) \in FrameType
          /\ Loop(to, 0).kind \notin Branches /\ Body(kind, counter).id = counter
      BY <1>1, BoundsAssumption DEF Loop, Body, FrameType, Bodies, Branches
    <2> QED  BY <1>7, <2>1, <2>2, <2>3
  <1>10. CASE FirstPass \/ SecondPass
    BY <1>9, <1>10 DEF FirstPass, SecondPass
  <1> QED  BY <1>4, <1>5, <1>6, <1>8, <1>10 DEF Structural

\* What has left the list of conditions does not come back.
LEMMA FormerStep ==
    ASSUME TypeOK, StackInv, Structural, NEW u \in Seq(CondType), Former(u)
    PROVE  Former(u)'
  <1>0. \A j \in DOMAIN u : u[j].id \in Nat /\ j \in Nat
    <2>1. \A j \in DOMAIN u : u[j] \in CondType /\ j \in Nat
      OBVIOUS
    <2> QED  BY <2>1, BoundsAssumption DEF CondType
  <1>1. \A j \in DOMAIN u : u[j].id < counter'
    BY <1>0, CondsStep DEF Former
  <1>2. ASSUME NEW j \in DOMAIN u, NEW k \in DOMAIN conds', u[j].id = conds'[k].id
        PROVE  /\ j = k
               /\ \A l \in 1..j - 1 : u[l].id = conds'[l].id
               /\ ~u[j].branch => ~conds'[k].branch
    <2>1. k \in DOMAIN conds /\ conds'[k].id = conds[k].id
      <3>1. k \notin DOMAIN conds => conds'[k].id = counter
        BY CondsStep DEF Condition
      <3>2. u[j].id < counter /\ u[j].id \in Nat
        BY <1>0 DEF Former
      <3>3. k \in DOMAIN conds
        BY <1>2, <3>1, <3>2, CondsStep
      <3> QED  BY <3>3, CondsStep
    <2>2. /\ j = k
          /\ \A l \in 1..j - 1 : u[l].id = conds[l].id
          /\ ~u[j].branch => ~conds[k].branch
      BY <1>2, <2>1 DEF Former
    <2>3. \A l \in 1..j - 1 : l \in DOMAIN conds /\ l \in DOMAIN conds'
      BY <1>0, <2>1, <2>2, CondsStep
    <2> QED  BY <2>1, <2>2, <2>3, CondsStep
  <1> QED  BY <1>1, <1>2 DEF Former

\* Control structures leave the cells, and what is known of them, alone.
LEMMA CellsKept ==
    ASSUME TypeOK, StackInv, OwedInv, CellsInv, Structural
    PROVE  CellsInv'
  <1>0. UNCHANGED <<nested, cell, history>>
    BY StructuralKeeps
  <1> SUFFICES ASSUME NEW c \in Cell
               PROVE  CellInv(c)' /\ (~nested => ExactInv(c)')
    BY <1>0 DEF CellsInv
  <1>1. CellInv(c) /\ (~nested => ExactInv(c))
    BY DEF CellsInv
  <1>2. cell[c] \notin {NoAssigned, Assigned} => cell[c].under \in Seq(CondType)
    BY DEF TypeOK, CondType, Conditions
  <1>3. CellInv(c)'
    BY <1>0, <1>1, <1>2, FormerStep DEF CellInv
  <1>4. Conflict(c)' = Conflict(c) /\ Recorded(c)' = Recorded(c)
    BY <1>0 DEF Conflict, Recorded
  <1>5. ASSUME ~nested, cell[c].is = "might", NEW i \in DOMAIN cell[c].under,
               cell[c].under[i].id \in OpenIds'
        PROVE  cell[c].under[i].id \in OpenIds
    <2>1. PICK k \in Guards' : cell[c].under[i].id = frames'[k].id
      BY <1>5 DEF OpenIds, Path
    <2>2. cell[c] \notin {NoAssigned, Assigned}
      BY <1>5, CellKinds
    <2>3. cell[c].under[i] \in CondType /\ cell[c].under[i].id < counter
      BY <1>1, <1>2, <1>5, <2>2 DEF CellInv, Former
    <2>4. cell[c].under[i].id # counter
      BY <2>3, BoundsAssumption DEF CondType, TypeOK
    <2>5. PICK j \in Guards : cell[c].under[i].id = frames[j].id
      BY <2>1, <2>4, OpenStep
    <2>6. [id |-> frames[j].id, branch |-> frames[j].kind # "else"] \in Path
      BY DEF Path
    <2> DEFINE f == [id |-> frames[j].id, branch |-> frames[j].kind # "else"]
    <2>7. f.id = frames[j].id
      OBVIOUS
    <2> HIDE DEF f
    <2> QED  BY <2>5, <2>6, <2>7 DEF OpenIds, f
  <1>6. ASSUME ~nested  PROVE  ExactInv(c)'
    BY <1>0, <1>1, <1>4, <1>5, <1>6 DEF ExactInv
  <1> QED  BY <1>3, <1>6

-----------------------------------------------------------------------------
(* Assignments *)

\* The conditions of the open conditionals are in the list, and a condition of
\* the list that is negated, or has the id of an open one, is one of them.
LEMMA PathInConds ==
    ASSUME TypeOK, StackInv, FramesInv
    PROVE  /\ \A f \in Path : \E k \in DOMAIN conds : conds[k] = f
           /\ \A k \in DOMAIN conds : ~conds[k].branch => conds[k] \in Path
           /\ \A k \in DOMAIN conds : conds[k].id \in OpenIds => conds[k] \in Path
  <1>0. conds \in Seq(CondType) /\ Path \in SUBSET CondType
    BY PathType DEF TypeOK, CondType, Conditions
  <1>1. ASSUME NEW f \in CondType, NEW g \in CondType, f.id = g.id, f.branch <=> g.branch
        PROVE  f = g
    BY <1>1 DEF CondType
  <1>2. ASSUME NEW i \in Guards
        PROVE  /\ i + Shift \in DOMAIN conds
               /\ conds[i + Shift] = [id |-> frames[i].id, branch |-> frames[i].kind # "else"]
    <2> DEFINE f == [id |-> frames[i].id, branch |-> frames[i].kind # "else"]
    <2>1. f \in CondType
      BY <1>0 DEF Path
    <2>2. i + Shift \in DOMAIN conds /\ IsOf(conds[i + Shift], frames[i])
      BY DEF FramesInv
    <2>3. conds[i + Shift] \in CondType
      BY <1>0, <2>2
    <2>4. f.id = frames[i].id /\ (f.branch <=> frames[i].kind # "else")
      OBVIOUS
    <2> HIDE DEF f
    <2>5. conds[i + Shift] = f
      BY <1>1, <2>1, <2>2, <2>3, <2>4 DEF IsOf
    <2> QED  BY <2>2, <2>5 DEF f
  <1>3. \A f \in Path : \E k \in DOMAIN conds : conds[k] = f
    BY <1>2 DEF Path
  <1>4. ASSUME NEW k \in DOMAIN conds, ~conds[k].branch  PROVE  conds[k] \in Path
    <2> DEFINE i == k - Shift
    <2>1. i \in Guards
      BY <1>4 DEF FramesInv
    <2>2. i + Shift = k
      <3>1. Len(conds) \in Nat /\ Len(frames) \in Nat /\ k \in Nat
        BY <1>0 DEF TypeOK
      <3> QED  BY <3>1 DEF Shift
    <2> HIDE DEF i
    <2> QED  BY <1>2, <2>1, <2>2 DEF Path
  <1>5. ASSUME NEW k \in DOMAIN conds, conds[k].id \in OpenIds  PROVE  conds[k] \in Path
    <2>1. PICK f \in Path : f.id = conds[k].id
      BY <1>5 DEF OpenIds
    <2>2. PICK j \in DOMAIN conds : conds[j] = f
      BY <1>3
    <2>3. j = k
      BY <2>1, <2>2 DEF StackInv
    <2> QED  BY <2>2, <2>3
  <1> QED  BY <1>3, <1>4, <1>5

\* The outcomes of joining two lists of conditions, by their first difference.
LEMMA JoinIs ==
    ASSUME NEW old \in Seq(CondType), NEW new \in Seq(CondType)
    PROVE  \/ /\ \A i \in DOMAIN old \cap DOMAIN new : old[i] = new[i]
              /\ Join(old, new) = NoAssigned
           \/ \E i \in DOMAIN old \cap DOMAIN new :
                 /\ old[i] # new[i] /\ \A l \in 1..i - 1 : old[l] = new[l]
                 /\ \/ old[i].id # new[i].id /\ Join(old, new) = NoAssigned
                    \/ /\ old[i].id = new[i].id /\ i = Len(old) /\ i = Len(new)
                       /\ Join(old, new) = IF i = 1 THEN Assigned
                                           ELSE MightAssigned(SubSeq(new, 1, i - 1))
                    \/ old[i].id = new[i].id /\ Join(old, new) = MightAssigned(new)
  <1> DEFINE differ == {i \in DOMAIN old \cap DOMAIN new : old[i] # new[i]}
             i == Least(differ)
  <1>1. CASE differ = {}
    BY <1>1 DEF Join
  <1>2. CASE differ # {}
    <2>1. DOMAIN old = 1..Len(old) /\ DOMAIN new = 1..Len(new)
          /\ Len(old) \in Nat /\ Len(new) \in Nat
      OBVIOUS
    <2>2. differ \in SUBSET Nat
      BY <2>1
    <2>3. i \in differ /\ \A j \in differ : i <= j
      <3> HIDE DEF differ
      <3> QED  BY <1>2, <2>2, LeastIs
    <2>4. i \in DOMAIN old \cap DOMAIN new /\ old[i] # new[i]
      BY <2>3
    <2>5. ASSUME NEW l \in 1..i - 1  PROVE  old[l] = new[l]
      <3>1. l \in DOMAIN old \cap DOMAIN new /\ ~(i <= l)
        <4> HIDE DEF i
        <4> QED  BY <2>1, <2>4
      <3> QED  BY <2>3, <3>1
    <2>6. Join(old, new) =
             IF old[i].id # new[i].id THEN NoAssigned
             ELSE IF i = Len(old) /\ i = Len(new)
                  THEN IF i = 1 THEN Assigned ELSE MightAssigned(SubSeq(new, 1, i - 1))
             ELSE MightAssigned(new)
      BY <1>2 DEF Join
    <2> HIDE DEF i, differ
    <2> QED  BY <2>4, <2>5, <2>6
  <1> QED  BY <1>1, <1>2

\* A start of the list of conditions is a list that was, and all of its ids are
\* still in place.
LEMMA PrefixFormer ==
    ASSUME TypeOK, StackInv, NEW m \in 1..Len(conds)
    PROVE  LET u == SubSeq(conds, 1, m) IN
           /\ u \in Seq(CondType) /\ u # <<>> /\ DOMAIN u = 1..m
           /\ \A i \in 1..m : i \in DOMAIN conds /\ u[i] = conds[i]
           /\ Former(u)
  <1> DEFINE u == SubSeq(conds, 1, m)
  <1>0. conds \in Seq(CondType) /\ DOMAIN conds = 1..Len(conds) /\ Len(conds) \in Nat
    BY DEF TypeOK, CondType, Conditions
  <1>1. \A i \in 1..m : i \in DOMAIN conds /\ conds[i] \in CondType
    BY <1>0
  <1>2. /\ u \in Seq(CondType) /\ Len(u) = m
        /\ \A i \in 1..m : u[i] = conds[i]
    <2>1. 1 \in Int /\ m \in Int /\ 1 <= m
      BY <1>0
    <2>2. /\ u \in Seq(CondType)
          /\ Len(u) = IF 1 <= m THEN m - 1 + 1 ELSE 0
          /\ \A i \in 1..m - 1 + 1 : u[i] = conds[1 + i - 1]
      BY <1>1, <2>1, SubSeqProperties
    <2> HIDE DEF u
    <2>3. m - 1 + 1 = m
      BY <2>1
    <2>4. \A i \in 1..m : 1 + i - 1 = i
      BY <2>1
    <2> QED  BY <2>1, <2>2, <2>3, <2>4
  <1>3. DOMAIN u = 1..m /\ u # <<>>
    <2> HIDE DEF u
    <2> QED  BY <1>0, <1>2
  <1>4. Former(u)
    <2> HIDE DEF u
    <2>1. \A i, j \in 1..m : u[i].id = u[j].id => i = j
      BY <1>1, <1>2 DEF StackInv
    <2>2. \A i \in 1..m : u[i].id < counter
      BY <1>1, <1>2 DEF StackInv
    <2>3. ASSUME NEW j \in 1..m, NEW k \in DOMAIN conds, u[j].id = conds[k].id
          PROVE  /\ j = k /\ u[j] = conds[k]
                 /\ \A l \in 1..j - 1 : u[l].id = conds[l].id
      <3>1. j = k
        BY <1>1, <1>2, <2>3 DEF StackInv
      <3>2. \A l \in 1..j - 1 : l \in 1..m
        BY <1>0
      <3> QED  BY <1>2, <3>1, <3>2
    <2> QED  BY <1>3, <2>1, <2>2, <2>3 DEF Former
  <1> QED  BY <1>1, <1>2, <1>3, <1>4

\* An assignment is accepted when it is the first, or when the list recorded and
\* the current one part at a conditional whose else branch is being executed.
LEMMA AcceptedIs ==
    ASSUME TypeOK, NEW c \in Cell, CellInv(c), Updated(cell[c]) # NoAssigned
    PROVE  \/ cell[c] = NoAssigned /\ conds = <<>> /\ Updated(cell[c]) = Assigned
           \/ cell[c] = NoAssigned /\ conds # <<>> /\ Updated(cell[c]) = MightAssigned(conds)
           \/ LET u == cell[c].under IN
              /\ cell[c] = MightAssigned(u) /\ u \in Seq(CondType) /\ conds # <<>>
              /\ \E i \in DOMAIN u \cap DOMAIN conds :
                    /\ u[i].id = conds[i].id /\ u[i].branch = TRUE /\ conds[i].branch = FALSE
                    /\ \A l \in 1..i - 1 : u[l] = conds[l]
                    /\ \/ /\ i = Len(u) /\ i = Len(conds)
                          /\ Updated(cell[c]) = IF i = 1 THEN Assigned
                                               ELSE MightAssigned(SubSeq(conds, 1, i - 1))
                       \/ Updated(cell[c]) = MightAssigned(conds)
  <1> DEFINE u == cell[c].under
  <1>0. conds \in Seq(CondType)
    BY DEF TypeOK, CondType, Conditions
  <1>1. CASE cell[c] = NoAssigned
    BY <1>1, CellKinds DEF Updated
  <1>2. CASE cell[c] = Assigned
    BY <1>2, CellKinds DEF Updated
  <1>3. CASE cell[c] \notin {NoAssigned, Assigned}
    <2>1. cell[c] = MightAssigned(u) /\ Former(u) /\ u \in Seq(CondType)
      BY <1>3 DEF CellInv, TypeOK, CondType, Conditions
    <2>2. cell[c].is = "might"
      BY <2>1, CellKinds
    <2>3. conds # <<>> /\ Updated(cell[c]) = Join(u, conds)
      BY <2>2 DEF Updated
    <2> HIDE DEF u
    <2>4. PICK i \in DOMAIN u \cap DOMAIN conds :
             /\ u[i] # conds[i] /\ \A l \in 1..i - 1 : u[l] = conds[l]
             /\ u[i].id = conds[i].id
             /\ \/ /\ i = Len(u) /\ i = Len(conds)
                   /\ Updated(cell[c]) = IF i = 1 THEN Assigned
                                        ELSE MightAssigned(SubSeq(conds, 1, i - 1))
                \/ Updated(cell[c]) = MightAssigned(conds)
      BY <1>0, <2>1, <2>3, JoinIs
    <2>5. u[i] \in CondType /\ conds[i] \in CondType
      BY <1>0, <2>1
    <2>6. ~u[i].branch => ~conds[i].branch
      BY <2>1, <2>4 DEF Former
    <2>7. u[i].branch # conds[i].branch
      <3>1. u[i] = [id |-> u[i].id, branch |-> u[i].branch]
            /\ conds[i] = [id |-> conds[i].id, branch |-> conds[i].branch]
        BY <2>5 DEF CondType
      <3> QED  BY <2>4, <3>1
    <2>8. u[i].branch \in BOOLEAN /\ conds[i].branch \in BOOLEAN
      BY <2>5 DEF CondType
    <2>9. u[i].branch = TRUE /\ conds[i].branch = FALSE
      BY <2>6, <2>7, <2>8
    <2> QED  BY <2>1, <2>3, <2>4, <2>9 DEF u
  <1> QED  BY <1>1, <1>2, <1>3

\* A path that is against a start of the current conditions excludes the branch
\* the current path takes where the two lists part, and is against all of the
\* current conditions.
LEMMA PartedExcludes ==
    ASSUME TypeOK, StackInv, FramesInv, NEW u \in Seq(CondType), NEW h,
           NEW i \in DOMAIN u \cap DOMAIN conds,
           u[i].id = conds[i].id, u[i].branch = TRUE, conds[i].branch = FALSE,
           \A l \in 1..i - 1 : u[l] = conds[l],
           \A j \in DOMAIN u : u[j].id \in OpenIds => Against(h, u, j)
    PROVE  /\ ~Compatible(h, Path)
           /\ \A j \in DOMAIN conds : conds[j].id \in OpenIds => Against(h, conds, j)
  <1>0. /\ conds \in Seq(CondType) /\ DOMAIN conds = 1..Len(conds) /\ DOMAIN u = 1..Len(u)
        /\ Len(conds) \in Nat /\ Len(u) \in Nat
    BY DEF TypeOK, CondType, Conditions
  <1>1. conds[i] \in Path /\ u[i].id \in OpenIds
    BY PathInConds DEF OpenIds
  <1>2. u[i] \in CondType /\ u[i] = [id |-> conds[i].id, branch |-> TRUE]
    <2>1. u[i] \in CondType
      OBVIOUS
    <2> QED  BY <2>1 DEF CondType
  <1>3. \E k \in 1..i : ~conds[k].branch /\ [id |-> conds[k].id, branch |-> TRUE] \in h
    <2>1. CASE u[i] \in h
      <3>1. i \in 1..i
        BY <1>0
      <3> QED  BY <1>2, <2>1, <3>1
    <2>2. CASE \E k \in 1..i : ~u[k].branch /\ [id |-> u[k].id, branch |-> TRUE] \in h
      <3>1. PICK k \in 1..i : ~u[k].branch /\ [id |-> u[k].id, branch |-> TRUE] \in h
        BY <2>2
      <3>2. k \in 1..i - 1
        <4>1. k # i
          BY <3>1
        <4> QED  BY <1>0, <4>1
      <3> QED  BY <3>1, <3>2
    <2>3. Against(h, u, i)
      BY <1>1
    <2> QED  BY <2>1, <2>2, <2>3 DEF Against
  <1>4. ~Compatible(h, Path)
    <2>1. PICK k \in 1..i : ~conds[k].branch /\ [id |-> conds[k].id, branch |-> TRUE] \in h
      BY <1>3
    <2> DEFINE f == [id |-> conds[k].id, branch |-> TRUE]
    <2>2. k \in DOMAIN conds /\ conds[k] \in Path
      <3>1. k \in DOMAIN conds
        BY <1>0
      <3> QED  BY <2>1, <3>1, PathInConds
    <2>3. f \in h /\ f.id = conds[k].id /\ f.branch # conds[k].branch
      BY <2>1
    <2> HIDE DEF f
    <2> QED  BY <2>2, <2>3 DEF Compatible
  <1>5. ASSUME NEW j \in DOMAIN conds, conds[j].id \in OpenIds  PROVE  Against(h, conds, j)
    <2>1. CASE j < i
      <3>1. j \in 1..i - 1 /\ j \in DOMAIN u /\ \A k \in 1..j : k \in 1..i - 1
        BY <1>0, <2>1
      <3>2. Against(h, u, j)
        BY <1>5, <3>1
      <3> QED  BY <3>1, <3>2 DEF Against
    <2>2. CASE ~(j < i)
      <3>1. \A k \in 1..i : k \in 1..j
        BY <1>0, <2>2
      <3> QED  BY <1>3, <3>1 DEF Against
    <2> QED  BY <2>1, <2>2
  <1> QED  BY <1>4, <1>5

\* An accepted assignment leaves a list of conditions that has been current, and
\* one more path.
LEMMA AcceptedCell ==
    ASSUME TypeOK, StackInv, NEW c \in Cell, CellInv(c), Updated(cell[c]) # NoAssigned
    PROVE  \/ Updated(cell[c]) = Assigned
           \/ \E n \in 1..Len(conds) :
                 /\ Updated(cell[c]) = MightAssigned(SubSeq(conds, 1, n))
                 /\ SubSeq(conds, 1, n) \in Seq(CondType) \ {<<>>}
                 /\ Former(SubSeq(conds, 1, n))
  BY UpdatedIs, PrefixFormer

\* An accepted assignment gives the cell no second value on any path, and leaves
\* recorded conditions that are covered and tell later paths from earlier ones.
LEMMA AcceptedExact ==
    ASSUME TypeOK, StackInv, ~nested, FramesInv, NEW c \in Cell, CellInv(c), ExactInv(c),
           Updated(cell[c]) # NoAssigned,
           conds' = conds, frames' = frames,
           cell'[c] = Updated(cell[c]), history'[c] = Append(history[c], Path)
    PROVE  ExactInv(c)'
  <1> DEFINE u == cell[c].under
             h == history[c]
             m == Len(h)
  <1>0. /\ conds \in Seq(CondType) /\ DOMAIN conds = 1..Len(conds) /\ Len(conds) \in Nat
        /\ h \in Seq(SUBSET CondType) /\ Path \in SUBSET CondType
    <2>1. conds \in Seq(CondType)
      BY DEF TypeOK, CondType, Conditions
    <2>2. history \in [Cell -> Seq(SUBSET CondType)]
      BY DEF TypeOK, CondType
    <2> QED  BY <2>1, <2>2, PathType
  <1>1. /\ m \in Nat /\ DOMAIN h = 1..m /\ DOMAIN history'[c] = 1..m + 1
        /\ \A n \in 1..m : history'[c][n] = h[n]
        /\ history'[c][m + 1] = Path
    <2> HIDE DEF h
    <2> QED  BY <1>0, PushType DEF h
  <1>2. OpenIds' = OpenIds
    BY DEF OpenIds, Path, Guards
  <1>3. cell[c] = NoAssigned => m = 0
    BY <1>0 DEF CellInv
  <1>4. ASSUME cell[c] # NoAssigned
        PROVE  /\ cell[c] = MightAssigned(u) /\ u \in Seq(CondType) /\ cell[c].is = "might"
               /\ \E i \in DOMAIN u \cap DOMAIN conds :
                     /\ u[i].id = conds[i].id /\ u[i].branch = TRUE /\ conds[i].branch = FALSE
                     /\ \A l \in 1..i - 1 : u[l] = conds[l]
                     /\ \/ /\ i = Len(u) /\ i = Len(conds)
                           /\ Updated(cell[c]) = IF i = 1 THEN Assigned
                                                ELSE MightAssigned(SubSeq(conds, 1, i - 1))
                        \/ Updated(cell[c]) = MightAssigned(conds)
    <2>2. /\ cell[c] = MightAssigned(cell[c].under) /\ cell[c].under \in Seq(CondType)
          /\ \E i \in DOMAIN cell[c].under \cap DOMAIN conds :
                /\ cell[c].under[i].id = conds[i].id
                /\ cell[c].under[i].branch = TRUE /\ conds[i].branch = FALSE
                /\ \A l \in 1..i - 1 : cell[c].under[l] = conds[l]
                /\ \/ /\ i = Len(cell[c].under) /\ i = Len(conds)
                      /\ Updated(cell[c]) = IF i = 1 THEN Assigned
                                           ELSE MightAssigned(SubSeq(conds, 1, i - 1))
                   \/ Updated(cell[c]) = MightAssigned(conds)
      BY <1>4, AcceptedIs
    <2>3. cell[c].is = "might"
      BY <2>2, CellKinds
    <2> QED  BY <2>2, <2>3
  <1>5. ASSUME NEW n \in 1..m
        PROVE  /\ ~Compatible(h[n], Path)
               /\ \A j \in DOMAIN conds : conds[j].id \in OpenIds => Against(h[n], conds, j)
    <2>1. cell[c] # NoAssigned
      BY <1>1, <1>3
    <2>2. PICK i \in DOMAIN u \cap DOMAIN conds :
             /\ u[i].id = conds[i].id /\ u[i].branch = TRUE /\ conds[i].branch = FALSE
             /\ \A l \in 1..i - 1 : u[l] = conds[l]
      BY <1>4, <2>1
    <2>3. \A j \in DOMAIN u : u[j].id \in OpenIds => Against(h[n], u, j)
      BY <1>1, <1>4, <2>1 DEF ExactInv
    <2>4. u \in Seq(CondType)
      BY <1>4, <2>1
    <2> HIDE DEF u
    <2> QED  BY <2>2, <2>3, <2>4, PartedExcludes
  <1>6. ASSUME NEW n \in 1..m + 1, NEW j \in DOMAIN conds, conds[j].id \in OpenIds
        PROVE  Against(history'[c][n], conds, j)
    <2>1. CASE n \in 1..m
      BY <1>1, <1>5, <1>6, <2>1
    <2>2. CASE n = m + 1
      BY <1>1, <1>6, <2>2, PathInConds DEF Against
    <2> QED  BY <1>1, <2>1, <2>2
  <1>7. ~Conflict(c)'
    <2> SUFFICES ASSUME NEW i \in 1..m + 1, NEW j \in 1..m + 1, i < j,
                        Compatible(history'[c][i], history'[c][j])
                 PROVE  FALSE
      BY <1>1 DEF Conflict
    <2>1. i \in 1..m
      BY <1>1
    <2>2. CASE j = m + 1
      BY <1>1, <1>5, <2>1, <2>2
    <2>3. CASE j # m + 1
      <3>1. j \in 1..m
        BY <1>1, <2>3
      <3>2. Compatible(h[i], h[j])
        BY <1>1, <2>1, <3>1
      <3> QED  BY <1>1, <2>1, <3>1, <3>2 DEF ExactInv, Conflict
    <2> QED  BY <2>2, <2>3
  <1>8. ASSUME cell'[c].is = "might", NEW i \in DOMAIN cell'[c].under,
               cell'[c].under[i].id \in OpenIds, NEW n \in 1..m + 1
        PROVE  Against(history'[c][n], cell'[c].under, i)
    <2>1. PICK q \in 1..Len(conds) : cell'[c] = MightAssigned(SubSeq(conds, 1, q))
      BY <1>8, AcceptedCell, CellKinds
    <2> DEFINE w == SubSeq(conds, 1, q)
    <2>2. cell'[c].under = w
      BY <2>1, CellKinds
    <2>3. DOMAIN w = 1..q /\ \A j \in 1..q : j \in DOMAIN conds /\ w[j] = conds[j]
      BY PrefixFormer
    <2> HIDE DEF w
    <2>4. i \in 1..q /\ w[i] = conds[i] /\ i \in DOMAIN conds
      BY <1>8, <2>2, <2>3
    <2>5. Against(history'[c][n], conds, i)
      BY <1>6, <1>8, <2>2, <2>4
    <2>6. \A k \in 1..i : k \in 1..q
      BY <1>0, <2>4
    <2>7. Against(history'[c][n], w, i)
      BY <2>3, <2>4, <2>5, <2>6 DEF Against
    <2> QED  BY <2>2, <2>7
  <1>9. ASSUME NEW v \in Valuations, Takes(v, {conds[i] : i \in DOMAIN conds})
        PROVE  Takes(v, history'[c][m + 1])
    BY <1>1, <1>9, PathInConds DEF Takes
  <1>10. ASSUME NEW v \in Valuations
         PROVE  \/ cell'[c] = NoAssigned
                \/ cell'[c].is = "might" /\ ~Takes(v, Recorded(c)')
                \/ \E i \in DOMAIN history'[c] : Takes(v, history'[c][i])
    <2>0. m + 1 \in DOMAIN history'[c] /\ \A i \in 1..m : i \in DOMAIN history'[c]
      BY <1>1
    <2>1. CASE Takes(v, {conds[i] : i \in DOMAIN conds})
      BY <1>9, <2>0, <2>1
    <2>2. CASE /\ ~Takes(v, {conds[i] : i \in DOMAIN conds})
               /\ Updated(cell[c]) = MightAssigned(conds)
      <3>1. cell'[c].is = "might" /\ cell'[c].under = conds
        BY <2>2, CellKinds
      <3>2. Recorded(c)' = {conds[i] : i \in DOMAIN conds}
        BY <3>1 DEF Recorded
      <3> QED  BY <2>2, <3>1, <3>2
    <2>3. CASE /\ ~Takes(v, {conds[i] : i \in DOMAIN conds})
               /\ Updated(cell[c]) # MightAssigned(conds)
      <3>1. cell[c] # NoAssigned
        <4> SUFFICES ASSUME cell[c] = NoAssigned  PROVE  FALSE
          OBVIOUS
        <4>1. conds = <<>>
          BY <2>3, AcceptedIs, CellKinds
        <4> QED  BY <1>0, <2>3, <4>1 DEF Takes
      <3>2. PICK i \in DOMAIN u \cap DOMAIN conds :
               /\ u[i].id = conds[i].id /\ u[i].branch = TRUE /\ conds[i].branch = FALSE
               /\ \A l \in 1..i - 1 : u[l] = conds[l]
               /\ i = Len(u) /\ i = Len(conds)
               /\ Updated(cell[c]) = IF i = 1 THEN Assigned
                                    ELSE MightAssigned(SubSeq(conds, 1, i - 1))
        <4> HIDE DEF u
        <4> QED  BY <1>4, <2>3, <3>1
      <3>3. u \in Seq(CondType) /\ cell[c].is = "might" /\ DOMAIN u = 1..i /\ i \in Nat
        <4>1. u \in Seq(CondType) /\ cell[c].is = "might"
          BY <1>4, <3>1
        <4>2. i = Len(u)
          BY <3>2
        <4> HIDE DEF u
        <4>3. DOMAIN u = 1..Len(u) /\ Len(u) \in Nat
          BY <4>1
        <4> QED  BY <4>1, <4>2, <4>3
      <3>4. CASE ~(\A l \in 1..i - 1 : v[conds[l].id] = conds[l].branch)
        <4>1. PICK l \in 1..i - 1 : v[conds[l].id] # conds[l].branch
          BY <3>4
        <4>2. i # 1 /\ i - 1 \in 1..Len(conds)
          BY <1>0, <3>2, <4>1
        <4> DEFINE w == SubSeq(conds, 1, i - 1)
        <4>3. DOMAIN w = 1..i - 1 /\ \A j \in 1..i - 1 : w[j] = conds[j]
          BY <4>2, PrefixFormer
        <4>4. cell'[c] = MightAssigned(w)
          BY <3>2, <4>2
        <4> HIDE DEF w
        <4>5. cell'[c].is = "might" /\ cell'[c].under = w
          BY <4>4, CellKinds
        <4>6. conds[l] \in Recorded(c)'
          BY <4>1, <4>3, <4>5 DEF Recorded
        <4> QED  BY <4>1, <4>5, <4>6 DEF Takes
      <3>5. CASE \A l \in 1..i - 1 : v[conds[l].id] = conds[l].branch
        <4>1. \A k \in 1..i : k = i \/ k \in 1..i - 1
          BY <3>3
        <4>2. v[conds[i].id] # FALSE
          <5> SUFFICES ASSUME v[conds[i].id] = FALSE  PROVE  FALSE
            OBVIOUS
          <5>1. \A k \in DOMAIN conds : v[conds[k].id] = conds[k].branch
            BY <1>0, <3>2, <3>5, <4>1
          <5> QED  BY <2>3, <5>1 DEF Takes
        <4>3. v[conds[i].id] = TRUE
          <5>1. conds[i].id \in 0..MaxConds - 1
            <6>1. conds[i] \in CondType /\ conds[i].id < counter
              BY <1>0, <3>2 DEF StackInv
            <6> QED  BY <6>1, BoundsAssumption DEF CondType, TypeOK
          <5> QED  BY <4>2, <5>1 DEF Valuations
        <4>4. \A k \in DOMAIN u : v[u[k].id] = u[k].branch
          <5> HIDE DEF u
          <5>1. ASSUME NEW k \in 1..i  PROVE  v[u[k].id] = u[k].branch
            <6>1. CASE k = i
              BY <3>2, <4>3, <6>1
            <6>2. CASE k \in 1..i - 1
              BY <3>2, <3>5, <6>2
            <6> QED  BY <4>1, <6>1, <6>2
          <5> QED  BY <3>3, <5>1
        <4>5. Takes(v, Recorded(c))
          BY <4>4 DEF Takes, Recorded
        <4>6. PICK n \in 1..m : Takes(v, h[n])
          BY <1>1, <3>1, <4>5 DEF ExactInv
        <4> QED  BY <1>1, <2>0, <4>6
      <3> QED  BY <3>4, <3>5
    <2> QED  BY <2>1, <2>2, <2>3
  <1> QED  BY <1>1, <1>2, <1>7, <1>8, <1>10 DEF ExactInv

\* An assignment changes the cell and its history only, and is refused or
\* accepted.
LEMMA AssignChanges ==
    ASSUME TypeOK, NEW c \in Cell, Assign(c)
    PROVE  /\ UNCHANGED <<nested, conds, counter, frames>>
           /\ status = "running" /\ status' \in {"running", "twice"}
           /\ \A d \in Cell \ {c} : cell'[d] = cell[d] /\ history'[d] = history[d]
           /\ \/ Updated(cell[c]) = NoAssigned /\ status' = "twice"
                 /\ UNCHANGED <<cell, left, history>>
              \/ /\ Updated(cell[c]) # NoAssigned /\ status' = status
                 /\ cell'[c] = Updated(cell[c])
                 /\ history'[c] = Append(history[c], Path)
                 /\ history' \in [Cell -> Seq(SUBSET CondType)]
                 /\ left' = IF left = 0 THEN 0 ELSE left - 1
  <1>1. /\ UNCHANGED <<nested, conds, counter, frames>>
        /\ status = "running" /\ status' \in {"running", "twice"}
    BY DEF Assign, AtStatement
  <1>2. history \in [Cell -> Seq(SUBSET CondType)]
    BY DEF TypeOK, CondType
  <1>3. CASE Updated(cell[c]) # NoAssigned
    <2>1. /\ cell' = [cell EXCEPT ![c] = Updated(@)]
          /\ history' = [history EXCEPT ![c] = Append(@, Path)]
          /\ left' = IF left = 0 THEN 0 ELSE left - 1
          /\ status' = status
      BY <1>3 DEF Assign, CountAssigned
    <2>2. Append(history[c], Path) \in Seq(SUBSET CondType)
      <3> DEFINE h == history[c]
      <3>1. h \in Seq(SUBSET CondType) /\ Path \in SUBSET CondType
        BY <1>2, PathType
      <3> HIDE DEF h
      <3>2. Append(h, Path) \in Seq(SUBSET CondType)
        BY <3>1, PushType
      <3> QED  BY <3>2 DEF h
    <2>3. cell'[c] = Updated(cell[c])
      BY <2>1 DEF TypeOK
    <2>4. history' \in [Cell -> Seq(SUBSET CondType)] /\ history'[c] = Append(history[c], Path)
      BY <1>2, <2>1, <2>2
    <2>5. \A d \in Cell \ {c} : cell'[d] = cell[d] /\ history'[d] = history[d]
      BY <1>2, <2>1 DEF TypeOK
    <2> QED  BY <1>1, <1>3, <2>1, <2>3, <2>4, <2>5
  <1>4. CASE Updated(cell[c]) = NoAssigned
    BY <1>1, <1>4 DEF Assign
  <1> QED  BY <1>3, <1>4

\* What is known of a cell is about its state, its history and the lists around.
LEMMA CellKept ==
    ASSUME NEW d \in Cell, UNCHANGED <<nested, conds, counter, frames>>,
           cell'[d] = cell[d], history'[d] = history[d]
    PROVE  (CellInv(d) => CellInv(d)') /\ (ExactInv(d) => ExactInv(d)')
  <1>1. \A x : Former(x) => Former(x)'
    BY DEF Former
  <1>2. OpenIds' = OpenIds
    BY DEF OpenIds, Path, Guards
  <1>3. Recorded(d)' = Recorded(d) /\ (Conflict(d)' => Conflict(d))
    BY DEF Recorded, Conflict
  <1>4. CellInv(d) => CellInv(d)'
    BY <1>1 DEF CellInv
  <1>5. ExactInv(d) => ExactInv(d)'
    BY <1>2, <1>3 DEF ExactInv
  <1> QED  BY <1>4, <1>5

\* An assignment keeps the invariant.
LEMMA AssignStep ==
    ASSUME Inv, NEW c \in Cell, Assign(c)
    PROVE  Inv'
  <1>0. /\ TypeOK /\ StackInv /\ OwedInv /\ CellsInv /\ (~nested => FramesInv)
        /\ CellInv(c)
    BY DEF Inv, CellsInv
  <1>1. /\ UNCHANGED <<nested, conds, counter, frames>>
        /\ status = "running" /\ status' \in {"running", "twice"}
        /\ \A d \in Cell \ {c} : cell'[d] = cell[d] /\ history'[d] = history[d]
        /\ DOMAIN cell' = DOMAIN cell
    BY <1>0, AssignChanges DEF Assign
  <1>2. CASE Updated(cell[c]) = NoAssigned
    <2>1. UNCHANGED <<cell, left, history>>
      BY <1>0, <1>2, AssignChanges
    <2>2. TypeOK'
      BY <1>0, <1>1, <2>1 DEF TypeOK
    <2>3. StackInv' /\ OwedInv' /\ (~nested => FramesInv)'
      BY <1>0, <1>1 DEF StackInv, OwedInv, Owed, Guards, FramesInv, Shift
    <2>4. CellsInv'
      BY <1>0, <1>1, <2>1, CellKept DEF CellsInv
    <2> QED  BY <2>2, <2>3, <2>4 DEF Inv
  <1>3. CASE Updated(cell[c]) # NoAssigned
    <2>1. /\ cell'[c] = Updated(cell[c])
          /\ history'[c] = Append(history[c], Path)
          /\ history' \in [Cell -> Seq(SUBSET CondType)]
          /\ left' = IF left = 0 THEN 0 ELSE left - 1
      BY <1>0, <1>3, AssignChanges
    <2>2. StackInv' /\ OwedInv' /\ (~nested => FramesInv)'
      BY <1>0, <1>1 DEF StackInv, OwedInv, Owed, Guards, FramesInv, Shift
    <2>3. \/ cell'[c] = Assigned
          \/ /\ cell'[c] = MightAssigned(cell'[c].under) /\ cell'[c].is = "might"
             /\ cell'[c].under \in Seq(CondType) \ {<<>>}
             /\ Former(cell'[c].under)
      <3>1. CASE Updated(cell[c]) = Assigned
        BY <2>1, <3>1
      <3>2. CASE Updated(cell[c]) # Assigned
        <4>1. PICK n \in 1..Len(conds) :
                 /\ Updated(cell[c]) = MightAssigned(SubSeq(conds, 1, n))
                 /\ SubSeq(conds, 1, n) \in Seq(CondType) \ {<<>>}
                 /\ Former(SubSeq(conds, 1, n))
          BY <1>0, <1>3, <3>2, AcceptedCell
        <4> DEFINE u == SubSeq(conds, 1, n)
        <4> HIDE DEF u
        <4>2. cell'[c] = MightAssigned(u) /\ u \in Seq(CondType) \ {<<>>} /\ Former(u)
          BY <2>1, <4>1 DEF u
        <4>3. cell'[c].under = u /\ cell'[c].is = "might"
          BY <4>2, CellKinds
        <4> QED  BY <4>2, <4>3
      <3> QED  BY <3>1, <3>2
    <2>4. TypeOK'
      <3>1. nested' \in BOOLEAN /\ conds' \in Conditions /\ counter' \in 0..MaxConds
        BY <1>0, <1>1 DEF TypeOK
      <3>2. frames' \in Seq([kind : Bodies \cup {"test", "unknown", "twice", "over"},
                             id : 0..MaxConds, passes : 0..MaxPasses])
        BY <1>0, <1>1 DEF TypeOK
      <3>3. ASSUME NEW d \in Cell
            PROVE  \/ cell'[d] \in {NoAssigned, Assigned}
                   \/ cell'[d].is = "might" /\ cell'[d].under \in Conditions \ {<<>>}
        <4>1. CASE d = c
          BY <2>3, <4>1 DEF Conditions, CondType
        <4>2. CASE d # c
          BY <1>0, <1>1, <4>2 DEF TypeOK
        <4> QED  BY <4>1, <4>2
      <3>4. left' \in 0..Cardinality(Cell)
        <4>1. Cardinality(Cell) \in Nat /\ left \in 0..Cardinality(Cell)
          BY <1>0, BoundsAssumption, FS_CardinalityType DEF TypeOK
        <4> QED  BY <2>1, <4>1
      <3>5. history' \in [Cell -> Seq(SUBSET [id : 0..MaxConds, branch : BOOLEAN])]
        BY <2>1 DEF CondType
      <3>6. DOMAIN cell' = Cell
        BY <1>0, <1>1 DEF TypeOK
      <3> QED  BY <1>1, <3>1, <3>2, <3>3, <3>4, <3>5, <3>6 DEF TypeOK
    <2>5. ASSUME NEW d \in Cell  PROVE  CellInv(d)' /\ (~nested => ExactInv(d))'
      <3>1. CASE d = c
        <4>1. history'[c] # <<>>
          <5>1. history[c] \in Seq(SUBSET CondType)
            <6>1. history \in [Cell -> Seq(SUBSET CondType)]
              BY <1>0 DEF TypeOK, CondType
            <6> QED  BY <6>1
          <5>2. Path \in SUBSET CondType
            BY <1>0, PathType
          <5> DEFINE h == history[c]  p == Path
          <5> HIDE DEF h, p
          <5>3. Append(h, p) # <<>>
            BY <5>1, <5>2 DEF h, p
          <5> QED  BY <2>1, <5>3 DEF h, p
        <4>2. CellInv(c)'
          <5>1. \A x : Former(x)' <=> Former(x)
            BY <1>1 DEF Former
          <5>2. cell'[c] # NoAssigned
            BY <1>3, <2>1
          <5> QED  BY <2>3, <4>1, <5>1, <5>2 DEF CellInv
        <4>3. ~nested => ExactInv(c)'
          BY <1>0, <1>1, <1>3, <2>1, AcceptedExact DEF CellsInv
        <4> QED  BY <1>1, <3>1, <4>2, <4>3
      <3>2. CASE d # c
        <4>1. cell'[d] = cell[d] /\ history'[d] = history[d]
          BY <1>1, <3>2
        <4>2. CellInv(d) /\ (~nested => ExactInv(d))
          BY <1>0 DEF CellsInv
        <4> QED  BY <1>1, <4>1, <4>2, CellKept
      <3> QED  BY <3>1, <3>2
    <2>6. CellsInv'
      BY <1>1, <2>5 DEF CellsInv
    <2> QED  BY <2>2, <2>4, <2>6 DEF Inv
  <1> QED  BY <1>2, <1>3

\* The empty program is well formed, and nothing is assigned.
LEMMA InitInv ==
    Init => Inv
  <1> SUFFICES ASSUME Init  PROVE  Inv
    OBVIOUS
  <1>1. /\ nested \in BOOLEAN /\ conds = <<>> /\ counter = 0 /\ frames = <<>>
        /\ \A c \in Cell : cell[c] = NoAssigned /\ history[c] = <<>>
        /\ DOMAIN cell = Cell /\ status = "running"
    BY BoundsAssumption DEF Init
  <1>2. Cardinality(Cell) \in Nat
    BY BoundsAssumption, FS_CardinalityType
  <1>3. TypeOK
    <2>1. 0 \in 0..MaxConds
      BY BoundsAssumption
    <2>2. left \in 0..Cardinality(Cell)
      BY <1>2 DEF Init
    <2>3. history \in [Cell -> Seq(SUBSET [id : 0..MaxConds, branch : BOOLEAN])]
      <3> DEFINE S == SUBSET [id : 0..MaxConds, branch : BOOLEAN]
      <3> HIDE DEF S
      <3>1. history \in [Cell -> Seq(S)]
        BY DEF Init
      <3> QED  BY <3>1 DEF S
    <2> QED  BY <1>1, <2>1, <2>2, <2>3 DEF TypeOK, Conditions
  <1>4. Guards = {} /\ DOMAIN conds = {} /\ Len(conds) = 0
    BY <1>1 DEF Guards
  <1>5. StackInv
    BY <1>1, <1>4 DEF StackInv
  <1>6. OwedInv
    <2>1. Owed = {}
      BY <1>4 DEF Owed
    <2> QED  BY <1>4, <2>1, FS_EmptySet DEF OwedInv
  <1>7. FramesInv
    BY <1>4 DEF FramesInv
  <1>8. ASSUME NEW c \in Cell  PROVE  CellInv(c) /\ ExactInv(c)
    <2>1. DOMAIN history[c] = {}
      BY <1>1
    <2>2. cell[c].is # "might"
      BY <1>1, CellKinds
    <2> QED  BY <1>1, <2>1, <2>2 DEF CellInv, ExactInv, Conflict
  <1> QED  BY <1>3, <1>5, <1>6, <1>7, <1>8 DEF Inv, CellsInv

\* Every step keeps the invariant.
LEMMA NextInv ==
    Inv /\ [Next]_vars => Inv'
  <1> SUFFICES ASSUME Inv, [Next]_vars  PROVE  Inv'
    OBVIOUS
  <1>1. CASE Structural
    BY <1>1, StructuralKeeps, StructuralType, StackStep, OwedStep, ShapeStep, CellsKept DEF Inv
  <1>2. CASE \E c \in Cell : Assign(c)
    BY <1>2, AssignStep
  <1>3. ASSUME UNCHANGED <<nested, conds, counter, frames, cell, left, history>>,
               status' \in {"running", "accepted", "twice", "missing"}
        PROVE  Inv'
    <2>1. TypeOK'
      BY <1>3 DEF Inv, TypeOK
    <2>2. StackInv' /\ OwedInv' /\ (~nested => FramesInv)'
      BY <1>3 DEF Inv, StackInv, OwedInv, Owed, Guards, FramesInv, Shift
    <2>3. CellsInv'
      BY <1>3, CellKept DEF Inv, CellsInv
    <2> QED  BY <2>1, <2>2, <2>3 DEF Inv
  <1>4. CASE Finish
    BY <1>3, <1>4 DEF Finish
  <1>5. CASE UNCHANGED vars
    <2>1. status' \in {"running", "accepted", "twice", "missing"}
      BY <1>5 DEF vars, Inv, StackInv, TypeOK
    <2> QED  BY <1>3, <1>5, <2>1 DEF vars
  <1> QED  BY <1>1, <1>2, <1>4, <1>5 DEF Next, Structural

-----------------------------------------------------------------------------
(* Refusals *)

\* Two lists of conditions that agree on the conditions they share are both met
\* by some execution.
LEMMA BothAreTaken ==
    ASSUME TypeOK, StackInv, NEW u \in Seq(CondType),
           \A i, j \in DOMAIN u : u[i].id = u[j].id => i = j,
           \A j \in DOMAIN u : u[j].id < counter,
           \A j \in DOMAIN u, k \in DOMAIN conds : u[j].id = conds[k].id => u[j] = conds[k]
    PROVE  \E v \in Valuations : /\ \A k \in DOMAIN conds : v[conds[k].id] = conds[k].branch
                                 /\ \A j \in DOMAIN u : v[u[j].id] = u[j].branch
  <1> DEFINE InConds(id) == \E k \in DOMAIN conds : conds[k].id = id /\ conds[k].branch
             InU(id) == \E j \in DOMAIN u : u[j].id = id /\ u[j].branch
             v == [id \in 0..MaxConds - 1 |-> InConds(id) \/ InU(id)]
  <1>1. conds \in Seq(CondType) /\ counter \in 0..MaxConds /\ MaxConds \in Nat
    BY BoundsAssumption DEF TypeOK, CondType, Conditions
  <1>2. v \in Valuations
    <2>1. \A id : (InConds(id) \/ InU(id)) \in BOOLEAN
      OBVIOUS
    <2> HIDE DEF InConds, InU
    <2> QED  BY <2>1 DEF Valuations
  <1>3. ASSUME NEW f \in CondType, f.id < counter, f.branch <=> (InConds(f.id) \/ InU(f.id))
        PROVE  v[f.id] = f.branch
    <2>1. f.id \in 0..MaxConds - 1 /\ f.branch \in BOOLEAN
      BY <1>1, <1>3 DEF CondType
    <2>2. v[f.id] = (InConds(f.id) \/ InU(f.id))
      BY <2>1
    <2>3. (InConds(f.id) \/ InU(f.id)) \in BOOLEAN
      OBVIOUS
    <2> HIDE DEF v, InConds, InU
    <2> QED  BY <1>3, <2>1, <2>2, <2>3
  <1>4. ASSUME NEW k \in DOMAIN conds  PROVE  v[conds[k].id] = conds[k].branch
    <2>1. conds[k] \in CondType /\ conds[k].id < counter
      BY <1>1 DEF StackInv
    <2>2. InConds(conds[k].id) <=> conds[k].branch
      BY DEF StackInv
    <2>3. InU(conds[k].id) => conds[k].branch
      OBVIOUS
    <2> HIDE DEF v, InConds, InU
    <2> QED  BY <1>3, <2>1, <2>2, <2>3
  <1>5. ASSUME NEW j \in DOMAIN u  PROVE  v[u[j].id] = u[j].branch
    <2>1. u[j] \in CondType /\ u[j].id < counter
      OBVIOUS
    <2>2. InU(u[j].id) <=> u[j].branch
      OBVIOUS
    <2>3. InConds(u[j].id) => u[j].branch
      OBVIOUS
    <2> HIDE DEF v, InConds, InU
    <2> QED  BY <1>3, <2>1, <2>2, <2>3
  <1> QED  BY <1>2, <1>4, <1>5

\* A refused assignment gives the cell a second value in some execution.
LEMMA RefusalIsRight ==
    ASSUME TypeOK, StackInv, FramesInv, NEW c \in Cell, CellInv(c), ExactInv(c),
           Updated(cell[c]) = NoAssigned
    PROVE  \E i \in DOMAIN history[c] : Compatible(history[c][i], Path)
  <1> DEFINE u == cell[c].under
             h == history[c]
  <1>0. conds \in Seq(CondType) /\ h \in Seq(SUBSET CondType)
    <2>1. conds \in Seq(CondType)
      BY DEF TypeOK, CondType, Conditions
    <2>2. history \in [Cell -> Seq(SUBSET CondType)]
      BY DEF TypeOK, CondType
    <2> QED  BY <2>1, <2>2
  <1>1. cell[c] # NoAssigned
    BY CellKinds DEF Updated
  <1>2. h # <<>>
    BY <1>1 DEF CellInv
  <1>3. CASE conds = <<>>
    <2>1. Path = {}
      BY <1>3, PathInConds
    <2>2. 1 \in DOMAIN h
      <3> HIDE DEF h
      <3> QED  BY <1>0, <1>2
    <2> QED  BY <2>1, <2>2 DEF Compatible
  <1>4. ASSUME NEW v \in Valuations, \A k \in DOMAIN conds : v[conds[k].id] = conds[k].branch,
               cell[c].is = "might" => \A j \in DOMAIN u : v[u[j].id] = u[j].branch
        PROVE  \E i \in DOMAIN h : Compatible(h[i], Path)
    <2>1. cell[c].is = "might" => Takes(v, Recorded(c))
      BY <1>4 DEF Takes, Recorded
    <2>2. PICK i \in DOMAIN h : Takes(v, h[i])
      BY <1>1, <2>1 DEF ExactInv
    <2>3. Takes(v, Path)
      BY <1>4, PathInConds DEF Takes
    <2> QED  BY <2>2, <2>3 DEF Takes, Compatible
  <1>5. CASE cell[c] = Assigned
    <2>1. <<>> \in Seq(CondType) /\ DOMAIN <<>> = {}
      OBVIOUS
    <2>2. \E v \in Valuations : \A k \in DOMAIN conds : v[conds[k].id] = conds[k].branch
      BY <2>1, BothAreTaken
    <2> QED  BY <1>4, <1>5, <2>2, CellKinds
  <1>6. CASE cell[c] # Assigned /\ conds # <<>>
    <2>1. /\ cell[c] = MightAssigned(u) /\ Former(u) /\ u \in Seq(CondType)
          /\ cell[c].is = "might"
      BY <1>1, <1>6, CellKinds DEF CellInv, TypeOK, CondType, Conditions
    <2>2. Join(u, conds) = NoAssigned
      BY <1>6, <2>1 DEF Updated
    <2> HIDE DEF u
    <2>3. DOMAIN u = 1..Len(u) /\ DOMAIN conds = 1..Len(conds)
          /\ Len(u) \in Nat /\ Len(conds) \in Nat
      BY <1>0, <2>1
    <2>4. ASSUME NEW j \in DOMAIN u, NEW k \in DOMAIN conds, u[j].id = conds[k].id
          PROVE  u[j] = conds[k]
      <3>1. /\ j = k /\ j \in DOMAIN u \cap DOMAIN conds
            /\ \A l \in 1..j - 1 : u[l].id = conds[l].id
        BY <2>1, <2>4 DEF Former
      <3>2. CASE \A i \in DOMAIN u \cap DOMAIN conds : u[i] = conds[i]
        BY <3>1, <3>2
      <3>3. ASSUME NEW i \in DOMAIN u \cap DOMAIN conds, u[i].id # conds[i].id,
                   \A l \in 1..i - 1 : u[l] = conds[l]
            PROVE  u[j] = conds[k]
        <4>1. i # j /\ i \notin 1..j - 1
          BY <2>4, <3>1, <3>3
        <4>2. j \in 1..i - 1
          BY <2>3, <3>1, <4>1
        <4> QED  BY <3>1, <3>3, <4>2
      <3>4. \/ \A i \in DOMAIN u \cap DOMAIN conds : u[i] = conds[i]
            \/ \E i \in DOMAIN u \cap DOMAIN conds :
                  u[i].id # conds[i].id /\ \A l \in 1..i - 1 : u[l] = conds[l]
        BY <1>0, <2>1, <2>2, JoinIs, CellKinds
      <3> QED  BY <3>2, <3>3, <3>4
    <2>5. \E v \in Valuations : /\ \A k \in DOMAIN conds : v[conds[k].id] = conds[k].branch
                                /\ \A j \in DOMAIN u : v[u[j].id] = u[j].branch
      <3>1. /\ \A i, j \in DOMAIN u : u[i].id = u[j].id => i = j
            /\ \A j \in DOMAIN u : u[j].id < counter
        BY <2>1 DEF Former
      <3> QED  BY <2>1, <2>4, <3>1, BothAreTaken
    <2> QED  BY <1>4, <2>5
  <1> QED  BY <1>3, <1>5, <1>6

-----------------------------------------------------------------------------
(* Theorems *)

\* For every number of cells, bound on conditionals, nesting and passes, the
\* lists kept by execute_conditional_statement and the two kinds of loops agree
\* with the control structures around the statement, and the states of the cells
\* (AssignmentState) with the paths they have been assigned on.
THEOREM AssignInv == Spec => []Inv
  BY InitInv, NextInv, PTL DEF Spec

\* The conditions recorded, the counter of conditionals and the number of cells
\* still to assign stay in range.
THEOREM AssignTypeOK == Spec => []TypeOK
  <1>1. Inv => TypeOK
    BY DEF Inv
  <1> QED  BY <1>1, AssignInv, PTL

\* In every program without loops inside unknown conditionals, what the join of
\* two AssignmentStates accepts gives each cell at most one value in every
\* execution of the circuit.
THEOREM AcceptsExclusiveHolds == Spec => []AcceptsExclusive
  <1>1. Inv => AcceptsExclusive
    BY DEF Inv, CellsInv, ExactInv, AcceptsExclusive, AssignedOncePerPath
  <1> QED  BY <1>1, AssignInv, PTL

\* In every program without loops inside unknown conditionals, an execution that
\* meets the conditions recorded for a cell has assigned it.
THEOREM RecordedIsAssignedHolds == Spec => []RecordedIsAssigned
  <1>1. Inv => RecordedIsAssigned
    BY DEF Inv, CellsInv, ExactInv, RecordedIsAssigned
  <1> QED  BY <1>1, AssignInv, PTL

\* The else branch of a conditional finds its condition in every program, and in
\* every program without loops inside unknown conditionals the error of two
\* assignments is raised only when some execution makes both.
THEOREM RefusesConflictsHolds == Spec => []RefusesConflicts
  <1>1. Init => RefusesConflicts
    BY DEF Init, RefusesConflicts
  <1>2. ASSUME Inv, Inv', RefusesConflicts, [Next]_vars  PROVE  RefusesConflicts'
    <2>1. status' # "panic"
      BY <1>2 DEF Inv, StackInv
    <2>2. ASSUME status' = "twice", ~nested', NEW c \in Cell, Assign(c)
          PROVE  \E d \in Cell :
                    /\ Updated(cell[d])'  = NoAssigned
                    /\ \E i \in DOMAIN history'[d] : Compatible(history'[d][i], Path')
      <3>0. TypeOK /\ StackInv /\ FramesInv /\ CellInv(c) /\ ExactInv(c)
        BY <1>2, <2>2, AssignChanges DEF Inv, CellsInv
      <3>1. /\ UNCHANGED <<nested, conds, counter, frames, cell, history>>
            /\ Updated(cell[c]) = NoAssigned
        BY <2>2, <3>0, AssignChanges
      <3>2. \E i \in DOMAIN history[c] : Compatible(history[c][i], Path)
        BY <3>0, <3>1, RefusalIsRight
      <3>3. Updated(cell[c])' = Updated(cell[c]) /\ Path' = Path
        BY <3>1 DEF Updated, Join, Path, Guards
      <3> QED  BY <3>1, <3>2, <3>3
    <2>3. CASE \E c \in Cell : Assign(c)
      BY <2>1, <2>2, <2>3 DEF RefusesConflicts
    <2>4. CASE Structural \/ Finish
      <3>1. status' # "twice"
        BY <2>4 DEF Structural, Finish, AtStatement, Testing, EnterThen, EnterElse, LeaveIf,
             EnterLoop, Pass, EndPass, ExitLoop, FirstPass, SecondPass, UnknownPass, EndUnknownPass
      <3> QED  BY <2>1, <3>1 DEF RefusesConflicts
    <2>5. CASE UNCHANGED vars
      <3>1. Path' = Path /\ \A d \in Cell : Updated(cell[d])' = Updated(cell[d])
        BY <2>5 DEF vars, Path, Guards, Updated, Join
      <3> QED  BY <1>2, <2>5, <3>1 DEF vars, RefusesConflicts
    <2> QED  BY <1>2, <2>3, <2>4, <2>5 DEF Next, Structural
  <1> QED  BY <1>1, <1>2, AssignInv, PTL DEF Spec


=============================================================================
