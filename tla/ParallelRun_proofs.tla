------------------------- MODULE ParallelRun_proofs -------------------------
(***************************************************************************)
(* Proofs about ParallelRun, for every component tree, every number of     *)
(* inputs and outputs and every maxThread.                                 *)
(***************************************************************************)
EXTENDS ParallelRun, FiniteSetTheorems, TLAPS

-----------------------------------------------------------------------------
(* Types *)


\* Every place of a run function is a location.
LEMMA LocationList ==
    Location = {"absent", "waiting", "join", "body", "callee", "publish", "publishNotify",
                "slot", "slotAsleep", "yieldNotify", "lock", "cvAsleep", "reslot",
                "reslotAsleep", "flag", "flagNotify", "leave", "leaveNotify", "release",
                "ended", "aborted"}
BY DEF Location, InBody, Loading, Reslot, SlotWaits, Closing, Leaving

\* Waking a thread and moving the caller on keeps pc a map to locations.
LEMMA NotifyOneType ==
    ASSUME pc \in [Component -> Location], NEW c \in Component,
           NEW l \in Location, NotifyOne(c, l)
    PROVE  pc' \in [Component -> Location]
<1>1. \A w \in Component : Awake(pc[w]) \in Location
  BY LocationList DEF Awake
<1>2. CASE pc' = [pc EXCEPT ![c] = l]
  BY <1>2
<1>3. CASE \E w \in Sleepers : pc' = [pc EXCEPT ![c] = l, ![w] = Awake(pc[w])]
  BY <1>1, <1>3 DEF Sleepers
<1> QED BY <1>2, <1>3 DEF NotifyOne

\* Likewise for notify_all on an output.
LEMMA NotifyAllType ==
    ASSUME pc \in [Component -> Location], NEW c \in Component,
           NEW o, NEW l \in Location, NotifyAll(c, o, l)
    PROVE  pc' \in [Component -> Location]
BY LocationList DEF NotifyAll

\* A wait for a slot keeps the types of pc and numThread.
LEMMA WaitForSlotType ==
    ASSUME pc \in [Component -> Location], numThread \in Int,
           NEW c \in Component, NEW l \in Location, WaitForSlot(c, l)
    PROVE  pc' \in [Component -> Location] /\ numThread' \in Int
BY LocationList DEF WaitForSlot

\* Reading an output once more keeps the types of the read counts.
LEMMA LoadsType ==
    ASSUME DOMAIN loads = Component,
           \A c \in Component : loads[c] \in [Outputs(c) -> Nat],
           NEW d \in Component, NEW o \in Outputs(d),
           loads' = [loads EXCEPT ![d][o] = @ + 1]
    PROVE  /\ DOMAIN loads' = Component
           /\ \A c \in Component : loads'[c] \in [Outputs(c) -> Nat]
<1>1. DOMAIN loads' = Component
  OBVIOUS
<1>2. ASSUME NEW c \in Component PROVE loads'[c] \in [Outputs(c) -> Nat]
  <2>1. CASE c = d
    <3>1. loads'[d] = [loads[d] EXCEPT ![o] = loads[d][o] + 1]
      OBVIOUS
    <3>2. loads[d][o] + 1 \in Nat
      OBVIOUS
    <3> QED BY <2>1, <3>1, <3>2
  <2>2. CASE c # d
    BY <2>2
  <2> QED BY <2>1, <2>2
<1> QED BY <1>1, <1>2

\* A statement keeps the types.
LEMMA StatementType ==
    ASSUME TypeOK, NEW c \in Component, Statement(c)
    PROVE  TypeOK'
<1> USE SizeAssumption, TreeAssumption
<1>1. ASSUME NEW d \in Component, Create(c, d) PROVE TypeOK'
  <2>1. pc' \in [Component -> Location]
    <3>1. CASE pc' = [pc EXCEPT ![d] = "waiting"]
      BY <3>1, LocationList DEF TypeOK
    <3>2. CASE pc' = [pc EXCEPT ![c] = "callee", ![d] = "body"]
      BY <3>2, LocationList DEF TypeOK
    <3> QED BY <1>1, <3>1, <3>2 DEF Create
  <2>2. target' \in [Component -> Component \cup {NoCmp}]
    BY <1>1 DEF Create, TypeOK
  <2> QED BY <1>1, <2>1, <2>2 DEF Create, TypeOK
<1>2. ASSUME NEW d \in Component, AssignInput(c, d) PROVE TypeOK'
  <2>1. pc' \in [Component -> Location]
    <3>1. CASE pc' = [pc EXCEPT ![c] = "slot", ![d] = "body"]
      BY <3>1, LocationList DEF TypeOK
    <3>2. CASE pc' = [pc EXCEPT ![c] = "callee", ![d] = "body"]
      BY <3>2, LocationList DEF TypeOK
    <3> QED BY <1>2, <3>1, <3>2 DEF AssignInput, TypeOK
  <2>2. /\ target' \in [Component -> Component \cup {NoCmp}]
        /\ sbct' \in [Component -> {"none", "joinable", "joined"}]
    <3>1. /\ (target' = target \/ target' = [target EXCEPT ![c] = d])
          /\ (sbct' = sbct \/ sbct' = [sbct EXCEPT ![d] = "joinable"])
      BY <1>2 DEF AssignInput
    <3>2. target' \in [Component -> Component \cup {NoCmp}]
      BY <3>1 DEF TypeOK
    <3>3. sbct' \in [Component -> {"none", "joinable", "joined"}]
      BY <3>1 DEF TypeOK
    <3> QED BY <3>2, <3>3
  <2>3. inputCounter' \in [Component -> Nat]
    <3>1. inputCounter[d] - 1 \in Nat
      BY <1>2 DEF AssignInput, TypeOK
    <3> QED BY <1>2, <3>1 DEF AssignInput, TypeOK
  <2> QED BY <1>2, <2>1, <2>2, <2>3 DEF AssignInput, TypeOK
<1>3. ASSUME NEW d \in Component, NEW o \in Outputs(d), Load(c, d, o) PROVE TypeOK'
  <2>1. CASE d \notin Par
    <3>1. /\ DOMAIN loads' = Component
          /\ \A e \in Component : loads'[e] \in [Outputs(e) -> Nat]
      BY <1>3, <2>1, LoadsType DEF Load, TypeOK
    <3> QED BY <1>3, <2>1, <3>1 DEF Load, TypeOK
  <2>2. CASE d \in Par
    <3>1. pc' \in [Component -> Location] /\ numThread' \in Int
      BY <1>3, <2>2, LocationList DEF Load, TypeOK
    <3>2. /\ target' \in [Component -> Component \cup {NoCmp}]
          /\ index' \in [Component -> Nat]
      <4>1. o \in Nat
        BY <1>3 DEF Outputs
      <4>2. /\ target' = [target EXCEPT ![c] = d]
            /\ index' = [index EXCEPT ![c] = o]
        BY <1>3, <2>2 DEF Load
      <4> QED BY <4>1, <4>2 DEF TypeOK
    <3> QED BY <1>3, <2>2, <3>1, <3>2 DEF Load, TypeOK
  <2> QED BY <2>1, <2>2
<1>4. ASSUME NEW o \in Outputs(c), Store(c, o) PROVE TypeOK'
  <2>1. o \in Nat
    BY <1>4 DEF Outputs
  <2>2. pc' \in [Component -> Location] /\ index' \in [Component -> Nat]
    BY <1>4, <2>1, LocationList DEF Store, TypeOK
  <2>3. stored' \in [Component -> SUBSET Nat]
    BY <1>4, <2>1 DEF Store, TypeOK
  <2> QED BY <1>4, <2>2, <2>3 DEF Store, TypeOK
<1>5. CASE EndBody(c)
  BY <1>5, LocationList DEF EndBody, TypeOK
<1> QED BY <1>1, <1>2, <1>3, <1>4, <1>5 DEF Statement

\* A wait keeps the types.
LEMMA WaitType ==
    ASSUME TypeOK, NEW c \in Component, Wait(c)
    PROVE  TypeOK'
<1>1. CASE TakeSlot(c)
  <2>1. pc' \in [Component -> Location] /\ numThread' \in Int
    BY <1>1, WaitForSlotType, LocationList DEF TakeSlot, TypeOK
  <2> QED BY <1>1, <2>1 DEF TakeSlot, TypeOK
<1>2. CASE Return(c)
  BY <1>2, LocationList DEF Return, TypeOK
<1>3. CASE YieldNotify(c)
  <2>1. pc' \in [Component -> Location]
    BY <1>3, NotifyOneType, LocationList DEF YieldNotify, TypeOK
  <2> QED BY <1>3, <2>1 DEF YieldNotify, TypeOK
<1>4. CASE AwaitOutput(c)
  BY <1>4, LocationList DEF AwaitOutput, TypeOK
<1>5. CASE RetakeSlot(c)
  <2>1. pc' \in [Component -> Location] /\ numThread' \in Int
    BY <1>5, WaitForSlotType, LocationList DEF RetakeSlot, TypeOK
  <2>2. /\ DOMAIN loads' = Component
        /\ \A e \in Component : loads'[e] \in [Outputs(e) -> Nat]
    <3>1. CASE numThread < MaxThread
      BY <1>5, <3>1, LoadsType DEF RetakeSlot, TypeOK
    <3>2. CASE ~(numThread < MaxThread)
      BY <1>5, <3>2 DEF RetakeSlot, TypeOK
    <3> QED BY <3>1, <3>2
  <2> QED BY <1>5, <2>1, <2>2 DEF RetakeSlot, TypeOK
<1>6. CASE Publish(c)
  BY <1>6, LocationList DEF Publish, SetOutput, TypeOK
<1>7. CASE PublishNotify(c)
  <2>1. pc' \in [Component -> Location]
    BY <1>7, NotifyAllType, LocationList DEF PublishNotify, TypeOK
  <2> QED BY <1>7, <2>1 DEF PublishNotify, TypeOK
<1> QED BY <1>1, <1>2, <1>3, <1>4, <1>5, <1>6, <1>7 DEF Wait

\* An epilogue step keeps the types.
LEMMA EpilogueType ==
    ASSUME TypeOK, NEW c \in Component, Epilogue(c)
    PROVE  TypeOK'
<1>0. \A n : AfterFlag(c, n) \in Location
  BY LocationList DEF AfterFlag
<1>1. CASE Join(c)
  BY <1>0, <1>1, LocationList DEF Join, TypeOK
<1>2. CASE Flag(c)
  BY <1>2, LocationList DEF Flag, SetOutput, TypeOK
<1>3. CASE FlagNotify(c)
  <2>1. pc' \in [Component -> Location]
    BY <1>0, <1>3, NotifyAllType DEF FlagNotify, TypeOK
  <2>2. index[c] + 1 \in Nat
    BY DEF TypeOK
  <2> QED BY <1>3, <2>1, <2>2 DEF FlagNotify, TypeOK
<1>4. CASE Leave(c)
  BY <1>4, LocationList DEF Leave, TypeOK
<1>5. CASE LeaveNotify(c)
  <2>1. pc' \in [Component -> Location]
    BY <1>5, NotifyOneType, LocationList DEF LeaveNotify, TypeOK
  <2> QED BY <1>5, <2>1 DEF LeaveNotify, TypeOK
<1>6. CASE Release(c)
  BY <1>6, LocationList DEF Release, TypeOK
<1> QED BY <1>1, <1>2, <1>3, <1>4, <1>5, <1>6 DEF Epilogue

\* The initial state has the types.
LEMMA InitType == Init => TypeOK
BY TreeAssumption, SizeAssumption, LocationList DEF Init, TypeOK, Outputs

\* Every step keeps the types.
LEMMA NextType == TypeOK /\ [Next]_vars => TypeOK'
<1> SUFFICES ASSUME TypeOK, [Next]_vars PROVE TypeOK'
  OBVIOUS
<1>1. ASSUME NEW c \in Component, Step(c) PROVE TypeOK'
  BY <1>1, StatementType, WaitType, EpilogueType DEF Step
<1>2. CASE Finished \/ UNCHANGED vars
  BY <1>2 DEF Finished, vars, TypeOK
<1> QED BY <1>1, <1>2 DEF Next

\* Every variable of the run-time keeps its type.
THEOREM TypeCorrect == Spec => []TypeOK
BY InitType, NextType, PTL DEF Spec
-----------------------------------------------------------------------------
(* How the program counters of the other frames move *)

\* notify_one moves the caller on and wakes at most one thread.
LEMMA NotifyOneMoves ==
    ASSUME TypeOK, NEW c \in Component, NEW l \in Location, NotifyOne(c, l),
           c \notin Sleepers
    PROVE  /\ pc'[c] = l
           /\ \A e \in Component \ {c} :
                 \/ pc'[e] = pc[e]
                 \/ pc[e] = "slotAsleep" /\ pc'[e] = "slot"
                 \/ pc[e] = "reslotAsleep" /\ pc'[e] = "reslot"
BY DEF NotifyOne, Sleepers, Awake, TypeOK

\* notify_all on an output of d moves d on and wakes at most its parent.
LEMMA NotifyAllMoves ==
    ASSUME TypeOK, NEW d \in Component \ {main}, NEW o, NEW l \in Location,
           NotifyAll(d, o, l)
    PROVE  /\ pc'[d] = l
           /\ \A e \in Component \ {d} :
                 \/ /\ pc'[e] = pc[e]
                    /\ ~(pc[e] = "cvAsleep" /\ Parent[d] = e /\ target[e] = d /\ index[e] = o)
                 \/ pc[e] = "cvAsleep" /\ pc'[e] = "lock"
BY TreeAssumption DEF NotifyAll, TypeOK

\* The registers stay valid.
LEMMA RegistersStep ==
    ASSUME TypeOK, RegistersOK, OutputsOK, CallsOK, NEW c \in Component, Step(c)
    PROVE  RegistersOK'
<1> USE TreeAssumption, SizeAssumption
<1>1. ASSUME NEW d \in Component, Create(c, d) PROVE RegistersOK'
  <2>1. /\ pc[c] = "body" /\ pc[d] = "absent"
        /\ d \in Children(c) /\ d # c /\ d # main /\ Parent[d] = c
        /\ UNCHANGED <<index, inputCounter, stored, outputIsSet, loads, sbct, released>>
    BY <1>1 DEF Create, Children
  <2>2. CASE NInputs[d] > 0
    <3>1. pc' = [pc EXCEPT ![d] = "waiting"] /\ target' = target
      BY <1>1, <2>2 DEF Create
    <3> QED BY <2>1, <3>1 DEF RegistersOK, SlotWaits, Reslot, Loading, Started
  <2>3. CASE NInputs[d] = 0
    <3>1. /\ pc' = [pc EXCEPT ![c] = "callee", ![d] = "body"]
          /\ target' = [target EXCEPT ![c] = d]
      BY <1>1, <2>3 DEF Create
    <3> QED BY <2>1, <2>3, <3>1 DEF RegistersOK, SlotWaits, Reslot, Loading, Started, Children, TypeOK, Threads
  <2>4. NInputs[d] \in Nat
    OBVIOUS
  <2> QED BY <2>2, <2>3, <2>4
<1>2. ASSUME NEW d \in Component, AssignInput(c, d) PROVE RegistersOK'
  BY <1>2 DEF AssignInput, RegistersOK, SlotWaits, Reslot, Loading, Started, Children, TypeOK
<1>3. ASSUME NEW d \in Component, NEW o \in Outputs(d), Load(c, d, o) PROVE RegistersOK'
  BY <1>3 DEF Load, RegistersOK, SlotWaits, Started, Children, TypeOK
<1>4. ASSUME NEW o \in Outputs(c), Store(c, o) PROVE RegistersOK'
  BY <1>4 DEF Store, RegistersOK, SlotWaits, Reslot, Loading, Started, Children, TypeOK
<1>5. CASE EndBody(c)
  BY <1>5 DEF EndBody, RegistersOK, SlotWaits, Reslot, Loading, Started
<1>6. CASE TakeSlot(c)
  BY <1>6 DEF TakeSlot, RegistersOK, SlotWaits, Reslot, Loading, Started, Children, TypeOK, WaitForSlot
<1>7. CASE Return(c)
  BY <1>7 DEF Return, RegistersOK, SlotWaits, Reslot, Loading, Started
<1>8. CASE YieldNotify(c)
  <2>1. /\ pc'[c] = "lock"
        /\ \A e \in Component \ {c} :
              \/ pc'[e] = pc[e]
              \/ pc[e] = "slotAsleep" /\ pc'[e] = "slot"
              \/ pc[e] = "reslotAsleep" /\ pc'[e] = "reslot"
    BY <1>8, NotifyOneMoves, LocationList DEF YieldNotify, Sleepers
  <2>2. /\ pc[c] = "yieldNotify"
        /\ UNCHANGED <<target, index, inputCounter, stored, outputIsSet, loads, sbct, released>>
    BY <1>8 DEF YieldNotify
  <2> QED BY <2>1, <2>2 DEF RegistersOK, SlotWaits, Reslot, Loading, Started, Children, OutputsOK
<1>9. CASE AwaitOutput(c)
  BY <1>9 DEF AwaitOutput, RegistersOK, SlotWaits, Loading, Started
<1>10. CASE RetakeSlot(c)
  BY <1>10 DEF RetakeSlot, RegistersOK, SlotWaits, Reslot, Loading, Started, Children, TypeOK, WaitForSlot
<1>11. CASE Publish(c)
  BY <1>11 DEF Publish, RegistersOK, SlotWaits, Reslot, Loading, Started, SetOutput
<1>12. CASE PublishNotify(c)
  <2>1. /\ pc'[c] = "body"
        /\ \A e \in Component \ {c} :
              \/ /\ pc'[e] = pc[e]
                 /\ ~(pc[e] = "cvAsleep" /\ Parent[c] = e /\ target[e] = c /\ index[e] = index[c])
              \/ pc[e] = "cvAsleep" /\ pc'[e] = "lock"
    BY <1>12, NotifyAllMoves, LocationList DEF PublishNotify, Threads
  <2>2. /\ pc[c] = "publishNotify" /\ c \in Threads
        /\ UNCHANGED <<target, inputCounter, stored, outputIsSet, loads, sbct, released>>
    BY <1>12 DEF PublishNotify
  <2>3. UNCHANGED index
    BY <1>12 DEF PublishNotify
  <2> QED BY <2>1, <2>2, <2>3 DEF RegistersOK, SlotWaits, Reslot, Loading, Started, Children
<1>13. CASE Join(c)
  BY <1>13 DEF Join, RegistersOK, SlotWaits, Reslot, Loading, Started, TypeOK, AfterFlag, Outputs
<1>14. CASE Flag(c)
  BY <1>14 DEF Flag, RegistersOK, SlotWaits, Reslot, Loading, Started, SetOutput
<1>15. CASE FlagNotify(c)
  <2>1. /\ pc'[c] = AfterFlag(c, index[c])
        /\ \A e \in Component \ {c} :
              \/ /\ pc'[e] = pc[e]
                 /\ ~(pc[e] = "cvAsleep" /\ Parent[c] = e /\ target[e] = c /\ index[e] = index[c])
              \/ pc[e] = "cvAsleep" /\ pc'[e] = "lock"
    BY <1>15, NotifyAllMoves, LocationList DEF FlagNotify, Threads, AfterFlag
  <2>2. /\ pc[c] = "flagNotify" /\ c \in Threads
        /\ UNCHANGED <<target, inputCounter, stored, outputIsSet, loads, sbct, released>>
    BY <1>15 DEF FlagNotify
  <2>3. /\ index' = [index EXCEPT ![c] = index[c] + 1]
        /\ \/ AfterFlag(c, index[c]) = "leave"
           \/ AfterFlag(c, index[c]) = "flag" /\ index[c] + 1 \in Outputs(c)
    BY <1>15 DEF FlagNotify, AfterFlag, Outputs, TypeOK
  <2> QED BY <2>1, <2>2, <2>3 DEF RegistersOK, SlotWaits, Reslot, Loading, Started, Children
<1>16. CASE Leave(c)
  BY <1>16 DEF Leave, RegistersOK, SlotWaits, Reslot, Loading, Started
<1>17. CASE LeaveNotify(c)
  <2>1. /\ pc'[c] = "release"
        /\ \A e \in Component \ {c} :
              \/ pc'[e] = pc[e]
              \/ pc[e] = "slotAsleep" /\ pc'[e] = "slot"
              \/ pc[e] = "reslotAsleep" /\ pc'[e] = "reslot"
    BY <1>17, NotifyOneMoves, LocationList DEF LeaveNotify, Sleepers
  <2>2. /\ pc[c] = "leaveNotify"
        /\ UNCHANGED <<target, index, inputCounter, stored, outputIsSet, loads, sbct, released>>
    BY <1>17 DEF LeaveNotify
  <2> QED BY <2>1, <2>2 DEF RegistersOK, SlotWaits, Reslot, Loading, Started, Children, OutputsOK
<1>18. CASE Release(c)
  <2>1. /\ pc[c] = "release" /\ pc'[c] \in {"ended", "aborted"}
        /\ \A e \in Component \ {c} : pc'[e] = pc[e]
        /\ UNCHANGED <<target, index, stored>>
    BY <1>18 DEF Release, TypeOK
  <2> QED BY <2>1 DEF RegistersOK, SlotWaits, Reslot, Loading, Started, Children
<1> QED BY <1>1, <1>2, <1>3, <1>4, <1>5, <1>6, <1>7, <1>8, <1>9, <1>10, <1>11, <1>12, <1>13, <1>14, <1>15, <1>16, <1>17, <1>18
   DEF Step, Statement, Wait, Epilogue

\* The flags stay behind the values.
LEMMA OutputsStep ==
    ASSUME TypeOK, RegistersOK, OutputsOK, CallsOK, NEW c \in Component, Step(c)
    PROVE  OutputsOK'
<1> USE TreeAssumption, SizeAssumption
<1>1. ASSUME NEW d \in Component, Create(c, d) PROVE OutputsOK'
  <2>1. /\ pc[c] = "body" /\ pc[d] = "absent"
        /\ d \in Children(c) /\ d # c /\ d # main /\ Parent[d] = c
        /\ UNCHANGED <<index, inputCounter, stored, outputIsSet, loads, sbct, released>>
    BY <1>1 DEF Create, Children
  <2>2. CASE NInputs[d] > 0
    <3>1. pc' = [pc EXCEPT ![d] = "waiting"] /\ target' = target
      BY <1>1, <2>2 DEF Create
    <3> QED BY <2>1, <3>1 DEF OutputsOK, Started, Reslot, Leaving, Closing
  <2>3. CASE NInputs[d] = 0
    <3>1. /\ pc' = [pc EXCEPT ![c] = "callee", ![d] = "body"]
          /\ target' = [target EXCEPT ![c] = d]
      BY <1>1, <2>3 DEF Create
    <3> QED BY <2>1, <2>3, <3>1 DEF OutputsOK, Started, SlotWaits, Reslot, Leaving, Closing, TypeOK
  <2>4. NInputs[d] \in Nat
    OBVIOUS
  <2> QED BY <2>2, <2>3, <2>4
<1>2. ASSUME NEW d \in Component, AssignInput(c, d) PROVE OutputsOK'
  BY <1>2 DEF AssignInput, OutputsOK, Started, Reslot, Leaving, Closing, TypeOK, CallsOK
<1>3. ASSUME NEW d \in Component, NEW o \in Outputs(d), Load(c, d, o) PROVE OutputsOK'
  BY <1>3 DEF Load, OutputsOK, Started, Reslot, Leaving, Closing, TypeOK
<1>4. ASSUME NEW o \in Outputs(c), Store(c, o) PROVE OutputsOK'
  BY <1>4 DEF Store, OutputsOK, Started, Reslot, Leaving, Closing, TypeOK
<1>5. CASE EndBody(c)
  BY <1>5 DEF EndBody, OutputsOK, Started, Reslot, Leaving, Closing
<1>6. CASE TakeSlot(c)
  BY <1>6 DEF TakeSlot, OutputsOK, Started, SlotWaits, Reslot, Leaving, Closing, TypeOK, WaitForSlot
<1>7. CASE Return(c)
  BY <1>7 DEF Return, OutputsOK, Started, Reslot, Leaving, Closing
<1>8. CASE YieldNotify(c)
  <2>1. /\ pc'[c] = "lock"
        /\ \A e \in Component \ {c} :
              \/ pc'[e] = pc[e]
              \/ pc[e] = "slotAsleep" /\ pc'[e] = "slot"
              \/ pc[e] = "reslotAsleep" /\ pc'[e] = "reslot"
    BY <1>8, NotifyOneMoves, LocationList DEF YieldNotify, Sleepers
  <2>2. /\ pc[c] = "yieldNotify"
        /\ UNCHANGED <<target, index, inputCounter, stored, outputIsSet, loads, sbct, released>>
    BY <1>8 DEF YieldNotify
  <2> QED BY <2>1, <2>2 DEF OutputsOK, Started, Reslot, Leaving, Closing
<1>9. CASE AwaitOutput(c)
  BY <1>9 DEF AwaitOutput, OutputsOK, Started, Reslot, Leaving, Closing
<1>10. CASE RetakeSlot(c)
  BY <1>10 DEF RetakeSlot, OutputsOK, Started, SlotWaits, Reslot, Leaving, Closing, TypeOK, WaitForSlot
<1>11. CASE Publish(c)
  BY <1>11 DEF Publish, OutputsOK, Started, SlotWaits, Reslot, Loading, Leaving, Closing, SetOutput, RegistersOK
<1>12. CASE PublishNotify(c)
  <2>1. /\ pc'[c] = "body"
        /\ \A e \in Component \ {c} :
              \/ /\ pc'[e] = pc[e]
                 /\ ~(pc[e] = "cvAsleep" /\ Parent[c] = e /\ target[e] = c /\ index[e] = index[c])
              \/ pc[e] = "cvAsleep" /\ pc'[e] = "lock"
    BY <1>12, NotifyAllMoves, LocationList DEF PublishNotify, Threads
  <2>2. /\ pc[c] = "publishNotify" /\ c \in Threads
        /\ UNCHANGED <<target, inputCounter, stored, outputIsSet, loads, sbct, released>>
    BY <1>12 DEF PublishNotify
  <2>3. UNCHANGED index
    BY <1>12 DEF PublishNotify
  <2> QED BY <2>1, <2>2, <2>3 DEF OutputsOK, Started, Reslot, Leaving, Closing
<1>13. CASE Join(c)
  <2>1. /\ pc[c] = "join" /\ pc' = [pc EXCEPT ![c] = pc'[c]]
        /\ pc'[c] = IF c \in Threads THEN AfterFlag(c, 0) ELSE "release"
        /\ index' = [index EXCEPT ![c] = 1]
        /\ UNCHANGED <<target, stored, outputIsSet>>
    BY <1>13 DEF Join, TypeOK
  <2>2. \/ pc'[c] = "flag" /\ c \in Threads
        \/ pc'[c] = "leave" /\ Outputs(c) = {} /\ c \in Threads
        \/ pc'[c] = "release" /\ c \notin Threads
    BY <2>1 DEF AfterFlag, Outputs
  <2>3. index'[c] = 1 /\ 1..index'[c] - 1 = {} /\ \A e \in Component \ {c} : index'[e] = index[e]
    BY <2>1 DEF TypeOK
  <2>4. \A e \in Component \ {c} : pc'[e] = pc[e]
    BY <2>1 DEF TypeOK
  <2>5. ASSUME NEW e \in Component \ {c} PROVE OutputsOK!(e)'
    BY <2>1, <2>3, <2>4 DEF OutputsOK, Started, Reslot, Closing, Leaving, RegistersOK, Loading, Children
  <2>6. OutputsOK!(c)'
    <3>1. outputIsSet[c] \subseteq Outputs(c) /\ stored[c] \subseteq Outputs(c)
      BY DEF OutputsOK
    <3>2. pc'[c] = "flag" => 1..index'[c] - 1 \subseteq outputIsSet'[c]
      BY <2>3
    <3> QED BY <2>1, <2>2, <3>1, <3>2 DEF Started, Reslot, Closing, Leaving
  <2> QED BY <2>5, <2>6 DEF OutputsOK
<1>14. CASE Flag(c)
  <2>1. /\ pc[c] = "flag" /\ index[c] \in Outputs(c) /\ index[c] \in Nat
        /\ pc' = [pc EXCEPT ![c] = "flagNotify"]
        /\ outputIsSet' = [outputIsSet EXCEPT ![c] = outputIsSet[c] \cup {index[c]}]
        /\ UNCHANGED <<target, index, stored>>
    BY <1>14 DEF Flag, SetOutput, RegistersOK, TypeOK
  <2>2. /\ outputIsSet'[c] = outputIsSet[c] \cup {index[c]}
        /\ \A e \in Component \ {c} : outputIsSet'[e] = outputIsSet[e] /\ pc'[e] = pc[e]
        /\ pc'[c] = "flagNotify"
    BY <2>1 DEF TypeOK
  <2>3. 1..index[c] \subseteq outputIsSet'[c]
    <3>1. \A i \in 1..index[c] : i \in 1..index[c] - 1 \/ i = index[c]
      BY <2>1
    <3> QED BY <2>1, <2>2, <3>1 DEF OutputsOK, Started
  <2>4. \A e \in Component : pc'[e] \in Reslot => index'[e] \in outputIsSet'[target'[e]]
    BY <2>1, <2>2 DEF OutputsOK, Started, RegistersOK, Reslot, Loading, Children
  <2> QED BY <2>1, <2>2, <2>3, <2>4 DEF OutputsOK, Started, Closing, Leaving
<1>15. CASE FlagNotify(c)
  <2>1. /\ pc'[c] = AfterFlag(c, index[c])
        /\ \A e \in Component \ {c} :
              \/ /\ pc'[e] = pc[e]
                 /\ ~(pc[e] = "cvAsleep" /\ Parent[c] = e /\ target[e] = c /\ index[e] = index[c])
              \/ pc[e] = "cvAsleep" /\ pc'[e] = "lock"
    BY <1>15, NotifyAllMoves, LocationList DEF FlagNotify, Threads, AfterFlag
  <2>2. /\ pc[c] = "flagNotify" /\ c \in Threads
        /\ UNCHANGED <<target, inputCounter, stored, outputIsSet, loads, sbct, released>>
    BY <1>15 DEF FlagNotify
  <2>3. /\ index' = [index EXCEPT ![c] = index[c] + 1]
        /\ \/ AfterFlag(c, index[c]) = "leave"
           \/ AfterFlag(c, index[c]) = "flag" /\ index[c] + 1 \in Outputs(c)
    BY <1>15 DEF FlagNotify, AfterFlag, Outputs, TypeOK
  <2>4. \/ pc'[c] = "leave" /\ outputIsSet[c] = Outputs(c)
        \/ pc'[c] = "flag" /\ 1..index'[c] - 1 \subseteq outputIsSet[c]
    <3>1. 1..index[c] \subseteq outputIsSet[c] /\ outputIsSet[c] \subseteq 1..NOutputs[c]
      BY <2>2 DEF OutputsOK, Started, Outputs
    <3>2. index[c] \in Nat /\ NOutputs[c] \in Nat /\ index'[c] = index[c] + 1
      BY <2>3 DEF TypeOK
    <3>3. CASE index[c] < NOutputs[c]
      BY <2>1, <3>1, <3>2, <3>3 DEF AfterFlag
    <3>4. CASE ~(index[c] < NOutputs[c])
      <4>1. 1..NOutputs[c] \subseteq 1..index[c]
        BY <3>2, <3>4
      <4> QED BY <2>1, <3>1, <3>4, <4>1 DEF AfterFlag, Outputs
    <3> QED BY <3>3, <3>4
  <2>5. \A e \in Component \ {c} : index'[e] = index[e]
    BY <2>3 DEF TypeOK
  <2> QED BY <2>1, <2>2, <2>4, <2>5 DEF OutputsOK, Started, Reslot, Leaving, Closing
<1>16. CASE Leave(c)
  BY <1>16 DEF Leave, OutputsOK, Started, Reslot, Closing, Leaving
<1>17. CASE LeaveNotify(c)
  <2>1. /\ pc'[c] = "release"
        /\ \A e \in Component \ {c} :
              \/ pc'[e] = pc[e]
              \/ pc[e] = "slotAsleep" /\ pc'[e] = "slot"
              \/ pc[e] = "reslotAsleep" /\ pc'[e] = "reslot"
    BY <1>17, NotifyOneMoves, LocationList DEF LeaveNotify, Sleepers
  <2>2. /\ pc[c] = "leaveNotify"
        /\ UNCHANGED <<target, index, inputCounter, stored, outputIsSet, loads, sbct, released>>
    BY <1>17 DEF LeaveNotify
  <2> QED BY <2>1, <2>2 DEF OutputsOK, Started, Reslot, Leaving, Closing
<1>18. CASE Release(c)
  <2>1. /\ pc[c] = "release" /\ pc'[c] \in {"ended", "aborted"}
        /\ \A e \in Component \ {c} : pc'[e] = pc[e]
        /\ UNCHANGED <<target, index, stored, outputIsSet>>
    BY <1>18 DEF Release, TypeOK
  <2> QED BY <2>1 DEF OutputsOK, Started, Reslot, Leaving, Closing
<1> QED BY <1>1, <1>2, <1>3, <1>4, <1>5, <1>6, <1>7, <1>8, <1>9, <1>10, <1>11, <1>12, <1>13, <1>14, <1>15, <1>16, <1>17, <1>18
   DEF Step, Statement, Wait, Epilogue

\* Steps within a body or within the epilogue leave calls and joins alone.
LEMMA CallsQuiet ==
    ASSUME CallsOK, UNCHANGED <<inputCounter, sbct, released>>,
           \A e \in Component :
              /\ (pc'[e] \in Closing) = (pc[e] \in Closing)
              /\ \A l \in {"ended", "callee", "join", "absent", "waiting"} :
                    (pc'[e] = l) = (pc[e] = l)
              /\ pc[e] = "callee" => target'[e] = target[e]
    PROVE  CallsOK'
<1>1. \A e \in Component : Started(e)' = Started(e) /\ Created(e)' = Created(e)
  BY DEF Started, Created, Children
<1>2. \A e \in Component \ {main} : Parent[e] \in Component
  BY TreeAssumption
<1> QED BY <1>1, <1>2 DEF CallsOK, Children

\* Calls and joins stay nested.
LEMMA CallsStep ==
    ASSUME TypeOK, RegistersOK, OutputsOK, CallsOK, NEW c \in Component, Step(c)
    PROVE  CallsOK'
<1> USE TreeAssumption, SizeAssumption
<1>1. ASSUME NEW d \in Component, Create(c, d) PROVE CallsOK'
  <2>1. /\ pc[c] = "body" /\ pc[d] = "absent"
        /\ d \in Children(c) /\ d # c /\ d # main /\ Parent[d] = c
        /\ UNCHANGED <<inputCounter, sbct, released>>
    BY <1>1 DEF Create, Children
  <2>2. /\ inputCounter[d] = NInputs[d] /\ sbct[d] = "none" /\ inputCounter[d] \in Nat
        /\ \A e \in Component : pc[e] \in {"join"} \cup Closing => d \notin Children(e)
    BY <2>1 DEF CallsOK, Started, Created, Children, Closing, Leaving, TypeOK
  <2>3. CASE NInputs[d] > 0
    <3>1. pc' = [pc EXCEPT ![d] = "waiting"] /\ target' = target
      BY <1>1, <2>3 DEF Create
    <3>2. pc'[d] = "waiting" /\ \A e \in Component \ {d} : pc'[e] = pc[e]
      BY <3>1 DEF TypeOK
    <3>3. \A e \in Component : Created(e) => Created(e)'
      BY <3>2 DEF Created, Children
    <3> QED BY <2>1, <2>2, <2>3, <3>1, <3>2, <3>3 DEF CallsOK, Closing, Leaving, Started, Children
  <2>4. CASE NInputs[d] = 0
    <3>1. /\ pc' = [pc EXCEPT ![c] = "callee", ![d] = "body"]
          /\ target' = [target EXCEPT ![c] = d]
      BY <1>1, <2>4 DEF Create
    <3>2. /\ pc'[d] = "body" /\ pc'[c] = "callee" /\ target'[c] = d /\ d \notin Threads
          /\ \A e \in Component \ {c, d} : pc'[e] = pc[e]
          /\ \A e \in Component \ {c} : target'[e] = target[e]
      BY <2>1, <2>4, <3>1 DEF TypeOK, Threads
    <3>3. \A e \in Component : Created(e) => Created(e)'
      BY <2>1, <3>2 DEF Created, Children
    <3> QED BY <2>1, <2>2, <2>4, <3>2, <3>3 DEF CallsOK, Closing, Leaving, Started, Children
  <2> QED BY <2>2, <2>3, <2>4
<1>2. ASSUME NEW d \in Component, AssignInput(c, d) PROVE CallsOK'
  <2>1. /\ pc[c] = "body" /\ pc[d] = "waiting" /\ Parent[d] = c /\ d # c /\ d # main
        /\ d \in Children(c)
        /\ inputCounter' = [inputCounter EXCEPT ![d] = inputCounter[d] - 1] /\ released' = released
    BY <1>2 DEF AssignInput, Children
  <2>2. /\ inputCounter'[d] = inputCounter[d] - 1 /\ inputCounter[d] \in Nat
        /\ \A e \in Component \ {d} : inputCounter'[e] = inputCounter[e]
        /\ sbct[d] = "none"
    BY <2>1 DEF TypeOK, CallsOK, Started
  <2>3. CASE inputCounter[d] > 1
    <3>1. UNCHANGED <<pc, target, sbct>>
      BY <1>2, <2>3 DEF AssignInput
    <3> QED BY <2>1, <2>2, <2>3, <3>1 DEF CallsOK, Started, Created
  <2>4. CASE inputCounter[d] = 1 /\ d \in Threads
    <3>1. /\ pc' = [pc EXCEPT ![c] = "slot", ![d] = "body"]
          /\ target' = [target EXCEPT ![c] = d]
          /\ sbct' = [sbct EXCEPT ![d] = "joinable"]
      BY <1>2, <2>4 DEF AssignInput, TypeOK
    <3>2. /\ pc'[d] = "body" /\ pc'[c] = "slot" /\ sbct'[d] = "joinable"
          /\ \A e \in Component \ {c, d} : pc'[e] = pc[e]
          /\ \A e \in Component \ {c} : target'[e] = target[e]
          /\ \A e \in Component \ {d} : sbct'[e] = sbct[e]
      BY <2>1, <3>1 DEF TypeOK
    <3>3. \A e \in Component : Created(e) => Created(e)'
      BY <2>1, <3>2 DEF Created, Children
    <3> QED BY <2>1, <2>2, <2>4, <3>2, <3>3 DEF CallsOK, Closing, Leaving, Started, Children
  <2>5. CASE inputCounter[d] = 1 /\ d \notin Threads
    <3>1. /\ pc' = [pc EXCEPT ![c] = "callee", ![d] = "body"]
          /\ target' = [target EXCEPT ![c] = d]
          /\ sbct' = sbct
      BY <1>2, <2>5 DEF AssignInput, TypeOK
    <3>2. /\ pc'[d] = "body" /\ pc'[c] = "callee" /\ target'[c] = d /\ sbct' = sbct
          /\ \A e \in Component \ {c, d} : pc'[e] = pc[e]
          /\ \A e \in Component \ {c} : target'[e] = target[e]
      BY <2>1, <3>1 DEF TypeOK
    <3>3. \A e \in Component : Created(e) => Created(e)'
      BY <2>1, <3>2 DEF Created, Children
    <3> QED BY <2>1, <2>2, <2>5, <3>2, <3>3 DEF CallsOK, Closing, Leaving, Started, Children
  <2> QED BY <1>2, <2>3, <2>4, <2>5 DEF AssignInput
<1>3. ASSUME \/ \E d \in Component : \E o \in Outputs(d) : Load(c, d, o)
             \/ \E o \in Outputs(c) : Store(c, o)
             \/ TakeSlot(c) \/ AwaitOutput(c) \/ RetakeSlot(c) \/ Publish(c)
             \/ Flag(c) \/ Leave(c)
      PROVE  CallsOK'
  <2>1. /\ UNCHANGED <<inputCounter, sbct, released>>
        /\ \A e \in Component \ {c} : pc'[e] = pc[e] /\ target'[e] = target[e]
        /\ \/ pc[c] \in InBody /\ pc'[c] \in InBody /\ pc[c] # "callee" /\ pc'[c] # "callee"
           \/ pc[c] \in {"flag", "leave"} /\ pc'[c] \in {"flagNotify", "leaveNotify"}
    BY <1>3 DEF Load, Store, TakeSlot, AwaitOutput, RetakeSlot, Publish, Flag, SetOutput, Leave,
                WaitForSlot, TypeOK, InBody, SlotWaits, Loading, Reslot
  <2>2. ASSUME NEW e \in Component
        PROVE  /\ (pc'[e] \in Closing) = (pc[e] \in Closing)
               /\ \A l \in {"ended", "callee", "join", "absent", "waiting"} :
                     (pc'[e] = l) = (pc[e] = l)
               /\ pc[e] = "callee" => target'[e] = target[e]
    BY <2>1 DEF Closing, Leaving, InBody, SlotWaits, Loading, Reslot
  <2> QED BY <2>1, <2>2, CallsQuiet
<1>4. CASE EndBody(c)
  <2>1. /\ pc[c] = "body" /\ Created(c) /\ UNCHANGED <<inputCounter, sbct, released, target>>
        /\ pc'[c] = "join" /\ \A e \in Component \ {c} : pc'[e] = pc[e]
    BY <1>4 DEF EndBody, TypeOK
  <2>2. \A e \in Component : Created(e) => Created(e)'
    BY <2>1 DEF Created, Children
  <2> QED BY <2>1, <2>2 DEF CallsOK, Closing, Leaving, Started, Children
<1>5. CASE Return(c)
  <2>1. /\ pc[c] = "callee" /\ pc[target[c]] = "ended"
        /\ UNCHANGED <<inputCounter, sbct, released, target>>
        /\ pc'[c] = "body" /\ \A e \in Component \ {c} : pc'[e] = pc[e]
    BY <1>5 DEF Return, TypeOK
  <2>2. \A e \in Component : Created(e)' = Created(e)
    BY <2>1 DEF Created, Children
  <2> QED BY <2>1, <2>2 DEF CallsOK, Closing, Leaving, Started, Children
<1>6. CASE YieldNotify(c) \/ LeaveNotify(c)
  <2>1. \/ pc[c] = "yieldNotify" /\ NotifyOne(c, "lock")
        \/ pc[c] = "leaveNotify" /\ NotifyOne(c, "release")
    BY <1>6 DEF YieldNotify, LeaveNotify
  <2>2. /\ \/ pc[c] = "yieldNotify" /\ pc'[c] = "lock"
           \/ pc[c] = "leaveNotify" /\ pc'[c] = "release"
        /\ \A e \in Component \ {c} :
              \/ pc'[e] = pc[e]
              \/ pc[e] = "slotAsleep" /\ pc'[e] = "slot"
              \/ pc[e] = "reslotAsleep" /\ pc'[e] = "reslot"
    BY <2>1, NotifyOneMoves, LocationList DEF Sleepers
  <2>3. UNCHANGED <<inputCounter, sbct, released, target>>
    BY <1>6 DEF YieldNotify, LeaveNotify
  <2>4. ASSUME NEW e \in Component
        PROVE  /\ (pc'[e] \in Closing) = (pc[e] \in Closing)
               /\ \A l \in {"ended", "callee", "join", "absent", "waiting"} :
                     (pc'[e] = l) = (pc[e] = l)
    BY <2>2 DEF Closing, Leaving
  <2> QED BY <2>3, <2>4, CallsQuiet
<1>7. CASE PublishNotify(c) \/ FlagNotify(c)
  <2>1. /\ c \in Component \ {main}
        /\ \E l \in {"body", "flag", "leave"} :
              /\ NotifyAll(c, index[c], l)
              /\ \/ pc[c] = "publishNotify" /\ l = "body"
                 \/ pc[c] = "flagNotify" /\ l \in {"flag", "leave"}
    BY <1>7 DEF PublishNotify, FlagNotify, Threads, AfterFlag
  <2>2. PICK l \in {"body", "flag", "leave"} :
              /\ NotifyAll(c, index[c], l)
              /\ \/ pc[c] = "publishNotify" /\ l = "body"
                 \/ pc[c] = "flagNotify" /\ l \in {"flag", "leave"}
    BY <2>1
  <2>3. l \in Location
    BY LocationList
  <2>4. /\ pc'[c] = l
        /\ \A e \in Component \ {c} :
              \/ pc'[e] = pc[e]
              \/ pc[e] = "cvAsleep" /\ pc'[e] = "lock"
    BY <2>1, <2>2, <2>3, NotifyAllMoves
  <2>5. UNCHANGED <<inputCounter, sbct, released, target>>
    BY <1>7 DEF PublishNotify, FlagNotify
  <2>6. ASSUME NEW e \in Component
        PROVE  /\ (pc'[e] \in Closing) = (pc[e] \in Closing)
               /\ \A k \in {"ended", "callee", "join", "absent", "waiting"} :
                     (pc'[e] = k) = (pc[e] = k)
    BY <2>2, <2>4 DEF Closing, Leaving
  <2> QED BY <2>5, <2>6, CallsQuiet
<1>8. CASE Join(c)
  <2>1. /\ pc[c] = "join" /\ UNCHANGED <<inputCounter, released, target>>
        /\ pc'[c] \in {"flag", "leave", "release"} /\ \A e \in Component \ {c} : pc'[e] = pc[e]
        /\ \A d \in Children(c) : sbct[d] = "joinable" => pc[d] = "ended"
        /\ \A d \in Component : sbct'[d] = IF d \in Children(c) /\ sbct[d] = "joinable"
                                          THEN "joined" ELSE sbct[d]
    BY <1>8 DEF Join, AfterFlag, TypeOK
  <2>2. ASSUME NEW d \in Children(c)
        PROVE  pc[d] \in {"waiting", "ended"} /\ pc'[d] = pc[d] /\ sbct'[d] # "joinable"
    <3>1. d \in Component \ {main} /\ Parent[d] = c /\ d # c /\ pc[d] # "absent"
      BY <2>1 DEF Children, CallsOK, Created
    <3>2. CASE Started(d) /\ d \notin Threads
      BY <2>1, <3>1, <3>2 DEF CallsOK
    <3>3. CASE Started(d) /\ d \in Threads
      BY <2>1, <3>1, <3>3 DEF CallsOK, TypeOK
    <3>4. CASE ~Started(d)
      BY <3>1, <3>4, <2>1 DEF Started
    <3>5. sbct'[d] # "joinable"
      BY <2>1, <3>1
    <3> QED BY <2>1, <3>1, <3>2, <3>3, <3>4, <3>5
  <2>3. \A e \in Component : Created(e)' = Created(e)
    BY <2>1 DEF Created, Children
  <2>4. \A e \in Component \ {main} : Started(e)' = Started(e)
    BY <2>1 DEF Started
  <2>5. CallsOK!1'
    BY <2>1, <2>2, <2>4 DEF CallsOK, Children
  <2>6. ASSUME NEW e \in Component
        PROVE  /\ pc'[e] \in {"join"} \cup Closing => Created(e)'
               /\ pc'[e] \in Closing => \A d \in Children(e) : pc'[d] \in {"waiting", "ended"}
                                                          /\ sbct'[d] # "joinable"
               /\ pc'[e] = "ended" => \A d \in Children(e) : pc'[d] = "ended"
    <3>1. CASE e = c
      BY <2>1, <2>2, <2>3, <3>1 DEF CallsOK
    <3>2. CASE e # c
      BY <2>1, <2>3, <3>2 DEF CallsOK, Children
    <3> QED BY <3>1, <3>2
  <2> QED BY <2>5, <2>6 DEF CallsOK
<1>9. CASE Release(c)
  <2>1. /\ pc[c] = "release" /\ UNCHANGED <<inputCounter, sbct, target>>
        /\ \A e \in Component \ {c} : pc'[e] = pc[e]
        /\ \/ /\ pc'[c] = "ended" /\ \A d \in Children(c) : inputCounter[d] = 0
              /\ \A e \in Component : released'[e] => released[e] \/ e \in Children(c)
           \/ pc'[c] = "aborted" /\ released' = released
    BY <1>9 DEF Release, TypeOK
  <2>2. \A d \in Children(c) : inputCounter[d] = 0 => pc[d] = "ended"
    BY <2>1 DEF CallsOK, Closing, Leaving, Children
  <2>3. /\ \A e \in Component : Created(e)' = Created(e) /\ Started(e)' = Started(e)
        /\ \A e \in Component : (pc'[e] \in Closing) = (pc[e] \in Closing)
        /\ \A l \in {"callee", "join", "absent", "waiting"} :
              \A e \in Component : (pc'[e] = l) = (pc[e] = l)
        /\ \A e \in Component : pc[e] = "ended" => pc'[e] = "ended"
    BY <2>1 DEF Created, Started, Children, Closing, Leaving
  <2>4. \A e \in Component \ {main} : released'[e] => pc'[Parent[e]] = "ended"
    BY <2>1, <2>3 DEF CallsOK, Children
  <2>5. \A e \in Component : pc'[e] = "ended" => \A d \in Children(e) : pc'[d] = "ended"
    BY <2>1, <2>2, <2>3 DEF CallsOK, Children
  <2> QED BY <2>1, <2>3, <2>4, <2>5 DEF CallsOK, Children
<1> QED BY <1>1, <1>2, <1>3, <1>4, <1>5, <1>6, <1>7, <1>8, <1>9
   DEF Step, Statement, Wait, Epilogue

\* No output notification is lost.
LEMMA WakeupStep ==
    ASSUME TypeOK, RegistersOK, OutputsOK, CallsOK, NoLostOutputWakeup, NEW c \in Component, Step(c)
    PROVE  NoLostOutputWakeup'
<1> USE TreeAssumption, SizeAssumption
<1>1. ASSUME NEW d \in Component, Create(c, d) PROVE NoLostOutputWakeup'
  <2>1. /\ pc[c] = "body" /\ pc[d] = "absent"
        /\ d \in Children(c) /\ d # c /\ d # main /\ Parent[d] = c
        /\ UNCHANGED <<index, inputCounter, stored, outputIsSet, loads, sbct, released>>
    BY <1>1 DEF Create, Children
  <2>2. CASE NInputs[d] > 0
    <3>1. pc' = [pc EXCEPT ![d] = "waiting"] /\ target' = target
      BY <1>1, <2>2 DEF Create
    <3> QED BY <2>1, <3>1 DEF NoLostOutputWakeup, SlotWaits
  <2>3. CASE NInputs[d] = 0
    <3>1. /\ pc' = [pc EXCEPT ![c] = "callee", ![d] = "body"]
          /\ target' = [target EXCEPT ![c] = d]
      BY <1>1, <2>3 DEF Create
    <3> QED BY <2>1, <2>3, <3>1 DEF NoLostOutputWakeup, SlotWaits, Reslot, Loading, Children, TypeOK, RegistersOK
  <2>4. NInputs[d] \in Nat
    OBVIOUS
  <2> QED BY <2>2, <2>3, <2>4
<1>2. ASSUME NEW d \in Component, AssignInput(c, d) PROVE NoLostOutputWakeup'
  BY <1>2 DEF AssignInput, NoLostOutputWakeup, SlotWaits, Loading, Children, TypeOK, RegistersOK
<1>3. ASSUME NEW d \in Component, NEW o \in Outputs(d), Load(c, d, o) PROVE NoLostOutputWakeup'
  BY <1>3 DEF Load, NoLostOutputWakeup, SlotWaits, Loading, Children, TypeOK, RegistersOK
<1>4. ASSUME NEW o \in Outputs(c), Store(c, o) PROVE NoLostOutputWakeup'
  BY <1>4 DEF Store, NoLostOutputWakeup, SlotWaits, Loading, Children, TypeOK, RegistersOK
<1>5. CASE EndBody(c)
  BY <1>5 DEF EndBody, NoLostOutputWakeup, SlotWaits
<1>6. CASE TakeSlot(c)
  BY <1>6 DEF TakeSlot, NoLostOutputWakeup, SlotWaits, Reslot, Loading, Children, TypeOK, WaitForSlot, RegistersOK
<1>7. CASE Return(c)
  BY <1>7 DEF Return, NoLostOutputWakeup, SlotWaits
<1>8. CASE YieldNotify(c)
  <2>1. /\ pc'[c] = "lock"
        /\ \A e \in Component \ {c} :
              \/ pc'[e] = pc[e]
              \/ pc[e] = "slotAsleep" /\ pc'[e] = "slot"
              \/ pc[e] = "reslotAsleep" /\ pc'[e] = "reslot"
    BY <1>8, NotifyOneMoves, LocationList DEF YieldNotify, Sleepers
  <2>2. /\ pc[c] = "yieldNotify"
        /\ UNCHANGED <<target, index, inputCounter, stored, outputIsSet, loads, sbct, released>>
    BY <1>8 DEF YieldNotify
  <2>3. \A e \in Component : \A l \in {"cvAsleep", "publishNotify", "flagNotify"} :
           (pc'[e] = l) = (pc[e] = l)
    BY <2>1, <2>2
  <2>4. \A e \in Component : pc[e] = "cvAsleep" => target[e] \in Component
    BY DEF RegistersOK, Loading, Children
  <2> QED BY <2>2, <2>3, <2>4 DEF NoLostOutputWakeup
<1>9. CASE AwaitOutput(c)
  BY <1>9 DEF AwaitOutput, NoLostOutputWakeup, SlotWaits
<1>10. CASE RetakeSlot(c)
  <2>1. /\ pc[c] = "reslot" /\ pc'[c] \in {"body", "reslotAsleep"}
        /\ \A e \in Component \ {c} : pc'[e] = pc[e]
        /\ UNCHANGED <<target, index, outputIsSet>>
    BY <1>10 DEF RetakeSlot, WaitForSlot, TypeOK
  <2> QED BY <2>1 DEF NoLostOutputWakeup, RegistersOK, Loading, Children
<1>11. CASE Publish(c)
  BY <1>11 DEF Publish, NoLostOutputWakeup, SlotWaits, Reslot, Loading, Leaving, TypeOK, SetOutput
<1>12. CASE PublishNotify(c)
  <2>1. /\ pc'[c] = "body"
        /\ \A e \in Component \ {c} :
              \/ /\ pc'[e] = pc[e]
                 /\ ~(pc[e] = "cvAsleep" /\ Parent[c] = e /\ target[e] = c /\ index[e] = index[c])
              \/ pc[e] = "cvAsleep" /\ pc'[e] = "lock"
    BY <1>12, NotifyAllMoves, LocationList DEF PublishNotify, Threads
  <2>2. /\ pc[c] = "publishNotify" /\ c \in Threads
        /\ UNCHANGED <<target, inputCounter, stored, outputIsSet, loads, sbct, released>>
    BY <1>12 DEF PublishNotify
  <2>3. UNCHANGED index
    BY <1>12 DEF PublishNotify
  <2> QED BY <2>1, <2>2, <2>3 DEF NoLostOutputWakeup, SlotWaits, Loading, Children, RegistersOK
<1>13. CASE Join(c)
  BY <1>13 DEF Join, NoLostOutputWakeup, SlotWaits, Reslot, Loading, AfterFlag, RegistersOK
<1>14. CASE Flag(c)
  BY <1>14 DEF Flag, NoLostOutputWakeup, SlotWaits, Reslot, Loading, Leaving, TypeOK, SetOutput
<1>15. CASE FlagNotify(c)
  <2>1. /\ pc'[c] = AfterFlag(c, index[c])
        /\ \A e \in Component \ {c} :
              \/ /\ pc'[e] = pc[e]
                 /\ ~(pc[e] = "cvAsleep" /\ Parent[c] = e /\ target[e] = c /\ index[e] = index[c])
              \/ pc[e] = "cvAsleep" /\ pc'[e] = "lock"
    BY <1>15, NotifyAllMoves, LocationList DEF FlagNotify, Threads, AfterFlag
  <2>2. /\ pc[c] = "flagNotify" /\ c \in Threads
        /\ UNCHANGED <<target, inputCounter, stored, outputIsSet, loads, sbct, released>>
    BY <1>15 DEF FlagNotify
  <2>3. /\ index' = [index EXCEPT ![c] = index[c] + 1]
        /\ \/ AfterFlag(c, index[c]) = "leave"
           \/ AfterFlag(c, index[c]) = "flag" /\ index[c] + 1 \in Outputs(c)
    BY <1>15 DEF FlagNotify, AfterFlag, Outputs, TypeOK
  <2> QED BY <2>1, <2>2, <2>3 DEF NoLostOutputWakeup, SlotWaits, Loading, Children, RegistersOK
<1>16. CASE Leave(c)
  BY <1>16 DEF Leave, NoLostOutputWakeup, SlotWaits
<1>17. CASE LeaveNotify(c)
  <2>1. /\ pc'[c] = "release"
        /\ \A e \in Component \ {c} :
              \/ pc'[e] = pc[e]
              \/ pc[e] = "slotAsleep" /\ pc'[e] = "slot"
              \/ pc[e] = "reslotAsleep" /\ pc'[e] = "reslot"
    BY <1>17, NotifyOneMoves, LocationList DEF LeaveNotify, Sleepers
  <2>2. /\ pc[c] = "leaveNotify"
        /\ UNCHANGED <<target, index, inputCounter, stored, outputIsSet, loads, sbct, released>>
    BY <1>17 DEF LeaveNotify
  <2> QED BY <2>1, <2>2 DEF NoLostOutputWakeup, SlotWaits, Loading, Children, RegistersOK
<1>18. CASE Release(c)
  <2>1. /\ pc[c] = "release" /\ pc'[c] \in {"ended", "aborted"}
        /\ \A e \in Component \ {c} : pc'[e] = pc[e]
        /\ UNCHANGED <<target, index, outputIsSet>>
    BY <1>18 DEF Release, TypeOK
  <2> QED BY <2>1 DEF NoLostOutputWakeup, RegistersOK, Loading, Children
<1> QED BY <1>1, <1>2, <1>3, <1>4, <1>5, <1>6, <1>7, <1>8, <1>9, <1>10, <1>11, <1>12, <1>13, <1>14, <1>15, <1>16, <1>17, <1>18
   DEF Step, Statement, Wait, Epilogue
-----------------------------------------------------------------------------
(* The control invariant and what follows from it *)

\* The initial state satisfies the invariant.
LEMMA InitIInv == Init => IInv
<1> SUFFICES ASSUME Init PROVE IInv
  OBVIOUS
<1> USE TreeAssumption, SizeAssumption
<1>1. TypeOK
  BY InitType
<1>2. RegistersOK
  BY DEF Init, RegistersOK, SlotWaits, Loading, Reslot
<1>3. OutputsOK
  BY DEF Init, OutputsOK, Reslot, Closing, Leaving
<1>4. CallsOK
  BY DEF Init, CallsOK, Started, Created, Closing, Leaving
<1>5. NoLostOutputWakeup
  BY DEF Init, NoLostOutputWakeup
<1> QED BY <1>1, <1>2, <1>3, <1>4, <1>5 DEF IInv

\* Every step keeps it.
LEMMA NextIInv == IInv /\ [Next]_vars => IInv'
<1> SUFFICES ASSUME IInv, [Next]_vars PROVE IInv'
  OBVIOUS
<1>1. ASSUME NEW c \in Component, Step(c) PROVE IInv'
  <2>1. TypeOK'
    BY NextType DEF IInv
  <2> QED BY <1>1, <2>1, RegistersStep, OutputsStep, CallsStep, WakeupStep
      DEF IInv
<1>2. CASE Finished \/ UNCHANGED vars
  BY <1>2 DEF Finished, vars, IInv, TypeOK, RegistersOK, OutputsOK, CallsOK,
              NoLostOutputWakeup, Started, Created
<1> QED BY <1>1, <1>2 DEF Next

\* The invariant holds in every reachable state.
THEOREM Invariant == Spec => []IInv
BY InitIInv, NextIInv, PTL DEF Spec

\* A frame closes after everything below it.
LEMMA IInvEndsLast == IInv => EndsLast
BY DEF IInv, OutputsOK, CallsOK, EndsLast, Closing, Leaving

\* Memory is deleted only when nothing can use it.
LEMMA IInvReleased == IInv => ReleasedIsDead
<1> SUFFICES ASSUME IInv, NEW c \in Component \ {main}, released[c]
             PROVE  /\ pc[c] = "ended" /\ pc[Parent[c]] = "ended"
                    /\ sbct[c] # "joinable" /\ inputCounter[c] = 0
  BY DEF ReleasedIsDead
<1>1. pc[Parent[c]] = "ended" /\ Parent[c] \in Component /\ c \in Children(Parent[c])
  BY TreeAssumption DEF IInv, CallsOK, Children
<1>2. pc[c] = "ended" /\ sbct[c] # "joinable"
  BY <1>1 DEF IInv, CallsOK, Closing, Leaving
<1> QED BY <1>1, <1>2 DEF IInv, CallsOK, Started

\* A step that reads an output of a component that has begun finds it stored, or
\* the body of the component over.
LEMMA ReadStep ==
    ASSUME IInv, NEW c \in Component, Step(c),
           NEW d \in Component, NEW o \in Outputs(d),
           Started(d), loads'[d][o] # loads[d][o]
    PROVE  o \in stored[d] \/ pc[d] \in Closing
<1> USE TreeAssumption, SizeAssumption
<1>1. ASSUME NEW e \in Component, NEW i \in Outputs(e), Load(c, e, i)
      PROVE  pc[d] \in Closing
  <2>1. loads' = [loads EXCEPT ![e][i] = @ + 1] /\ e \notin Par
    BY <1>1 DEF Load
  <2>2. e = d
    BY <2>1 DEF IInv, TypeOK
  <2>3. d \in Component \ {main} /\ Parent[d] = c /\ pc[c] = "body" /\ d \notin Threads
    BY <1>1, <2>1, <2>2 DEF Load, Children, Threads
  <2> QED BY <2>3 DEF IInv, CallsOK, Closing, Leaving
<1>2. CASE RetakeSlot(c)
  <2>1. /\ pc[c] = "reslot"
        /\ loads' = [loads EXCEPT ![target[c]][index[c]] = @ + 1]
    BY <1>2 DEF RetakeSlot
  <2>2. target[c] \in Component /\ index[c] \in Outputs(target[c])
    BY <2>1 DEF IInv, RegistersOK, Loading, Reslot, Children
  <2>3. d = target[c] /\ o = index[c]
    BY <2>1, <2>2 DEF IInv, TypeOK
  <2> QED BY <2>1, <2>2, <2>3 DEF IInv, OutputsOK, Reslot
<1>3. CASE \E e \in Component : Create(c, e) \/ AssignInput(c, e)
  BY <1>3 DEF Create, AssignInput
<1>4. CASE (\E i \in Outputs(c) : Store(c, i)) \/ EndBody(c)
  BY <1>4 DEF Store, EndBody
<1>5. CASE TakeSlot(c) \/ Return(c) \/ YieldNotify(c) \/ AwaitOutput(c)
  BY <1>5 DEF TakeSlot, Return, YieldNotify, AwaitOutput
<1>6. CASE Publish(c) \/ PublishNotify(c)
  BY <1>6 DEF Publish, PublishNotify, SetOutput
<1>7. CASE Epilogue(c)
  BY <1>7 DEF Epilogue, Join, Flag, FlagNotify, SetOutput, Leave, LeaveNotify, Release
<1> QED BY <1>1, <1>2, <1>3, <1>4, <1>5, <1>6, <1>7 DEF Step, Statement, Wait

\* What is read from a component that has begun is final: the output is stored, or
\* nothing will store it any more (load_bucket.rs waits on the flag, which
\* store_bucket.rs raises after the copy and the final loop of template.rs after
\* the body).
THEOREM ReadsAreOrdered == Spec => ReadsAreFinal
<1>1. IInv /\ [Next]_vars =>
        [\A c \in Component : \A o \in Outputs(c) :
            Started(c) /\ loads'[c][o] # loads[c][o]
                => o \in stored[c] \/ pc[c] \in Closing]_vars
  <2> SUFFICES ASSUME IInv, [Next]_vars, NEW d \in Component, NEW o \in Outputs(d),
                      Started(d), loads'[d][o] # loads[d][o]
               PROVE  o \in stored[d] \/ pc[d] \in Closing
    OBVIOUS
  <2>1. PICK c \in Component : Step(c)
    BY DEF Next, Finished, vars
  <2> QED BY <2>1, ReadStep
<1> QED BY <1>1, Invariant, PTL DEF Spec, ReadsAreFinal

\* No notification of an output is lost.
THEOREM OutputWakeups == Spec => []NoLostOutputWakeup
BY Invariant, PTL DEF IInv

\* The joins and the assertion at the end of a run function nest the lives of
\* the frames, and its final loop leaves no flag for a reader to wait for.
THEOREM FramesNest == Spec => []EndsLast
BY Invariant, IInvEndsLast, PTL

\* release_memory_component never frees what a thread still uses.
THEOREM ReleaseIsSafe == Spec => []ReleasedIsDead
BY Invariant, IInvReleased, PTL

-----------------------------------------------------------------------------
(* Slots *)

\* A step keeps numThread within maxThread.
LEMMA CapacityStep ==
    ASSUME TypeOK, SlotCapacity, NEW c \in Component, Step(c)
    PROVE  SlotCapacity'
<1> USE SizeAssumption DEF SlotCapacity, TypeOK
<1>1. CASE TakeSlot(c) \/ RetakeSlot(c)
  BY <1>1 DEF TakeSlot, RetakeSlot, WaitForSlot
<1>2. CASE Leave(c)
  BY <1>2 DEF Leave
<1>3. CASE \E d \in Component : \E o \in Outputs(d) : Load(c, d, o)
  BY <1>3 DEF Load
<1>4. CASE UNCHANGED numThread
  BY <1>4
<1> QED BY <1>1, <1>2, <1>3, <1>4
     DEF Step, Statement, Wait, Epilogue, Create, AssignInput, Store, EndBody, Return,
         YieldNotify, AwaitOutput, Publish, PublishNotify, SetOutput, Join, Flag,
         FlagNotify, LeaveNotify, Release

\* The number of counted threads never exceeds maxThread.
THEOREM CapacityHolds == Spec => []SlotCapacity
<1>1. Init => SlotCapacity
  BY SizeAssumption DEF Init, SlotCapacity
<1>2. TypeOK /\ SlotCapacity /\ [Next]_vars => SlotCapacity'
  BY CapacityStep DEF Next, Finished, vars, SlotCapacity
<1> QED BY <1>1, <1>2, TypeCorrect, PTL DEF Spec

\* The three sets slots are accounted by are finite.
LEMMA FiniteSlots ==
    /\ IsFiniteSet(Counted) /\ IsFiniteSet(Left) /\ IsFiniteSet(Readers)
    /\ Cardinality(Counted) \in Nat /\ Cardinality(Left) \in Nat /\ Cardinality(Readers) \in Nat
<1>1. Counted \subseteq Component /\ Left \subseteq Component /\ Readers \subseteq Component
  BY TreeAssumption DEF Counted, Left, Readers, Threads
<1>2. IsFiniteSet(Counted) /\ IsFiniteSet(Left) /\ IsFiniteSet(Readers)
  BY <1>1, FS_Subset, SizeAssumption
<1> QED BY <1>2, FS_CardinalityType

\* A statement of a body: only a load moves a slot.
LEMMA AccountStatement ==
    ASSUME IInv, SlotAccounting, NEW c \in Component, Statement(c)
    PROVE  SlotAccounting'
<1> USE TreeAssumption, SizeAssumption DEF IInv
<1>1. ASSUME NEW d \in Component, Create(c, d) PROVE SlotAccounting'
  <2>1. /\ pc[c] = "body" /\ pc[d] = "absent" /\ d # c /\ d # main
        /\ sbct' = sbct /\ numThread' = numThread
        /\ \A e \in Component \ {c} : target'[e] = target[e]
        /\ \A e \in Component \ {c, d} : pc'[e] = pc[e]
        /\ pc'[c] \in {"body", "callee"} /\ pc'[d] \in {"waiting", "body"}
    BY <1>1 DEF Create, Children, TypeOK
  <2>2. Counted' = Counted
    <3>1. \A e \in Component : pc'[e] \in SlotWaits <=> pc[e] \in SlotWaits /\ e \notin {c, d}
      BY <2>1 DEF SlotWaits
    <3> QED BY <2>1, <3>1 DEF Counted, Threads, SlotWaits
  <2>3. Left' = Left /\ Readers' = Readers
    BY <2>1 DEF Left, Readers, Leaving, Loading, Reslot, Threads
  <2> QED BY <2>1, <2>2, <2>3 DEF SlotAccounting
<1>2. ASSUME NEW d \in Component, AssignInput(c, d) PROVE SlotAccounting'
  <2>1. /\ pc[c] = "body" /\ pc[d] = "waiting" /\ d # c /\ d # main /\ Parent[d] = c
        /\ numThread' = numThread /\ sbct[d] = "none"
        /\ \A e \in Component \ {c} : target'[e] = target[e]
        /\ \A e \in Component \ {c, d} : pc'[e] = pc[e]
        /\ \A e \in Component \ {d} : sbct'[e] = sbct[e]
    BY <1>2 DEF AssignInput, Children, TypeOK, CallsOK
  <2>2. \/ pc'[c] \in {"body", "callee"} /\ sbct'[d] = "none"
        \/ pc'[c] = "slot" /\ target'[c] = d /\ sbct'[d] = "joinable"
    BY <1>2, <2>1 DEF AssignInput, TypeOK
  <2>3. pc'[d] \in {"waiting", "body"} /\ pc'[c] \in {"body", "callee", "slot"}
    BY <1>2, <2>1 DEF AssignInput, TypeOK
  <2>4. Counted' = Counted
    <3>1. d \notin Counted /\ d \notin Counted'
      BY <2>1, <2>2 DEF Counted, SlotWaits
    <3>2. ASSUME NEW e \in Threads, e # d PROVE e \in Counted' <=> e \in Counted
      BY <2>1, <2>2, <2>3, <3>2 DEF Counted, SlotWaits, Threads
    <3> QED BY <3>1, <3>2 DEF Counted
  <2>5. Left' = Left /\ Readers' = Readers
    BY <2>1, <2>3 DEF Left, Readers, Leaving, Loading, Reslot, Threads
  <2> QED BY <2>1, <2>4, <2>5 DEF SlotAccounting
<1>3. ASSUME NEW d \in Component, NEW o \in Outputs(d), Load(c, d, o) PROVE SlotAccounting'
  <2>1. CASE d \notin Par
    <3>1. UNCHANGED <<pc, target, sbct, numThread>>
      BY <1>3, <2>1 DEF Load
    <3> QED BY <3>1 DEF SlotAccounting, Counted, Left, Readers
  <2>2. CASE d \in Par
    <3>1. /\ pc[c] = "body" /\ pc' = [pc EXCEPT ![c] = "yieldNotify"]
          /\ target' = [target EXCEPT ![c] = d]
          /\ sbct' = sbct /\ numThread' = numThread - 1
      BY <1>3, <2>2 DEF Load
    <3>2. Counted' = Counted /\ Left' = Left
      BY <3>1 DEF Counted, Left, Leaving, SlotWaits
    <3>3. c \notin Readers /\ Readers' = Readers \cup {c}
      BY <3>1 DEF Readers, Loading, Reslot, TypeOK
    <3>4. Cardinality(Readers') = Cardinality(Readers) + 1
      BY <3>3, FiniteSlots, FS_AddElement
    <3> QED BY <3>1, <3>2, <3>4, FiniteSlots DEF SlotAccounting
  <2> QED BY <2>1, <2>2
<1>4. ASSUME NEW o \in Outputs(c), Store(c, o) PROVE SlotAccounting'
  <2>1. /\ pc[c] = "body" /\ UNCHANGED <<target, sbct, numThread>>
        /\ \A e \in Component \ {c} : pc'[e] = pc[e]
        /\ pc'[c] \in {"body", "publish"}
    BY <1>4 DEF Store, TypeOK
  <2> QED BY <2>1 DEF SlotAccounting, Counted, Left, Readers, Leaving, Loading, Reslot,
                      SlotWaits, Threads
<1>5. CASE EndBody(c)
  <2>1. /\ pc[c] = "body" /\ UNCHANGED <<target, sbct, numThread>>
        /\ pc' = [pc EXCEPT ![c] = "join"]
    BY <1>5 DEF EndBody
  <2> QED BY <2>1 DEF SlotAccounting, Counted, Left, Readers, Leaving, Loading, Reslot,
                      SlotWaits, Threads, TypeOK
<1> QED BY <1>1, <1>2, <1>3, <1>4, <1>5 DEF Statement

\* Waking threads and moving within a class of locations leaves the slots alone.
LEMMA AccountQuiet ==
    ASSUME SlotAccounting, UNCHANGED <<target, sbct, numThread>>,
           \A e \in Component : /\ (pc'[e] \in SlotWaits) = (pc[e] \in SlotWaits)
                                /\ (pc'[e] \in Leaving) = (pc[e] \in Leaving)
                                /\ (pc'[e] \in Loading) = (pc[e] \in Loading)
    PROVE  SlotAccounting'
<1>1. Counted' = Counted /\ Left' = Left /\ Readers' = Readers
  BY TreeAssumption DEF Counted, Left, Readers, Threads
<1> QED BY <1>1 DEF SlotAccounting

\* A wait: a slot is taken for a thread, or taken back by a reader.
LEMMA AccountWait ==
    ASSUME IInv, SlotAccounting, NEW c \in Component, Wait(c)
    PROVE  SlotAccounting'
<1> USE TreeAssumption, SizeAssumption DEF IInv
<1>1. CASE TakeSlot(c)
  <2>1. CASE numThread < MaxThread
    <3>1. /\ pc[c] = "slot" /\ pc' = [pc EXCEPT ![c] = "body"]
          /\ numThread' = numThread + 1 /\ UNCHANGED <<target, sbct>>
      BY <1>1, <2>1 DEF TakeSlot, WaitForSlot, TypeOK
    <3> DEFINE d == target[c]
    <3>2. d \in Threads /\ Parent[d] = c /\ sbct[d] # "none"
      BY <3>1 DEF RegistersOK, CallsOK, SlotWaits, Children
    <3>3. d \notin Counted /\ Counted' = Counted \cup {d}
      BY <3>1, <3>2 DEF Counted, SlotWaits, Threads, TypeOK
    <3>4. Left' = Left /\ Readers' = Readers
      BY <3>1 DEF Left, Readers, Leaving, Loading, Reslot
    <3>5. Cardinality(Counted') = Cardinality(Counted) + 1
      BY <3>3, FiniteSlots, FS_AddElement
    <3> QED BY <3>1, <3>4, <3>5, FiniteSlots DEF SlotAccounting
  <2>2. CASE ~(numThread < MaxThread)
    BY <1>1, <2>2, AccountQuiet DEF TakeSlot, WaitForSlot, SlotWaits, Leaving, Loading, Reslot,
       TypeOK
  <2> QED BY <2>1, <2>2
<1>2. CASE Return(c)
  BY <1>2, AccountQuiet DEF Return, SlotWaits, Leaving, Loading, Reslot
<1>3. CASE YieldNotify(c)
  <2>1. /\ pc'[c] = "lock"
        /\ \A e \in Component \ {c} :
              \/ pc'[e] = pc[e]
              \/ pc[e] = "slotAsleep" /\ pc'[e] = "slot"
              \/ pc[e] = "reslotAsleep" /\ pc'[e] = "reslot"
    BY <1>3, NotifyOneMoves, LocationList DEF YieldNotify, Sleepers
  <2> QED BY <1>3, <2>1, AccountQuiet DEF YieldNotify, SlotWaits, Leaving, Loading, Reslot
<1>4. CASE AwaitOutput(c)
  BY <1>4, AccountQuiet DEF AwaitOutput, SlotWaits, Leaving, Loading, Reslot
<1>5. CASE RetakeSlot(c)
  <2>1. CASE numThread < MaxThread
    <3>1. /\ pc[c] = "reslot" /\ pc' = [pc EXCEPT ![c] = "body"]
          /\ numThread' = numThread + 1 /\ UNCHANGED <<target, sbct>>
      BY <1>5, <2>1 DEF RetakeSlot, WaitForSlot, TypeOK
    <3>2. Counted' = Counted /\ Left' = Left
      BY <3>1 DEF Counted, Left, Leaving, SlotWaits
    <3>3. c \in Readers /\ Readers' = Readers \ {c}
      BY <3>1 DEF Readers, Loading, Reslot, TypeOK
    <3>4. Cardinality(Readers') = Cardinality(Readers) - 1
      BY <3>3, FiniteSlots, FS_RemoveElement
    <3> QED BY <3>1, <3>2, <3>4, FiniteSlots DEF SlotAccounting
  <2>2. CASE ~(numThread < MaxThread)
    BY <1>5, <2>2, AccountQuiet DEF RetakeSlot, WaitForSlot, SlotWaits, Leaving, Loading,
       Reslot, TypeOK
  <2> QED BY <2>1, <2>2
<1>6. CASE Publish(c)
  BY <1>6, AccountQuiet DEF Publish, SetOutput, SlotWaits, Leaving, Loading, Reslot
<1>7. CASE PublishNotify(c)
  <2>1. /\ pc'[c] = "body"
        /\ \A e \in Component \ {c} :
              \/ pc'[e] = pc[e]
              \/ pc[e] = "cvAsleep" /\ pc'[e] = "lock"
    <3>1. c \in Component \ {main} /\ TypeOK
      BY <1>7 DEF PublishNotify, Threads
    <3>2. /\ pc'[c] = "body"
          /\ \A e \in Component \ {c} :
                \/ /\ pc'[e] = pc[e]
                   /\ ~(pc[e] = "cvAsleep" /\ Parent[c] = e /\ target[e] = c /\ index[e] = index[c])
                \/ pc[e] = "cvAsleep" /\ pc'[e] = "lock"
      BY <1>7, <3>1, NotifyAllMoves, LocationList DEF PublishNotify
    <3> QED BY <3>2
  <2> QED BY <1>7, <2>1, AccountQuiet DEF PublishNotify, SlotWaits, Leaving, Loading, Reslot
<1> QED BY <1>1, <1>2, <1>3, <1>4, <1>5, <1>6, <1>7 DEF Wait

\* The epilogue: a thread that leaves gives one slot back.
LEMMA AccountEpilogue ==
    ASSUME IInv, SlotAccounting, NEW c \in Component, Epilogue(c)
    PROVE  SlotAccounting'
<1> USE TreeAssumption, SizeAssumption DEF IInv
<1>1. CASE Join(c)
  <2>1. /\ pc[c] = "join" /\ target' = target /\ numThread' = numThread
        /\ \A e \in Component : sbct'[e] = "none" <=> sbct[e] = "none"
        /\ \A e \in Component \ {c} : pc'[e] = pc[e]
        /\ IF c \in Threads THEN pc'[c] \in {"flag", "leave"} ELSE pc'[c] = "release"
    BY <1>1 DEF Join, AfterFlag, TypeOK
  <2>2. Counted' = Counted /\ Left' = Left /\ Readers' = Readers
    BY <2>1 DEF Counted, Left, Readers, Leaving, Loading, Reslot, SlotWaits, Threads
  <2> QED BY <2>1, <2>2 DEF SlotAccounting
<1>2. CASE Flag(c)
  BY <1>2, AccountQuiet DEF Flag, SetOutput, SlotWaits, Leaving, Loading, Reslot
<1>3. CASE FlagNotify(c)
  <2>1. /\ pc'[c] \in {"flag", "leave"}
        /\ \A e \in Component \ {c} :
              \/ pc'[e] = pc[e]
              \/ pc[e] = "cvAsleep" /\ pc'[e] = "lock"
    <3>1. c \in Component \ {main} /\ TypeOK
      BY <1>3 DEF FlagNotify, Threads
    <3>2. /\ pc'[c] = AfterFlag(c, index[c])
          /\ \A e \in Component \ {c} :
                \/ /\ pc'[e] = pc[e]
                   /\ ~(pc[e] = "cvAsleep" /\ Parent[c] = e /\ target[e] = c /\ index[e] = index[c])
                \/ pc[e] = "cvAsleep" /\ pc'[e] = "lock"
      BY <1>3, <3>1, NotifyAllMoves, LocationList DEF FlagNotify, AfterFlag
    <3> QED BY <3>2 DEF AfterFlag
  <2> QED BY <1>3, <2>1, AccountQuiet DEF FlagNotify, SlotWaits, Leaving, Loading, Reslot
<1>4. CASE Leave(c)
  <2>1. /\ pc[c] = "leave" /\ pc' = [pc EXCEPT ![c] = "leaveNotify"] /\ c \in Threads
        /\ numThread' = numThread - 1 /\ UNCHANGED <<target, sbct>>
    BY <1>4 DEF Leave, RegistersOK
  <2>2. Counted' = Counted /\ Readers' = Readers
    BY <2>1 DEF Counted, Readers, Loading, Reslot, SlotWaits
  <2>3. c \notin Left /\ Left' = Left \cup {c}
    BY <2>1 DEF Left, Leaving, Threads, TypeOK
  <2>4. Cardinality(Left') = Cardinality(Left) + 1
    BY <2>3, FiniteSlots, FS_AddElement
  <2> QED BY <2>1, <2>2, <2>4, FiniteSlots DEF SlotAccounting
<1>5. CASE LeaveNotify(c)
  <2>1. /\ pc'[c] = "release"
        /\ \A e \in Component \ {c} :
              \/ pc'[e] = pc[e]
              \/ pc[e] = "slotAsleep" /\ pc'[e] = "slot"
              \/ pc[e] = "reslotAsleep" /\ pc'[e] = "reslot"
    BY <1>5, NotifyOneMoves, LocationList DEF LeaveNotify, Sleepers
  <2> QED BY <1>5, <2>1, AccountQuiet DEF LeaveNotify, SlotWaits, Leaving, Loading, Reslot
<1>6. CASE Release(c)
  <2>1. /\ pc[c] = "release" /\ pc'[c] \in {"ended", "aborted"}
        /\ \A e \in Component \ {c} : pc'[e] = pc[e]
        /\ UNCHANGED <<target, sbct, numThread>>
    BY <1>6 DEF Release, TypeOK
  <2> QED BY <2>1, AccountQuiet DEF SlotWaits, Leaving, Loading, Reslot
<1> QED BY <1>1, <1>2, <1>3, <1>4, <1>5, <1>6 DEF Epilogue

\* Slots are neither lost nor duplicated, whatever the interleaving.
THEOREM SlotsAccounted == Spec => []SlotAccounting
<1>1. Init => SlotAccounting
  <2> SUFFICES ASSUME Init PROVE SlotAccounting
    OBVIOUS
  <2>1. Counted = {} /\ Left = {} /\ Readers = {}
    BY TreeAssumption DEF Init, Counted, Left, Readers, Leaving, Loading, Reslot, Threads
  <2> QED BY <2>1, FS_EmptySet DEF Init, SlotAccounting
<1>2. IInv /\ SlotAccounting /\ [Next]_vars => SlotAccounting'
  <2> SUFFICES ASSUME IInv, SlotAccounting, [Next]_vars PROVE SlotAccounting'
    OBVIOUS
  <2>1. ASSUME NEW c \in Component, Step(c) PROVE SlotAccounting'
    BY <2>1, AccountStatement, AccountWait, AccountEpilogue DEF Step
  <2>2. CASE Finished \/ UNCHANGED vars
    BY <2>2 DEF Finished, vars, SlotAccounting, Counted, Left, Readers
  <2> QED BY <2>1, <2>2 DEF Next
<1> QED BY <1>1, <1>2, Invariant, PTL DEF Spec

-----------------------------------------------------------------------------
(* Wake-ups of ntcvs *)

\* The threads a notification is on its way to, or from, are finitely many.
LEMMA FinitePending == IsFiniteSet(Pending) /\ Cardinality(Pending) \in Nat
BY FS_Subset, FS_CardinalityType, SizeAssumption DEF Pending

\* A step that takes no thread out of Pending, puts none to sleep and frees no
\* slot loses no wake-up.
LEMMA WakeupQuiet ==
    ASSUME TypeOK, NoLostSlotWakeup, numThread' = numThread,
           Sleepers' \subseteq Sleepers, Pending \subseteq Pending', Pending' \subseteq Component
    PROVE  NoLostSlotWakeup'
<1>1. Cardinality(Pending) <= Cardinality(Pending') /\ Cardinality(Pending') \in Nat
  BY FS_Subset, FS_CardinalityType, SizeAssumption
<1> QED BY <1>1, FinitePending, SizeAssumption DEF NoLostSlotWakeup, TypeOK

\* Freeing a slot with a notification on its way loses no wake-up.
LEMMA WakeupFree ==
    ASSUME TypeOK, NoLostSlotWakeup, numThread' = numThread - 1, Sleepers' = Sleepers,
           NEW c \in Component \ Pending, Pending' = Pending \cup {c}
    PROVE  NoLostSlotWakeup'
<1>1. Cardinality(Pending') = Cardinality(Pending) + 1
  BY FinitePending, FS_AddElement
<1> QED BY <1>1, FinitePending, SizeAssumption DEF NoLostSlotWakeup, TypeOK

\* A thread that tests the predicate takes the slot or finds none.
LEMMA WakeupTest ==
    ASSUME TypeOK, NoLostSlotWakeup, NEW c \in Component, NEW l,
           pc[c] \in {"slot", "reslot"}, l \in {"slotAsleep", "reslotAsleep"},
           WaitForSlot(c, l)
    PROVE  NoLostSlotWakeup'
<1> USE SizeAssumption
<1>1. CASE numThread < MaxThread
  <2>1. numThread' = numThread + 1 /\ pc' = [pc EXCEPT ![c] = "body"]
    BY <1>1 DEF WaitForSlot, TypeOK
  <2>2. Sleepers' = Sleepers /\ c \in Pending /\ Pending' = Pending \ {c}
    BY <2>1 DEF Sleepers, Pending, TypeOK
  <2>3. Cardinality(Pending') = Cardinality(Pending) - 1
    BY <2>2, FinitePending, FS_RemoveElement
  <2> QED BY <2>1, <2>2, <2>3, FinitePending DEF NoLostSlotWakeup, TypeOK
<1>2. CASE numThread >= MaxThread
  <2>1. numThread' = numThread
    BY <1>2 DEF WaitForSlot, TypeOK
  <2>2. Pending' \subseteq Component
    BY DEF Pending
  <2>3. Cardinality(Pending') \in Nat
    BY <2>2, FS_Subset, FS_CardinalityType
  <2> QED BY <1>2, <2>1, <2>3 DEF NoLostSlotWakeup, TypeOK
<1> QED BY <1>1, <1>2 DEF TypeOK

\* A notification that is delivered leaves its receiver in Pending, or finds
\* nobody asleep.
LEMMA WakeupDeliver ==
    ASSUME TypeOK, NoLostSlotWakeup, NEW c \in Component, NEW l \in {"lock", "release"},
           pc[c] \in {"yieldNotify", "leaveNotify"}, NotifyOne(c, l), numThread' = numThread
    PROVE  NoLostSlotWakeup'
<1>1. CASE Sleepers = {}
  <2>1. pc' = [pc EXCEPT ![c] = l]
    BY <1>1 DEF NotifyOne
  <2>2. Sleepers' = {}
    BY <1>1, <2>1 DEF Sleepers, TypeOK
  <2> QED BY <2>2 DEF NoLostSlotWakeup
<1>2. CASE Sleepers # {} /\ ~(pc' = [pc EXCEPT ![c] = l] /\ Sleepers = {})
  <2>1. PICK w \in Sleepers : pc' = [pc EXCEPT ![c] = l, ![w] = Awake(pc[w])]
    BY <1>2 DEF NotifyOne
  <2>2. w # c /\ w \in Component /\ pc'[w] \in {"slot", "reslot"} /\ pc'[c] = l
        /\ \A e \in Component \ {c, w} : pc'[e] = pc[e]
    BY <2>1 DEF Sleepers, Awake, TypeOK
  <2>3. c \in Pending /\ w \notin Pending /\ Pending' = (Pending \ {c}) \cup {w}
    BY <2>1, <2>2 DEF Pending, Sleepers
  <2>4. IsFiniteSet(Pending \ {c}) /\ Cardinality(Pending \ {c}) = Cardinality(Pending) - 1
    BY <2>3, FinitePending, FS_RemoveElement
  <2>5. Cardinality(Pending') = Cardinality(Pending \ {c}) + 1
    BY <2>2, <2>3, <2>4, FS_AddElement
  <2> QED BY <1>2, <2>4, <2>5, FinitePending, SizeAssumption DEF NoLostSlotWakeup, TypeOK
<1> QED BY <1>1, <1>2

\* Every step keeps a notification on its way for every free slot.
LEMMA SlotWakeupStep ==
    ASSUME TypeOK, NoLostSlotWakeup, NEW c \in Component, Step(c)
    PROVE  NoLostSlotWakeup'
<1> USE TreeAssumption, SizeAssumption
<1>0. Pending' \subseteq Component
  BY DEF Pending
<1>1. ASSUME NEW d \in Component, Create(c, d) PROVE NoLostSlotWakeup'
  <2>1. pc[c] = "body" /\ pc[d] = "absent" /\ d # c /\ numThread' = numThread
        /\ pc'[c] \in {"body", "callee"} /\ pc'[d] \in {"waiting", "body"}
        /\ \A e \in Component \ {c, d} : pc'[e] = pc[e]
    BY <1>1 DEF Create, Children, TypeOK
  <2>2. Sleepers' \subseteq Sleepers /\ Pending \subseteq Pending'
    BY <2>1 DEF Sleepers, Pending
  <2> QED BY <1>0, <2>1, <2>2, WakeupQuiet
<1>2. ASSUME NEW d \in Component, AssignInput(c, d) PROVE NoLostSlotWakeup'
  <2>1. pc[c] = "body" /\ pc[d] = "waiting" /\ d # c /\ numThread' = numThread
        /\ pc'[c] \in {"body", "callee", "slot"} /\ pc'[d] \in {"waiting", "body"}
        /\ \A e \in Component \ {c, d} : pc'[e] = pc[e]
    BY <1>2 DEF AssignInput, Children, TypeOK
  <2>2. Sleepers' \subseteq Sleepers /\ Pending \subseteq Pending'
    BY <2>1 DEF Sleepers, Pending
  <2> QED BY <1>0, <2>1, <2>2, WakeupQuiet
<1>3. ASSUME NEW d \in Component, NEW o \in Outputs(d), Load(c, d, o) PROVE NoLostSlotWakeup'
  <2>1. CASE d \notin Par
    BY <1>0, <1>3, <2>1, WakeupQuiet DEF Load, Sleepers, Pending
  <2>2. CASE d \in Par
    <3>1. pc[c] = "body" /\ pc' = [pc EXCEPT ![c] = "yieldNotify"] /\ numThread' = numThread - 1
      BY <1>3, <2>2 DEF Load
    <3>2. c \in Component \ Pending /\ Pending' = Pending \cup {c} /\ Sleepers' = Sleepers
      BY <3>1 DEF Sleepers, Pending, TypeOK
    <3> QED BY <3>1, <3>2, WakeupFree
  <2> QED BY <2>1, <2>2
<1>4. CASE TakeSlot(c) \/ RetakeSlot(c)
  BY <1>4, WakeupTest DEF TakeSlot, RetakeSlot
<1>5. CASE YieldNotify(c) \/ LeaveNotify(c)
  BY <1>5, WakeupDeliver DEF YieldNotify, LeaveNotify
<1>6. CASE Leave(c)
  <2>1. pc[c] = "leave" /\ pc' = [pc EXCEPT ![c] = "leaveNotify"] /\ numThread' = numThread - 1
    BY <1>6 DEF Leave
  <2>2. c \in Component \ Pending /\ Pending' = Pending \cup {c} /\ Sleepers' = Sleepers
    BY <2>1 DEF Sleepers, Pending, TypeOK
  <2> QED BY <2>1, <2>2, WakeupFree
<1>7. CASE PublishNotify(c) \/ FlagNotify(c)
  <2>1. /\ c \in Component \ {main} /\ numThread' = numThread
        /\ pc[c] \in {"publishNotify", "flagNotify"} /\ pc'[c] \in {"body", "flag", "leave"}
        /\ \A e \in Component \ {c} :
              \/ pc'[e] = pc[e]
              \/ pc[e] = "cvAsleep" /\ pc'[e] = "lock"
    <3>1. c \in Component \ {main}
      BY <1>7 DEF PublishNotify, FlagNotify, Threads
    <3>2. \E l \in {"body", "flag", "leave"} : NotifyAll(c, index[c], l)
      BY <1>7 DEF PublishNotify, FlagNotify, AfterFlag
    <3>3. PICK l \in {"body", "flag", "leave"} : NotifyAll(c, index[c], l)
      BY <3>2
    <3>4. l \in Location
      BY LocationList
    <3> QED BY <1>7, <3>1, <3>3, <3>4, NotifyAllMoves DEF PublishNotify, FlagNotify
  <2>2. Sleepers' \subseteq Sleepers /\ Pending \subseteq Pending'
    BY <2>1 DEF Sleepers, Pending
  <2> QED BY <1>0, <2>1, <2>2, WakeupQuiet
<1>8. ASSUME \/ \E o \in Outputs(c) : Store(c, o)
             \/ EndBody(c) \/ Return(c) \/ AwaitOutput(c) \/ Publish(c)
             \/ Join(c) \/ Flag(c) \/ Release(c)
      PROVE  NoLostSlotWakeup'
  <2>1. /\ numThread' = numThread
        /\ pc[c] \in {"body", "callee", "lock", "publish", "join", "flag", "release"}
        /\ pc'[c] \notin {"slotAsleep", "reslotAsleep"}
        /\ \A e \in Component \ {c} : pc'[e] = pc[e]
    BY <1>8 DEF Store, EndBody, Return, AwaitOutput, Publish, Join, Flag, Release, SetOutput,
                AfterFlag, TypeOK
  <2>2. Sleepers' \subseteq Sleepers /\ Pending \subseteq Pending'
    BY <2>1 DEF Sleepers, Pending
  <2> QED BY <1>0, <2>1, <2>2, WakeupQuiet
<1> QED BY <1>1, <1>2, <1>3, <1>4, <1>5, <1>6, <1>7, <1>8
     DEF Step, Statement, Wait, Epilogue

\* No thread sleeps on ntcvs while a slot is free and nothing is about to wake
\* it: one notify_one for each slot given back is enough.
THEOREM SlotWakeups == Spec => []NoLostSlotWakeup
<1>1. Init => NoLostSlotWakeup
  BY DEF Init, NoLostSlotWakeup, Sleepers
<1>2. TypeOK /\ NoLostSlotWakeup /\ [Next]_vars => NoLostSlotWakeup'
  BY SlotWakeupStep DEF Next, Finished, vars, NoLostSlotWakeup, Sleepers, Pending
<1> QED BY <1>1, <1>2, TypeCorrect, PTL DEF Spec

-----------------------------------------------------------------------------
(* Refinement of WitnessFlow *)

phases == [c \in Component |-> Phase(c)]
reads  == [c \in Component |-> {o \in Outputs(c) : loads[c][o] > 0}]

\* The definitions of the abstract specification, under the mapping.
LEMMA FlowDefs ==
    /\ Flow!Init <=> /\ phases = [c \in Component |-> IF c = main THEN "running" ELSE "idle"]
                     /\ stored = [c \in Component |-> {}]
                     /\ reads = [c \in Component |-> {}]
    /\ Flow!flow = <<phases, stored, reads>>
    /\ \A c \in Component : Flow!Sub(c) = Children(c) /\ Flow!Out(c) = Outputs(c)
BY DEF Flow!Init, Flow!flow, Flow!Sub, Flow!Out, phases, reads, Children, Outputs

\* Steps that change no phase, no stored value and no read count are stutters.
LEMMA FlowStutter ==
    ASSUME UNCHANGED <<stored, loads>>, \A e \in Component : Phase(e)' = Phase(e)
    PROVE  UNCHANGED Flow!flow
<1>1. phases' = phases /\ reads' = reads
  BY DEF phases, reads
<1> QED BY <1>1 DEF Flow!flow, phases, reads

\* Only the frame that is started, or that ends, changes its phase.
LEMMA FlowStart ==
    ASSUME TypeOK, NEW c \in Component, NEW d \in Children(c), d # c,
           pc[c] = "body", ~Started(d), pc'[d] = "body", pc'[c] \in {"callee", "slot"},
           \A e \in Component \ {c, d} : pc'[e] = pc[e],
           UNCHANGED <<stored, loads>>
    PROVE  Flow!Next
<1>1. d \in Component /\ d # main /\ Parent[d] = c
  BY DEF Children
<1>2. phases[d] = "idle" /\ phases[c] = "running" /\ phases' = [phases EXCEPT ![d] = "running"]
  BY <1>1 DEF phases, Phase, Started, Closing, Leaving
<1>3. reads' = reads
  BY <1>1 DEF reads
<1>4. Flow!Start(d)
  BY <1>1, <1>2, <1>3 DEF Flow!Start, phases, reads
<1> QED BY <1>1, <1>4 DEF Flow!Next

\* A read of an output is a consumption.
LEMMA FlowRead ==
    ASSUME IInv, NEW c \in Component, NEW d \in Children(c), NEW o \in Outputs(d),
           o \in stored[d] \/ Phase(d) # "running",
           pc[c] \in {"body", "reslot"}, pc'[c] = "body",
           \A e \in Component \ {c} : pc'[e] = pc[e],
           stored' = stored, loads' = [loads EXCEPT ![d][o] = @ + 1]
    PROVE  Flow!Next
<1>1. d \in Component /\ d # main /\ Parent[d] = c
  BY DEF Children
<1>2. phases[c] = "running" /\ phases' = phases
  BY DEF phases, Phase, Started, Closing, Leaving
<1>3. reads' = [reads EXCEPT ![d] = reads[d] \cup {o}]
  <2>1. reads'[d] = reads[d] \cup {o}
    <3>1. loads'[d] = [loads[d] EXCEPT ![o] = loads[d][o] + 1] /\ loads[d][o] \in Nat
      BY <1>1 DEF IInv, TypeOK
    <3>2. \A i \in Outputs(d) : loads'[d][i] > 0 <=> loads[d][i] > 0 \/ i = o
      BY <1>1, <3>1 DEF IInv, TypeOK
    <3> QED BY <1>1, <3>2 DEF reads
  <2>2. \A e \in Component \ {d} : reads'[e] = reads[e]
    BY DEF reads, IInv, TypeOK
  <2> QED BY <1>1, <2>1, <2>2 DEF reads
<1>4. Flow!Consume(d, o)
  BY <1>1, <1>2, <1>3 DEF Flow!Consume, phases, reads
<1> QED BY <1>1, <1>4, FlowDefs DEF Flow!Next

\* The statements of a body.
LEMMA FlowStatement ==
    ASSUME IInv, NEW c \in Component, Statement(c)
    PROVE  Flow!Next \/ UNCHANGED Flow!flow
<1> USE TreeAssumption, SizeAssumption
<1>1. ASSUME NEW d \in Component, Create(c, d)
      PROVE  Flow!Next \/ UNCHANGED Flow!flow
  <2>1. /\ pc[c] = "body" /\ pc[d] = "absent" /\ d \in Children(c) /\ d # c
        /\ UNCHANGED <<stored, loads>>
    BY <1>1 DEF Create, Children
  <2>2. CASE pc' = [pc EXCEPT ![d] = "waiting"]
    BY <2>1, <2>2, FlowStutter DEF Phase, Started, IInv, TypeOK
  <2>3. CASE pc' = [pc EXCEPT ![c] = "callee", ![d] = "body"]
    BY <2>1, <2>3, FlowStart DEF Started, IInv, TypeOK
  <2> QED BY <1>1, <2>2, <2>3 DEF Create
<1>2. ASSUME NEW d \in Component, AssignInput(c, d)
      PROVE  Flow!Next \/ UNCHANGED Flow!flow
  <2>1. /\ pc[c] = "body" /\ pc[d] = "waiting" /\ d \in Children(c) /\ d # c
        /\ UNCHANGED <<stored, loads>>
    BY <1>2 DEF AssignInput, Children
  <2>2. CASE pc' = pc
    BY <2>1, <2>2, FlowStutter DEF Phase, Started
  <2>3. CASE \E l \in {"callee", "slot"} : pc' = [pc EXCEPT ![c] = l, ![d] = "body"]
    <3>1. /\ pc'[c] \in {"callee", "slot"} /\ pc'[d] = "body" /\ ~Started(d)
          /\ \A e \in Component \ {c, d} : pc'[e] = pc[e]
      BY <2>1, <2>3 DEF Started, IInv, TypeOK
    <3> QED BY <2>1, <3>1, FlowStart DEF IInv
  <2> QED BY <1>2, <2>2, <2>3 DEF AssignInput
<1>3. ASSUME NEW d \in Component, NEW o \in Outputs(d), Load(c, d, o)
      PROVE  Flow!Next \/ UNCHANGED Flow!flow
  <2>1. /\ pc[c] = "body" /\ d \in Children(c) /\ Parent[d] = c /\ d # main
        /\ pc[d] # "absent" /\ stored' = stored
    BY <1>3 DEF Load, Children, Created
  <2>2. CASE d \notin Par
    <3>1. pc' = pc /\ loads' = [loads EXCEPT ![d][o] = @ + 1]
      BY <1>3, <2>2 DEF Load
    <3>2. pc[d] \in {"waiting", "ended"}
      BY <2>1, <2>2 DEF IInv, CallsOK, Threads, Started
    <3>3. Phase(d) # "running"
      BY <3>2 DEF Phase, Started
    <3> QED BY <2>1, <3>1, <3>3, FlowRead
  <2>3. CASE d \in Par
    <3>1. pc' = [pc EXCEPT ![c] = "yieldNotify"] /\ loads' = loads
      BY <1>3, <2>3 DEF Load
    <3> QED BY <2>1, <3>1, FlowStutter DEF Phase, Started, IInv, TypeOK, Closing, Leaving
  <2> QED BY <2>2, <2>3
<1>4. ASSUME NEW o \in Outputs(c), Store(c, o)
      PROVE  Flow!Next \/ UNCHANGED Flow!flow
  <2>1. /\ pc[c] = "body" /\ o \in Outputs(c) \ stored[c] /\ loads' = loads
        /\ stored' = [stored EXCEPT ![c] = @ \cup {o}]
        /\ pc'[c] \in {"body", "publish"} /\ \A e \in Component \ {c} : pc'[e] = pc[e]
    BY <1>4 DEF Store, IInv, TypeOK
  <2>2. phases[c] = "running" /\ phases' = phases /\ reads' = reads
    BY <2>1 DEF phases, Phase, Started, reads, Closing, Leaving
  <2>3. Flow!Produce(c, o)
    BY <2>1, <2>2, FlowDefs DEF Flow!Produce, phases, reads
  <2> QED BY <2>3, FlowDefs DEF Flow!Next
<1>5. CASE EndBody(c)
  BY <1>5, FlowStutter DEF EndBody, Phase, Started, Closing, Leaving, IInv, TypeOK
<1> QED BY <1>1, <1>2, <1>3, <1>4, <1>5 DEF Statement

\* Waits and the epilogue: a read completes, a frame closes or ends, or nothing
\* the abstract specification sees happens.
LEMMA FlowWaitEpilogue ==
    ASSUME IInv, NEW c \in Component, Wait(c) \/ Epilogue(c)
    PROVE  Flow!Next \/ UNCHANGED Flow!flow
<1> USE TreeAssumption, SizeAssumption
<1>1. CASE RetakeSlot(c)
  <2>1. CASE numThread < MaxThread
    <3>1. /\ pc[c] = "reslot" /\ pc' = [pc EXCEPT ![c] = "body"] /\ stored' = stored
          /\ loads' = [loads EXCEPT ![target[c]][index[c]] = @ + 1]
      BY <1>1, <2>1 DEF RetakeSlot, WaitForSlot, IInv, TypeOK
    <3>2. /\ target[c] \in Children(c) /\ index[c] \in Outputs(target[c])
          /\ index[c] \in stored[target[c]] \/ pc[target[c]] \in Closing
      BY <3>1 DEF IInv, RegistersOK, OutputsOK, Loading, Reslot, Children
    <3>3. index[c] \in stored[target[c]] \/ Phase(target[c]) # "running"
      BY <3>2 DEF Phase, Started, Closing, Leaving
    <3> QED BY <3>1, <3>2, <3>3, FlowRead DEF IInv, TypeOK
  <2>2. CASE ~(numThread < MaxThread)
    <3>1. /\ pc[c] = "reslot" /\ pc'[c] = "reslotAsleep" /\ UNCHANGED <<stored, loads>>
          /\ \A e \in Component \ {c} : pc'[e] = pc[e]
      BY <1>1, <2>2 DEF RetakeSlot, WaitForSlot, IInv, TypeOK
    <3> QED BY <3>1, FlowStutter DEF Phase, Started, Closing, Leaving
  <2> QED BY <2>1, <2>2
<1>2. CASE Release(c)
  <2>1. /\ pc[c] = "release" /\ UNCHANGED <<stored, loads>>
        /\ \A e \in Component \ {c} : pc'[e] = pc[e]
        /\ \/ pc'[c] = "ended" /\ \A d \in Children(c) : inputCounter[d] = 0
           \/ pc'[c] = "aborted"
    BY <1>2 DEF Release, IInv, TypeOK
  <2>2. CASE pc'[c] = "ended"
    <3>1. \A d \in Children(c) : pc[d] = "ended"
      BY <2>1, <2>2 DEF IInv, CallsOK, Closing, Leaving, Children
    <3>2. phases[c] = "complete" /\ phases' = [phases EXCEPT ![c] = "ended"] /\ reads' = reads
      BY <2>1, <2>2 DEF phases, Phase, Started, reads, Closing, Leaving
    <3>3. \A d \in Children(c) : phases[d] = "ended"
      BY <3>1 DEF phases, Phase, Started, Children
    <3>4. Flow!End(c)
      BY <2>1, <3>2, <3>3, FlowDefs DEF Flow!End, phases, reads
    <3> QED BY <3>4 DEF Flow!Next
  <2>3. CASE pc'[c] = "aborted"
    BY <2>1, <2>3, FlowStutter DEF Phase, Started, Closing, Leaving
  <2> QED BY <2>1, <2>2, <2>3
<1>3. CASE YieldNotify(c) \/ LeaveNotify(c)
  <2>1. /\ UNCHANGED <<stored, loads>>
        /\ \/ pc[c] = "yieldNotify" /\ NotifyOne(c, "lock")
           \/ pc[c] = "leaveNotify" /\ NotifyOne(c, "release")
    BY <1>3 DEF YieldNotify, LeaveNotify
  <2>3. /\ \/ pc[c] = "yieldNotify" /\ pc'[c] = "lock"
           \/ pc[c] = "leaveNotify" /\ pc'[c] = "release"
        /\ \A e \in Component \ {c} :
              \/ pc'[e] = pc[e]
              \/ pc[e] = "slotAsleep" /\ pc'[e] = "slot"
              \/ pc[e] = "reslotAsleep" /\ pc'[e] = "reslot"
    BY <2>1, NotifyOneMoves, LocationList DEF Sleepers, IInv
  <2> QED BY <2>1, <2>3, FlowStutter DEF Phase, Started, Closing, Leaving
<1>4. CASE PublishNotify(c) \/ FlagNotify(c)
  <2>1. /\ c \in Component \ {main} /\ UNCHANGED <<stored, loads>>
        /\ \E l \in {"body", "flag", "leave"} :
              /\ NotifyAll(c, index[c], l)
              /\ \/ pc[c] = "publishNotify" /\ l = "body"
                 \/ pc[c] = "flagNotify" /\ l \in {"flag", "leave"}
    BY <1>4 DEF PublishNotify, FlagNotify, AfterFlag, Threads
  <2>2. PICK l \in {"body", "flag", "leave"} :
              /\ NotifyAll(c, index[c], l)
              /\ \/ pc[c] = "publishNotify" /\ l = "body"
                 \/ pc[c] = "flagNotify" /\ l \in {"flag", "leave"}
    BY <2>1
  <2>3. l \in Location
    BY LocationList
  <2>4. /\ pc'[c] = l
        /\ \A e \in Component \ {c} :
              \/ pc'[e] = pc[e]
              \/ pc[e] = "cvAsleep" /\ pc'[e] = "lock"
    BY <2>1, <2>2, <2>3, NotifyAllMoves DEF IInv
  <2> QED BY <2>1, <2>2, <2>4, FlowStutter DEF Phase, Started, Closing, Leaving
<1>5. ASSUME \/ TakeSlot(c) \/ Return(c) \/ AwaitOutput(c) \/ Publish(c)
             \/ Flag(c) \/ Leave(c)
      PROVE  UNCHANGED Flow!flow
  <2>1. /\ UNCHANGED <<stored, loads>>
        /\ \A e \in Component \ {c} : pc'[e] = pc[e]
        /\ \/ pc[c] \in InBody /\ pc'[c] \in InBody
           \/ pc[c] \in {"flag", "leave"} /\ pc'[c] \in {"flagNotify", "leaveNotify"}
    BY <1>5 DEF TakeSlot, WaitForSlot, Return, AwaitOutput, Publish, Flag, Leave,
                SetOutput, IInv, TypeOK, InBody, SlotWaits, Loading, Reslot
  <2> QED BY <2>1, FlowStutter
      DEF Phase, Started, Closing, Leaving, InBody, SlotWaits, Loading, Reslot
<1>6. CASE Join(c)
  <2>1. /\ pc[c] = "join" /\ UNCHANGED <<stored, loads>>
        /\ pc'[c] \in {"flag", "leave", "release"} /\ \A e \in Component \ {c} : pc'[e] = pc[e]
        /\ \A d \in Children(c) : sbct[d] = "joinable" => pc[d] = "ended"
    BY <1>6 DEF Join, AfterFlag, IInv, TypeOK
  <2>2. ASSUME NEW d \in Children(c) PROVE pc[d] \in {"waiting", "ended"}
    <3>1. d \in Component \ {main} /\ Parent[d] = c /\ pc[d] # "absent"
      BY <2>1 DEF Children, IInv, CallsOK, Created
    <3>2. CASE Started(d) /\ d \notin Threads
      BY <2>1, <3>1, <3>2 DEF IInv, CallsOK
    <3>3. CASE Started(d) /\ d \in Threads
      BY <2>1, <3>1, <3>3 DEF IInv, CallsOK, TypeOK
    <3> QED BY <3>1, <3>2, <3>3 DEF Started
  <2>3. phases[c] = "running" /\ phases' = [phases EXCEPT ![c] = "complete"] /\ reads' = reads
    BY <2>1 DEF phases, Phase, Started, reads, Closing, Leaving
  <2>4. \A d \in Children(c) : phases[d] \in {"idle", "ended"}
    BY <2>2 DEF phases, Phase, Started, Children
  <2>5. Flow!Complete(c)
    BY <2>1, <2>3, <2>4, FlowDefs DEF Flow!Complete, phases, reads
  <2> QED BY <2>5 DEF Flow!Next
<1> QED BY <1>1, <1>2, <1>3, <1>4, <1>5, <1>6 DEF Wait, Epilogue

\* The threaded run-time implements evaluation in dataflow order, also on the
\* paths that leave outputs or the inputs of subcomponents unassigned.
THEOREM RefinesFlow == Spec => ImplementsFlow
<1>1. Init => Flow!Init
  <2> SUFFICES ASSUME Init PROVE Flow!Init
    OBVIOUS
  <2>1. phases = [c \in Component |-> IF c = main THEN "running" ELSE "idle"]
    BY DEF Init, phases, Phase, Started, Closing, Leaving
  <2>2. reads = [c \in Component |-> {}]
    BY DEF Init, reads
  <2> QED BY <2>1, <2>2, FlowDefs DEF Init
<1>2. IInv /\ [Next]_vars => [Flow!Next]_(Flow!flow)
  <2> SUFFICES ASSUME IInv, [Next]_vars PROVE Flow!Next \/ UNCHANGED Flow!flow
    OBVIOUS
  <2>1. ASSUME NEW c \in Component, Step(c) PROVE Flow!Next \/ UNCHANGED Flow!flow
    BY <2>1, FlowStatement, FlowWaitEpilogue DEF Step
  <2>2. CASE Finished \/ UNCHANGED vars
    BY <2>2, FlowStutter DEF Finished, vars, Phase, Started
  <2> QED BY <2>1, <2>2 DEF Next
<1> QED BY <1>1, <1>2, Invariant, PTL DEF Spec, ImplementsFlow, Flow!Spec
=============================================================================
