---------------------------- MODULE ParallelRun ----------------------------
(***************************************************************************)
(* The run-time of the generated C++ witness calculator when a circuit has *)
(* `parallel` templates or components.                                     *)
(*                                                                         *)
(* Every component instance of the circuit is a frame: one activation of   *)
(* the generated <template>_run or <template>_run_parallel function.  The  *)
(* run function of a parallel component executes in a std::thread its      *)
(* parent starts; every other frame runs inside a call of its parent.  The *)
(* threads share                                                           *)
(*   - numThread/maxThread with numThreadMutex and ntcvs, the "slots";     *)
(*   - one mutex, flag and condition variable per output of a parallel     *)
(*     component (mutexes, outputIsSet, cvs);                              *)
(*   - the handles sbct of the threads a frame starts, joined at its end.  *)
(*                                                                         *)
(* A template body creates its subcomponents and then is any sequence of   *)
(* input assignments, loads and stores: one model stands for every circuit *)
(* with the given component tree.  The compiler asks that some path assigns*)
(* the inputs of a subcomponent before its outputs are read and before the *)
(* body ends; the path a frame takes may be another, and may leave inputs  *)
(* of its subcomponents, and outputs of its own, unassigned.               *)
(***************************************************************************)
EXTENDS Integers, FiniteSets

CONSTANTS
    Component,   \* the component instances of the circuit
    main,        \* the instance the program calls run() on
    Parent,      \* the instance whose body creates each other instance
    Par,         \* the instances created with <template>_create_parallel
    NInputs,     \* number of input signals of each instance
    NOutputs,    \* number of output signals of each instance
    MaxThread,   \* Circom_CalcWit::maxThread
    MaxLoads,    \* bound: how often one output is loaded by the parent
    NoCmp        \* the value of an unused component register

ASSUME TreeAssumption ==
    /\ main \in Component
    /\ NoCmp \notin Component
    /\ Parent \in [Component \ {main} -> Component]
    /\ \A c \in Component \ {main} : Parent[c] # c
    /\ Par \subseteq Component \ {main}

ASSUME SizeAssumption ==
    /\ IsFiniteSet(Component)
    /\ NInputs \in [Component -> Nat]
    /\ NOutputs \in [Component -> Nat]
    /\ MaxThread \in Nat \ {0}
    /\ MaxLoads \in Nat \ {0}

VARIABLES
    pc,            \* where each frame is
    target,        \* the subcomponent the current statement works on
    index,         \* the output index the current statement or loop works on
    inputCounter,  \* componentMemory[c].inputCounter
    stored,        \* the outputs whose value is in signalValues
    outputIsSet,   \* componentMemory[c].outputIsSet
    loads,         \* how often the parent has read each output
    sbct,          \* the handle of the thread of c in its parent's sbct array
    released,      \* c has been through release_memory_component
    numThread      \* Circom_CalcWit::numThread

vars == <<pc, target, index, inputCounter, stored, outputIsSet, loads, sbct,
          released, numThread>>

Outputs(c) == 1..NOutputs[c]
Children(c) == {d \in Component \ {main} : Parent[d] = c}

\* The instances whose run function has a thread of its own.  An instance
\* without inputs is run by its create function, which calls <template>_run
\* whether the instance is parallel or not.
Threads == {c \in Par : NInputs[c] > 0}

SlotWaits == {"slot", "slotAsleep"}       \* waiting to count a new thread
Reslot    == {"reslot", "reslotAsleep"}   \* waiting to be counted again
Loading   == {"yieldNotify", "lock", "cvAsleep"} \cup Reslot
Leaving   == {"leaveNotify", "release", "ended", "aborted"}
Closing   == {"flag", "flagNotify", "leave"} \cup Leaving
InBody    == {"body", "callee", "publish", "publishNotify"} \cup SlotWaits \cup Loading

Location == {"absent", "waiting", "join"} \cup InBody \cup Closing

Started(c) == pc[c] \notin {"absent", "waiting"}

\* The generated body creates the subcomponents of c before anything else.
Created(c) == \A d \in Children(c) : pc[d] # "absent"

\* A failed assertion calls abort(), which ends all the threads.
Aborted == \E c \in Component : pc[c] = "aborted"

\* mutexes[o] of d is held across steps only by the parent of d, between the
\* end of its cvs wait and the end of its ntcvs wait.
MutexHeld(d, o) ==
    /\ pc[Parent[d]] \in Reslot
    /\ target[Parent[d]] = d
    /\ index[Parent[d]] = o

Init ==
    /\ pc = [c \in Component |-> IF c = main THEN "body" ELSE "absent"]
    /\ target = [c \in Component |-> NoCmp]
    /\ index = [c \in Component |-> 0]
    /\ inputCounter = NInputs
    /\ stored = [c \in Component |-> {}]
    /\ outputIsSet = [c \in Component |-> {}]
    /\ loads = [c \in Component |-> [o \in Outputs(c) |-> 0]]
    /\ sbct = [c \in Component |-> "none"]
    /\ released = [c \in Component |-> FALSE]
    /\ numThread = 0

-----------------------------------------------------------------------------
(* Condition variables *)

Sleepers == {c \in Component : pc[c] \in {"slotAsleep", "reslotAsleep"}}

Awake(l) == IF l = "slotAsleep" THEN "slot" ELSE "reslot"

\* ntcvs.notify_one(): one thread asleep on ntcvs, if any, tests its predicate
\* again; the caller c goes on to l.
NotifyOne(c, l) ==
    \/ /\ Sleepers = {}
       /\ pc' = [pc EXCEPT ![c] = l]
    \/ \E w \in Sleepers : pc' = [pc EXCEPT ![c] = l, ![w] = Awake(pc[w])]

\* cvs[o].notify_all() on the outputs of d; only its parent can be asleep there.
NotifyAll(d, o, l) ==
    IF /\ pc[Parent[d]] = "cvAsleep"
       /\ target[Parent[d]] = d
       /\ index[Parent[d]] = o
    THEN pc' = [pc EXCEPT ![d] = l, ![Parent[d]] = "lock"]
    ELSE pc' = [pc EXCEPT ![d] = l]

\* ntcvs.wait(lkt, numThread < maxThread): falls asleep at `asleep`, or takes the slot
\* and goes on with the body.
WaitForSlot(c, asleep) ==
    \/ /\ numThread < MaxThread
       /\ numThread' = numThread + 1
       /\ pc' = [pc EXCEPT ![c] = "body"]
    \/ /\ numThread >= MaxThread
       /\ numThread' = numThread
       /\ pc' = [pc EXCEPT ![c] = asleep]

-----------------------------------------------------------------------------
(* The statements of a body *)

\* Creation of subcomponent d.  An instance without inputs runs at once, in a
\* call of its parent.
Create(c, d) ==
    /\ pc[c] = "body"
    /\ d \in Children(c)
    /\ pc[d] = "absent"
    /\ \/ /\ NInputs[d] > 0
          /\ pc' = [pc EXCEPT ![d] = "waiting"]
          /\ target' = target
       \/ /\ NInputs[d] = 0
          /\ pc' = [pc EXCEPT ![c] = "callee", ![d] = "body"]
          /\ target' = [target EXCEPT ![c] = d]
    /\ UNCHANGED <<index, inputCounter, stored, outputIsSet, loads, sbct,
                   released, numThread>>

\* Variant: the input counter of a thread is decremented twice.
AssignInputTwice(c, d) ==
    /\ pc[c] = "body"
    /\ d \in Children(c)
    /\ pc[d] = "waiting"
    /\ inputCounter' = [inputCounter EXCEPT ![d] = @ - 2]
    /\ inputCounter[d] = 1
    /\ d \in Threads
    /\ pc' = [pc EXCEPT ![c] = "slot", ![d] = "body"]
    /\ target' = [target EXCEPT ![c] = d]
    /\ sbct' = [sbct EXCEPT ![d] = "joinable"]
    /\ UNCHANGED <<index, stored, outputIsSet, loads, released, numThread>>

\* Assignment of an input of d.  The last one runs d: in a new thread, which
\* starts before the parent waits for a slot for it, or in a call.
AssignInput(c, d) ==
    /\ pc[c] = "body"
    /\ Created(c)
    /\ d \in Children(c)
    /\ pc[d] = "waiting"
    /\ inputCounter' = [inputCounter EXCEPT ![d] = @ - 1]
    /\ \/ /\ inputCounter[d] > 1
          /\ UNCHANGED <<pc, target, sbct>>
       \/ /\ inputCounter[d] = 1
          /\ d \in Threads
          /\ pc' = [pc EXCEPT ![c] = "slot", ![d] = "body"]
          /\ target' = [target EXCEPT ![c] = d]
          /\ sbct' = [sbct EXCEPT ![d] = "joinable"]
       \/ /\ inputCounter[d] = 1
          /\ d \notin Threads
          /\ pc' = [pc EXCEPT ![c] = "callee", ![d] = "body"]
          /\ target' = [target EXCEPT ![c] = d]
          /\ sbct' = sbct
    /\ UNCHANGED <<index, stored, outputIsSet, loads, released, numThread>>

\* The parent counts the thread it has started.
TakeSlot(c) ==
    /\ pc[c] = "slot"
    /\ WaitForSlot(c, "slotAsleep")
    /\ UNCHANGED <<target, index, inputCounter, stored, outputIsSet, loads,
                   sbct, released>>

\* Variant: the call does not wait for the callee.
ReturnEarly(c) ==
    /\ pc[c] = "callee"
    /\ pc' = [pc EXCEPT ![c] = "body"]
    /\ UNCHANGED <<target, index, inputCounter, stored, outputIsSet, loads,
                   sbct, released, numThread>>

\* A call of a subcomponent's run function returns.
Return(c) ==
    /\ pc[c] = "callee"
    /\ pc[target[c]] = "ended"
    /\ pc' = [pc EXCEPT ![c] = "body"]
    /\ UNCHANGED <<target, index, inputCounter, stored, outputIsSet, loads,
                   sbct, released, numThread>>

\* Load of output o of d.  The outputs of an instance that is not parallel are
\* read at once, whether it has run or not; before it waits for an output of a
\* parallel one the reader gives its slot back.
Load(c, d, o) ==
    /\ pc[c] = "body"
    /\ Created(c)
    /\ d \in Children(c)
    /\ o \in Outputs(d)
    /\ loads[d][o] < MaxLoads
    /\ \/ /\ d \notin Par
          /\ loads' = [loads EXCEPT ![d][o] = @ + 1]
          /\ UNCHANGED <<pc, target, index, numThread>>
       \/ /\ d \in Par
          /\ numThread' = numThread - 1
          /\ pc' = [pc EXCEPT ![c] = "yieldNotify"]
          /\ target' = [target EXCEPT ![c] = d]
          /\ index' = [index EXCEPT ![c] = o]
          /\ loads' = loads
    /\ UNCHANGED <<inputCounter, stored, outputIsSet, sbct, released>>

YieldNotify(c) ==
    /\ pc[c] = "yieldNotify"
    /\ NotifyOne(c, "lock")
    /\ UNCHANGED <<target, index, inputCounter, stored, outputIsSet, loads,
                   sbct, released, numThread>>

\* Variant: a wait without a predicate.
AwaitNotification(c) ==
    /\ pc[c] = "lock"
    /\ pc' = [pc EXCEPT ![c] = "cvAsleep"]
    /\ UNCHANGED <<target, index, inputCounter, stored, outputIsSet, loads,
                   sbct, released, numThread>>

\* cvs[o].wait(lk, outputIsSet[o]): the predicate is tested under mutexes[o],
\* which the reader keeps when the output is set.
AwaitOutput(c) ==
    /\ pc[c] = "lock"
    /\ pc' = [pc EXCEPT ![c] = IF index[c] \in outputIsSet[target[c]]
                               THEN "reslot" ELSE "cvAsleep"]
    /\ UNCHANGED <<target, index, inputCounter, stored, outputIsSet, loads,
                   sbct, released, numThread>>

\* With the mutex of the output still locked the reader waits for a slot; once
\* it has one it drops both locks and reads the output.
RetakeSlot(c) ==
    /\ pc[c] = "reslot"
    /\ WaitForSlot(c, "reslotAsleep")
    /\ loads' = IF numThread < MaxThread
                THEN [loads EXCEPT ![target[c]][index[c]] = @ + 1]
                ELSE loads
    /\ UNCHANGED <<target, index, inputCounter, stored, outputIsSet, sbct,
                   released>>

\* Assignment of an output of c itself.
Store(c, o) ==
    /\ pc[c] = "body"
    /\ Created(c)
    /\ o \in Outputs(c) \ stored[c]
    /\ stored' = [stored EXCEPT ![c] = @ \cup {o}]
    /\ \/ /\ c \in Threads
          /\ pc' = [pc EXCEPT ![c] = "publish"]
          /\ index' = [index EXCEPT ![c] = o]
       \/ /\ c \notin Threads
          /\ UNCHANGED <<pc, index>>
    /\ UNCHANGED <<target, inputCounter, outputIsSet, loads, sbct, released,
                   numThread>>

\* lock(); outputIsSet[o] = true; unlock(), the critical section of a writer.
SetOutput(c, from, to) ==
    /\ pc[c] = from
    /\ ~MutexHeld(c, index[c])
    /\ outputIsSet' = [outputIsSet EXCEPT ![c] = @ \cup {index[c]}]
    /\ pc' = [pc EXCEPT ![c] = to]
    /\ UNCHANGED <<target, index, inputCounter, stored, loads, sbct, released,
                   numThread>>

Publish(c) == c \in Threads /\ SetOutput(c, "publish", "publishNotify")

PublishNotify(c) ==
    /\ c \in Threads
    /\ pc[c] = "publishNotify"
    /\ NotifyAll(c, index[c], "body")
    /\ UNCHANGED <<target, index, inputCounter, stored, outputIsSet, loads,
                   sbct, released, numThread>>

\* The body is over, whatever its path has left unassigned.
EndBody(c) ==
    /\ pc[c] = "body"
    /\ Created(c)
    /\ pc' = [pc EXCEPT ![c] = "join"]
    /\ UNCHANGED <<target, index, inputCounter, stored, outputIsSet, loads,
                   sbct, released, numThread>>

-----------------------------------------------------------------------------
(* The epilogue of a run function *)

\* where a frame goes when `done` outputs have been flagged by the final loop
AfterFlag(c, done) == IF done < NOutputs[c] THEN "flag" ELSE "leave"

\* Variant: the threads are not joined.
JoinNobody(c) ==
    /\ pc[c] = "join"
    /\ pc' = [pc EXCEPT ![c] = IF c \in Threads THEN AfterFlag(c, 0) ELSE "release"]
    /\ index' = [index EXCEPT ![c] = 1]
    /\ UNCHANGED <<target, inputCounter, stored, outputIsSet, loads, sbct, released,
                   numThread>>

\* Every thread in sbct is joined; a frame that is a thread then flags all its
\* outputs, the stored ones again and the others for the first time; any other
\* frame only has its subcomponents to release.
Join(c) ==
    /\ pc[c] = "join"
    /\ \A d \in Children(c) : sbct[d] = "joinable" => pc[d] = "ended"
    /\ sbct' = [d \in Component |->
                  IF d \in Children(c) /\ sbct[d] = "joinable"
                  THEN "joined" ELSE sbct[d]]
    /\ pc' = [pc EXCEPT ![c] = IF c \in Threads THEN AfterFlag(c, 0) ELSE "release"]
    /\ index' = [index EXCEPT ![c] = 1]
    /\ UNCHANGED <<target, inputCounter, stored, outputIsSet, loads, released,
                   numThread>>

Flag(c) == c \in Threads /\ SetOutput(c, "flag", "flagNotify")

\* Variant: the final loop notifies nobody.
FlagSilently(c) ==
    /\ c \in Threads
    /\ pc[c] = "flagNotify"
    /\ pc' = [pc EXCEPT ![c] = AfterFlag(c, index[c])]
    /\ index' = [index EXCEPT ![c] = @ + 1]
    /\ UNCHANGED <<target, inputCounter, stored, outputIsSet, loads, sbct,
                   released, numThread>>

FlagNotify(c) ==
    /\ c \in Threads
    /\ pc[c] = "flagNotify"
    /\ NotifyAll(c, index[c], AfterFlag(c, index[c]))
    /\ index' = [index EXCEPT ![c] = @ + 1]
    /\ UNCHANGED <<target, inputCounter, stored, outputIsSet, loads, sbct,
                   released, numThread>>

\* The thread gives its slot back ...
Leave(c) ==
    /\ pc[c] = "leave"
    /\ numThread' = numThread - 1
    /\ pc' = [pc EXCEPT ![c] = "leaveNotify"]
    /\ UNCHANGED <<target, index, inputCounter, stored, outputIsSet, loads,
                   sbct, released>>

\* Variant: a slot is given back without a notification.
LeaveSilently(c) ==
    /\ pc[c] = "leaveNotify"
    /\ pc' = [pc EXCEPT ![c] = "release"]
    /\ UNCHANGED <<target, index, inputCounter, stored, outputIsSet, loads,
                   sbct, released, numThread>>

LeaveNotify(c) ==
    /\ pc[c] = "leaveNotify"
    /\ NotifyOne(c, "release")
    /\ UNCHANGED <<target, index, inputCounter, stored, outputIsSet, loads,
                   sbct, released, numThread>>

\* ... and the frame deletes the run-time memory of its subcomponents, having
\* asserted that none still waits for an input.
Release(c) ==
    /\ pc[c] = "release"
    /\ \/ /\ \A d \in Children(c) : inputCounter[d] = 0
          /\ released' = [d \in Component |-> released[d] \/ d \in Children(c)]
          /\ pc' = [pc EXCEPT ![c] = "ended"]
       \/ /\ \E d \in Children(c) : inputCounter[d] # 0
          /\ released' = released
          /\ pc' = [pc EXCEPT ![c] = "aborted"]
    /\ UNCHANGED <<target, index, inputCounter, stored, outputIsSet, loads,
                   sbct, numThread>>

-----------------------------------------------------------------------------
Statement(c) ==
    \/ \E d \in Component : Create(c, d) \/ AssignInput(c, d)
    \/ \E d \in Component : \E o \in Outputs(d) : Load(c, d, o)
    \/ \E o \in Outputs(c) : Store(c, o)
    \/ EndBody(c)

Wait(c) ==
    \/ TakeSlot(c) \/ Return(c)
    \/ YieldNotify(c) \/ AwaitOutput(c) \/ RetakeSlot(c)
    \/ Publish(c) \/ PublishNotify(c)

Epilogue(c) ==
    Join(c) \/ Flag(c) \/ FlagNotify(c) \/ Leave(c) \/ LeaveNotify(c) \/ Release(c)

Step(c) == ~Aborted /\ (Statement(c) \/ Wait(c) \/ Epilogue(c))

\* run() has returned to the caller of setInputSignal, or the program is over.
Finished == (pc[main] = "ended" \/ Aborted) /\ UNCHANGED vars

Next == (\E c \in Component : Step(c)) \/ Finished

Spec == Init /\ [][Next]_vars

\* The operating system runs every thread that can take a step.
Fairness == \A c \in Component : WF_vars(Step(c))

FairSpec == Spec /\ Fairness
-----------------------------------------------------------------------------
(* Properties *)

TypeOK ==
    /\ pc \in [Component -> Location]
    /\ target \in [Component -> Component \cup {NoCmp}]
    /\ index \in [Component -> Nat]
    /\ inputCounter \in [Component -> Nat]
    /\ stored \in [Component -> SUBSET Nat]
    /\ outputIsSet \in [Component -> SUBSET Nat]
    /\ DOMAIN loads = Component
    /\ \A c \in Component : loads[c] \in [Outputs(c) -> Nat]
    /\ sbct \in [Component -> {"none", "joinable", "joined"}]
    /\ released \in [Component -> BOOLEAN]
    /\ numThread \in Int

\* The slots in use are the threads their parent has counted, less those that
\* have left, less the frames inside a load: a load in the middle of a slot
\* wait, or a thread that ends before its parent counts it, never leaks or
\* duplicates a slot (load_bucket.rs, store_bucket.rs, template.rs).
Counted == {c \in Threads : /\ sbct[c] # "none"
                            /\ ~ /\ pc[Parent[c]] \in SlotWaits
                                 /\ target[Parent[c]] = c}
Left    == {c \in Threads : pc[c] \in Leaving}
Readers == {c \in Component : pc[c] \in Loading}

SlotAccounting ==
    numThread = Cardinality(Counted) - Cardinality(Left) - Cardinality(Readers)

\* The slots never exceed the capacity chosen for the calculator.
SlotCapacity == numThread <= MaxThread

\* A free slot is never left with threads asleep for it: each has, on its way,
\* a notify_one or an awake thread about to test the predicate.
Pending == {c \in Component : pc[c] \in {"slot", "reslot", "yieldNotify", "leaveNotify"}}

NoLostSlotWakeup ==
    Sleepers # {} => MaxThread - numThread <= Cardinality(Pending)

\* A parent asleep on the condition variable of an output that is already set
\* is about to be notified by the thread that set it.
NoLostOutputWakeup ==
    \A c \in Component :
        pc[c] = "cvAsleep" /\ index[c] \in outputIsSet[target[c]]
            => /\ pc[target[c]] \in {"publishNotify", "flagNotify"}
               /\ index[target[c]] = index[c]

\* When the memory of a component is deleted its thread, and all the threads
\* below it, are over, and its parent is past everything that locks its
\* mutexes; inputs it still expected would be lost.
ReleasedIsDead ==
    \A c \in Component \ {main} :
        released[c] => /\ pc[c] = "ended"
                       /\ pc[Parent[c]] = "ended"
                       /\ sbct[c] # "joinable"
                       /\ inputCounter[c] = 0

\* A load from a component that has begun to run reads the value the witness has
\* in the end, whatever runs at the same time: the output is stored, or the body
\* that could store it is over (load_bucket.rs, store_bucket.rs, template.rs).
ReadsAreFinal ==
    [][\A c \in Component : \A o \in Outputs(c) :
          Started(c) /\ loads'[c][o] # loads[c][o]
              => o \in stored[c] \/ pc[c] \in Closing]_vars

\* Claims the code does not keep: an output is read only when its component has
\* all its inputs, and only when it has a value.
UsedWhenInputsAreSet ==
    [][\A c \in Component : loads'[c] # loads[c] => Started(c)]_vars

ReadsStoredOutputs ==
    \A c \in Component : \A o \in Outputs(c) : loads[c][o] > 0 => o \in stored[c]

\* A frame ends after all its subcomponents, and a thread with every output
\* flagged, so that no reader can wait for it any more.
EndsLast ==
    \A c \in Component :
        pc[c] = "ended" => /\ c \in Threads => outputIsSet[c] = Outputs(c)
                          /\ \A d \in Children(c) : pc[d] = "ended"

\* c waits for an output of a parallel subcomponent whose last input its path
\* has not assigned: no thread will ever raise the flag.
Stranded(c) == pc[c] \in Loading /\ ~Started(target[c])

\* run() returns, or an assertion ends the program, unless a path reads from a
\* parallel subcomponent it has not given all its inputs.
Terminates ==
    <>(pc[main] = "ended" \/ Aborted \/ \E c \in Component : Stranded(c))
-----------------------------------------------------------------------------
(* The inductive invariant behind the properties above, part by part.      *)

\* The registers of a frame in the middle of a statement.
RegistersOK ==
    \A c \in Component :
        /\ pc[c] \in {"callee"} \cup SlotWaits \cup Loading => target[c] \in Children(c)
        /\ pc[c] \in {"callee"} \cup SlotWaits => Started(target[c])
        /\ pc[c] = "callee" => target[c] \notin Threads
        /\ pc[c] \in SlotWaits => target[c] \in Threads
        /\ pc[c] \in Loading => index[c] \in Outputs(target[c])
        /\ pc[c] \in {"publish", "publishNotify"} => c \in Threads /\ index[c] \in stored[c]
        /\ pc[c] \in {"flag", "flagNotify"} => c \in Threads /\ index[c] \in Outputs(c)
        /\ pc[c] \in {"leave", "leaveNotify"} => c \in Threads

\* While a body runs, a flag stands for a stored value; the final loop raises
\* the others in order; a reader past its cvs wait has seen the flag.
OutputsOK ==
    \A c \in Component :
        /\ outputIsSet[c] \subseteq Outputs(c) /\ stored[c] \subseteq Outputs(c)
        /\ ~Started(c) => stored[c] = {}
        /\ pc[c] \notin Closing => outputIsSet[c] \subseteq stored[c]
        /\ pc[c] \in Reslot => index[c] \in outputIsSet[target[c]]
        /\ pc[c] = "flag" => 1..index[c] - 1 \subseteq outputIsSet[c]
        /\ pc[c] = "flagNotify" => 1..index[c] \subseteq outputIsSet[c]
        /\ c \in Threads /\ pc[c] \in {"leave"} \cup Leaving => outputIsSet[c] = Outputs(c)

\* Threads run on their own and are joined before their parent closes; every
\* other frame runs only while its parent is in the call.
CallsOK ==
    /\ \A c \in Component \ {main} :
          /\ sbct[c] = "none" <=> (c \notin Threads \/ ~Started(c))
          /\ sbct[c] = "joined" => pc[c] = "ended"
          /\ c \notin Threads /\ Started(c) /\ pc[c] # "ended"
                => pc[Parent[c]] = "callee" /\ target[Parent[c]] = c
          /\ released[c] => pc[Parent[c]] = "ended"
          /\ pc[c] = "absent" => inputCounter[c] = NInputs[c]
          /\ pc[c] = "waiting" => inputCounter[c] > 0
          /\ Started(c) => inputCounter[c] = 0
    /\ \A c \in Component :
          /\ pc[c] \in {"join"} \cup Closing => Created(c)
          /\ pc[c] \in Closing
                => \A d \in Children(c) : pc[d] \in {"waiting", "ended"} /\ sbct[d] # "joinable"
          /\ pc[c] = "ended" => \A d \in Children(c) : pc[d] = "ended"

IInv == /\ TypeOK
        /\ RegistersOK
        /\ OutputsOK
        /\ CallsOK
        /\ NoLostOutputWakeup
-----------------------------------------------------------------------------
(* Every behaviour of the threads is a behaviour of WitnessFlow. *)

Phase(c) == IF ~Started(c) THEN "idle"
            ELSE IF pc[c] = "ended" THEN "ended"
            ELSE IF pc[c] \in Closing THEN "complete" ELSE "running"

Flow == INSTANCE WitnessFlow WITH
            phase <- [c \in Component |-> Phase(c)],
            produced <- stored,
            consumed <- [c \in Component |-> {o \in Outputs(c) : loads[c][o] > 0}]

\* Witness evaluation with threads, slots and output flags is the evaluation
\* in dataflow order.
ImplementsFlow == Flow!Spec
=============================================================================
