----------------------------- MODULE MainInputs -----------------------------
(***************************************************************************)
(* How a generated witness calculator gets the inputs of the main          *)
(* component.                                                              *)
(*                                                                         *)
(* The compiler writes an open-addressing hash table from the names of the *)
(* main inputs to their signals (generate_hash_map).  At run time the      *)
(* loader walks over the keys of the input document, looks each one up and *)
(* sets the signals it names one by one; the circuit runs inside the call  *)
(* that sets the last one.  The C++ and the WebAssembly calculators share  *)
(* this protocol and differ in how a lookup ends, in what starts a circuit *)
(* without input signals and in what becomes of a signal set again.        *)
(*                                                                         *)
(* An input bus is in the table under its own name and under the name of   *)
(* each of its fields, so entries may overlap.  C++ refuses to set a signal*)
(* twice; WebAssembly sets it again and counts it again.                   *)
(***************************************************************************)
EXTENDS Integers, FiniteSets, Sequences

CONSTANTS
    Circuits,    \* the circuits, each by its main_input_list
    Name,        \* the keys a document may have
    Hashes,      \* the values of the hash function
    TableSize,   \* get_input_hash_map_entry_size
    MaxValues    \* bound: the values a document gives for one key

\* generate_hash_map asserts that the entries fit in the table.  Keys are
\* strings: there are some.
ASSUME CircuitsAssumption ==
    /\ Name # {}
    /\ Circuits \subseteq Seq([name : Name, start : Nat \ {0}, size : Nat])
    /\ \A ents \in Circuits :
          /\ Len(ents) <= TableSize
          /\ \A e, f \in DOMAIN ents : ents[e].name = ents[f].name => e = f
    /\ TableSize \in Nat \ {0}
    /\ MaxValues \in Nat
    /\ Hashes \subseteq Nat \ {0}

VARIABLES
    entries,    \* main_input_list: a sequence of [name, start, size]
    program,    \* the calculator: "cpp" or "wasm"
    hash,       \* fnv1a on the names
    doc,        \* the flattened input document: the number of values of a key
    table,      \* InputHashMap: the entry in each slot, 0 in an empty one
    stage,      \* "build", "keys", "values", "done" or "error"
    next,       \* the entry to insert, then the value to set
    keys,       \* the keys of the document not yet visited
    key,        \* the key being visited
    values,     \* signalValues: the <<key, position>> each set signal has its value from
    remaining,  \* inputSignalAssignedCounter
    runs        \* how often the circuit has run

vars == <<entries, program, hash, doc, table, stage, next, keys, key, values,
          remaining, runs>>

environment == <<entries, program, hash, doc>>

Slot == 0..TableSize - 1
Signals(e) == entries[e].start..entries[e].start + entries[e].size - 1
InSignals == UNION {Signals(e) : e \in DOMAIN entries}

\* Hash functions are injective on the names that occur; they collide in the
\* table.  A key may have any number of values, the right one or not.
Init ==
    /\ entries \in Circuits
    /\ program \in {"cpp", "wasm"}
    /\ hash \in {f \in [Name -> Hashes] : \A a, b \in Name : f[a] = f[b] => a = b}
    /\ \E ks \in SUBSET Name : doc \in [ks -> 0..MaxValues]
    /\ table = [s \in Slot |-> 0]
    /\ stage = "build"
    /\ next = 1
    /\ keys = {}
    /\ key = CHOOSE n \in Name : TRUE
    /\ values = <<>>
    /\ remaining = Cardinality(InSignals)
    /\ runs = 0

-----------------------------------------------------------------------------
(* The table *)

At(h, k) == (h + k) % TableSize

\* s is the first empty slot from the home of h on.
FirstFree(h, s) ==
    \E k \in Slot :
        /\ s = At(h, k)
        /\ table[s] = 0
        /\ \A j \in 0..k - 1 : table[At(h, j)] # 0

Holds(s, h) == table[s] # 0 /\ hash[entries[table[s]].name] = h

\* A lookup of h stops at slot s without a match: both programs stop at an
\* empty slot, but C++ never asks whether the home of h is empty.
StopsAt(h, k) == table[At(h, k)] = 0 /\ (program = "cpp" => k > 0)

\* getInputSignalHashPosition / getInputSignalMapPosition: the first slot on
\* the way that holds h, unless the probe stops or comes back before.
Found(h, e) ==
    \E k \in Slot :
        /\ Holds(At(h, k), h)
        /\ table[At(h, k)] = e
        /\ \A j \in 0..k - 1 : ~Holds(At(h, j), h) /\ ~StopsAt(h, j)

\* The table is filled at compile time, entry by entry.
Insert ==
    /\ stage = "build"
    /\ next <= Len(entries)
    /\ \E s \in Slot :
          /\ FirstFree(hash[entries[next].name], s)
          /\ table' = [table EXCEPT ![s] = next]
    /\ next' = next + 1
    /\ UNCHANGED <<environment, stage, keys, key, values, remaining, runs>>

\* Variant: neither program runs a circuit without input signals by itself.
StartIdle ==
    /\ stage = "build"
    /\ next > Len(entries)
    /\ stage' = "keys"
    /\ keys' = DOMAIN doc
    /\ UNCHANGED <<environment, table, next, key, values, remaining, runs>>

\* The calculator is started with a document.  A circuit without input
\* signals runs when WebAssembly initialises it; C++ only looks for it when
\* the document is empty.
Start ==
    /\ stage = "build"
    /\ next > Len(entries)
    /\ stage' = "keys"
    /\ keys' = DOMAIN doc
    /\ runs' = IF remaining = 0 /\ (program = "wasm" \/ doc = <<>>)
               THEN runs + 1 ELSE runs
    /\ UNCHANGED <<environment, table, next, key, values, remaining>>

-----------------------------------------------------------------------------
(* The loader *)

\* The next key: it must be known and have the right number of values.
VisitKey(n) ==
    /\ stage = "keys"
    /\ n \in keys
    /\ keys' = keys \ {n}
    /\ key' = n
    /\ next' = 1
    /\ stage' = IF \E e \in DOMAIN entries : /\ Found(hash[n], e)
                                             /\ doc[n] = entries[e].size
                THEN "values" ELSE "error"
    /\ UNCHANGED <<environment, table, values, remaining, runs>>

\* The signal of value number `next` of the key.
Target(e) == entries[e].start + next - 1

\* Variant: a signal may be set again in both programs.
CanSetAgain(e) == remaining > 0 /\ next <= entries[e].size

\* setInputSignal refuses a call when no signal is left to set, when the
\* position is beyond the size of the entry, or, in C++, when this signal is
\* set.  $checkIfInputSignalSet reads a map that is cleared by $init and never
\* written: WebAssembly takes every signal for unset.
CanSet(e) ==
    /\ remaining > 0
    /\ next <= entries[e].size
    /\ program = "cpp" => Target(e) \notin DOMAIN values

\* setInputSignal counts the call, whatever the signal held before; the call
\* that brings the counter to zero runs the circuit.
SetValue(e) ==
    /\ CanSet(e)
    /\ values' = [s \in DOMAIN values \cup {Target(e)} |->
                    IF s = Target(e) THEN <<key, next>> ELSE values[s]]
    /\ remaining' = remaining - 1
    /\ runs' = IF remaining' = 0 THEN runs + 1 ELSE runs
    /\ next' = next + 1
    /\ stage' = stage

\* Variant: the loader goes on after a refusal.
IgnoreRefusal(e) == ~CanSet(e) /\ UNCHANGED <<values, remaining, runs, next, stage>>

\* A refusal ends the program.
Refuse(e) ==
    /\ ~CanSet(e)
    /\ stage' = "error"
    /\ UNCHANGED <<values, remaining, runs, next>>

SetInputSignal ==
    /\ stage = "values"
    /\ next <= doc[key]
    /\ \E e \in DOMAIN entries : Found(hash[key], e) /\ (SetValue(e) \/ Refuse(e))
    /\ UNCHANGED <<environment, table, keys, key>>

NextKey ==
    /\ stage = "values"
    /\ next > doc[key]
    /\ stage' = "keys"
    /\ UNCHANGED <<environment, table, next, keys, key, values, remaining, runs>>

\* Variant: the witness is written whether or not all inputs are set.
FinishUnchecked ==
    /\ stage = "keys"
    /\ keys = {}
    /\ stage' = "done"
    /\ UNCHANGED <<environment, table, next, keys, key, values, remaining, runs>>

\* The witness is written if no input signal is missing by the counter.
Finish ==
    /\ stage = "keys"
    /\ keys = {}
    /\ stage' = IF remaining = 0 THEN "done" ELSE "error"
    /\ UNCHANGED <<environment, table, next, keys, key, values, remaining, runs>>

Ended == stage \in {"done", "error"} /\ UNCHANGED vars

Next ==
    \/ Insert
    \/ Start
    \/ \E n \in Name : VisitKey(n)
    \/ SetInputSignal
    \/ NextKey
    \/ Finish
    \/ Ended

Spec == Init /\ [][Next]_vars

\* The calculator is one sequential program that keeps running.
FairSpec == Spec /\ WF_vars(Next)
-----------------------------------------------------------------------------
(* Properties *)

TypeOK ==
    /\ entries \in Circuits
    /\ program \in {"cpp", "wasm"}
    /\ hash \in [Name -> Hashes]
    /\ DOMAIN doc \subseteq Name
    /\ \A n \in DOMAIN doc : doc[n] \in 0..MaxValues
    /\ table \in [Slot -> {0} \cup DOMAIN entries]
    /\ stage \in {"build", "keys", "values", "done", "error"}
    /\ next \in Nat \ {0}
    /\ keys \subseteq Name
    /\ key \in Name
    /\ DOMAIN values \subseteq InSignals
    /\ \A s \in DOMAIN values : values[s] \in Name \X (1..MaxValues)
    /\ remaining \in Nat
    /\ runs \in Nat

\* Whatever collisions the table has, a lookup of the hash of a name finds the
\* entry of that name and of no other: entries already inserted stay reachable
\* while the table fills (generate_hash_map against the two lookups).
EntriesFound ==
    \A n \in Name : \A e \in DOMAIN entries :
        Found(hash[n], e) <=> /\ entries[e].name = n
                              /\ stage = "build" => e < next

\* No two keys of the document name the same signal.
Disjoint ==
    \A m, n \in DOMAIN doc : \A e, f \in DOMAIN entries :
        m # n /\ entries[e].name = m /\ entries[f].name = n
            => Signals(e) \cap Signals(f) = {}

\* No signal is set twice: C++ refuses it, the document gives no occasion for it.
SetsOnce == program = "cpp" \/ Disjoint

Entry(n) == CHOOSE e \in DOMAIN entries : entries[e].name = n

\* The documents that set each input signal exactly once.
CompleteInput ==
    /\ \A n \in DOMAIN doc : \E e \in DOMAIN entries :
          entries[e].name = n /\ entries[e].size = doc[n]
    /\ Disjoint
    /\ UNION {Signals(Entry(n)) : n \in DOMAIN doc} = InSignals

\* Both programs accept the complete inputs, in whatever order they visit the
\* keys and whichever names of a bus the document uses.  C++ accepts no other
\* document, and WebAssembly none without a signal named twice (loadJson,
\* setInputSignal, _doCalculateWitness).
AcceptsCompleteInputs ==
    /\ TypeOK
    /\ EntriesFound
    /\ stage = "error" => ~CompleteInput
    /\ stage = "done" /\ SetsOnce => CompleteInput

\* A claim WebAssembly does not keep: it accepts no other documents either.
AcceptsNothingElse == stage = "done" => CompleteInput

\* When the circuit runs every input signal is set, unless WebAssembly is given
\* a document that names a signal twice; and a set signal always holds a value
\* the document gives it, through its own name or that of a bus around it.
RunsOnAllInputs ==
    /\ runs > 0 /\ SetsOnce => InSignals \subseteq DOMAIN values
    /\ \A s \in DOMAIN values : \E e \in DOMAIN entries :
          /\ values[s][1] \in DOMAIN doc
          /\ values[s][1] = entries[e].name
          /\ s = entries[e].start + values[s][2] - 1

\* A witness is written of a circuit that has run, once.
WitnessIsComputed == runs <= 1 /\ (stage = "done" => runs = 1)

\* Every document is accepted or refused in the end.
Decides == <>(stage \in {"done", "error"})
=============================================================================
