-------------------------- MODULE MainInputs_proofs --------------------------
(***************************************************************************)
(* Proofs about MainInputs: for every circuit, table size, placement of    *)
(* the names and document, a lookup in the table generate_hash_map writes  *)
(* finds its entry; both loaders accept the documents that set every input *)
(* signal exactly once, C++ no others, and WebAssembly no others among     *)
(* those that name no signal twice.                                        *)
(*                                                                         *)
(* TypeOK and EntriesFound come first: the table is built before the       *)
(* loader starts and never changes again.  What the loader does is then    *)
(* tied to the document by LoaderInv, which says where the keys already    *)
(* visited and the key being visited have left their values.               *)
(***************************************************************************)
EXTENDS MainInputs, FiniteSetTheorems, TLAPS

(* The inductive invariant *)

\* e has its place in the table: all entries do once the program runs.
Inserted(e) == e \in DOMAIN entries /\ (stage = "build" => e < next)

\* A probe from the home of e meets only other entries before it meets e.
Placed(e) ==
    LET h == hash[entries[e].name]
    IN  \E k \in Slot :
            /\ table[At(h, k)] = e
            /\ \A j \in 0..k - 1 : table[At(h, j)] \notin {0, e}

TableInv ==
    /\ \A a, b \in Name : hash[a] = hash[b] => a = b
    /\ doc \in [DOMAIN doc -> 0..MaxValues]
    /\ stage = "build" => next <= Len(entries) + 1
    /\ \A s \in Slot : table[s] # 0 => Inserted(table[s])
    /\ \A e \in DOMAIN entries : Inserted(e) => Placed(e)

\* The counter of the loader, which counts calls and not signals, and the
\* calls of the circuit.
CountInv ==
    /\ SetsOnce => remaining = Cardinality(InSignals \ DOMAIN values)
    /\ runs \in {0, 1}
    /\ runs = 1 => remaining = 0
    /\ stage = "build" => /\ runs = 0 /\ DOMAIN values = {}
                          /\ remaining = Cardinality(InSignals)
    /\ stage # "build" /\ InSignals # {} /\ remaining = 0 => runs = 1
    /\ stage # "build" /\ InSignals = {} /\ DOMAIN doc = {} => runs = 1

Visited == DOMAIN doc \ keys

\* e is the entry of key n, and the document gives as many values as it has
\* signals.
Fits(e, n) == entries[e].name = n /\ entries[e].size = doc[n]

\* Signal s holds value number p of key n.
SetBy(s, n, p) == s \in DOMAIN values /\ values[s] = <<n, p>>

LoaderInv ==
    /\ keys \subseteq DOMAIN doc
    /\ stage = "values" => key \in Visited
    /\ stage = "done" => keys = {} /\ remaining = 0
    /\ stage \notin {"build", "error"} =>
          \A n \in Visited : \E e \in DOMAIN entries : Fits(e, n)
    /\ \A s \in DOMAIN values : \E e \in DOMAIN entries :
          /\ entries[e].name = values[s][1]
          /\ values[s][1] \in Visited
          /\ values[s][2] \in 1..entries[e].size
          /\ s = entries[e].start + values[s][2] - 1
    /\ SetsOnce /\ stage \in {"keys", "values", "done"} =>
          \A n \in Visited : \A e \in DOMAIN entries :
             entries[e].name = n /\ (stage = "values" => n # key) =>
                \A p \in 1..entries[e].size : SetBy(entries[e].start + p - 1, n, p)
    /\ stage = "values" =>
          \A e \in DOMAIN entries : entries[e].name = key =>
             /\ next <= entries[e].size + 1
             /\ SetsOnce => \A p \in 1..next - 1 : SetBy(entries[e].start + p - 1, key, p)
             /\ \A s \in DOMAIN values : values[s][1] = key => values[s][2] < next

Inv == TypeOK /\ TableInv /\ CountInv /\ LoaderInv

-----------------------------------------------------------------------------
(* The circuit *)

\* Every element of main_input_list is a name, a first signal after the
\* constant one and a size, and no two have the same name.
LEMMA EntryType ==
    ASSUME entries \in Circuits, NEW e \in DOMAIN entries
    PROVE  /\ DOMAIN entries = 1..Len(entries) /\ Len(entries) \in Nat
           /\ e \in Nat \ {0}
           /\ entries[e].name \in Name
           /\ entries[e].start \in Nat \ {0}
           /\ entries[e].size \in Nat
           /\ \A f \in DOMAIN entries : entries[e].name = entries[f].name => e = f
  <1> DEFINE R == [name : Name, start : Nat \ {0}, size : Nat]
  <1>1. /\ entries \in Seq(R)
        /\ \A f \in DOMAIN entries : entries[e].name = entries[f].name => e = f
    BY CircuitsAssumption
  <1> HIDE DEF R
  <1>2. /\ DOMAIN entries = 1..Len(entries) /\ Len(entries) \in Nat
        /\ entries[e] \in R
    BY <1>1
  <1>3. /\ entries[e].name \in Name
        /\ entries[e].start \in Nat \ {0}
        /\ entries[e].size \in Nat
    BY <1>2 DEF R
  <1> QED  BY <1>1, <1>2, <1>3

\* A slot counted from the home of a name is one of the table.
LEMMA AtType ==
    ASSUME NEW h \in Hashes, NEW k \in Slot
    PROVE  At(h, k) \in Slot
  <1> DEFINE n == h + k
  <1>1. n \in Nat /\ TableSize \in Nat \ {0}
    BY CircuitsAssumption DEF Slot
  <1>2. n % TableSize \in 0..TableSize - 1
    BY <1>1
  <1> QED  BY <1>2 DEF At, Slot

\* The input signals are finitely many: getInputSignalsNo counts them.
LEMMA InSignalsFinite ==
    ASSUME entries \in Circuits
    PROVE  IsFiniteSet(InSignals)
  <1>1. Len(entries) \in Nat /\ DOMAIN entries = 1..Len(entries)
    BY CircuitsAssumption
  <1> DEFINE S == {Signals(e) : e \in DOMAIN entries}
             f == [e \in DOMAIN entries |-> Signals(e)]
  <1>2. IsFiniteSet(DOMAIN entries)
    BY <1>1, FS_Interval
  <1>3. f \in Surjection(DOMAIN entries, S)
    BY DEF Surjection
  <1>4. IsFiniteSet(S)
    <2> HIDE DEF f, S
    <2> QED  BY <1>2, <1>3, FS_Surjection
  <1>5. \A T \in S : IsFiniteSet(T)
    <2> SUFFICES ASSUME NEW e \in DOMAIN entries
                 PROVE  IsFiniteSet(Signals(e))
      OBVIOUS
    <2>1. entries[e].start \in Int /\ entries[e].start + entries[e].size - 1 \in Int
      BY EntryType
    <2> QED  BY <2>1, FS_Interval DEF Signals
  <1> QED  BY <1>4, <1>5, FS_UNION DEF InSignals

-----------------------------------------------------------------------------
(* The table *)

\* In a table built entry by entry a lookup finds exactly the entries that are
\* in it: neither an empty slot nor an entry whose hash falls on the same slot
\* ends the probe before (getInputSignalHashPosition).
LEMMA LookupFinds ==
    ASSUME TypeOK, TableInv
    PROVE  EntriesFound
  <1> SUFFICES ASSUME NEW n \in Name, NEW e \in DOMAIN entries
               PROVE  Found(hash[n], e) <=> entries[e].name = n /\ Inserted(e)
    BY DEF EntriesFound, Inserted
  <1>1. /\ hash[n] \in Hashes
        /\ \A s \in Slot : table[s] # 0 => table[s] \in DOMAIN entries
        /\ \A f \in DOMAIN entries : f # 0 /\ entries[f].name \in Name
        /\ \A f \in DOMAIN entries : entries[f].name = entries[e].name => f = e
    BY EntryType DEF TypeOK
  <1>2. ASSUME Found(hash[n], e)
        PROVE  entries[e].name = n /\ Inserted(e)
    <2>1. PICK k \in Slot : Holds(At(hash[n], k), hash[n]) /\ table[At(hash[n], k)] = e
      BY <1>2 DEF Found
    <2>2. At(hash[n], k) \in Slot
      BY <1>1, AtType
    <2>3. hash[entries[e].name] = hash[n]
      BY <2>1 DEF Holds
    <2> QED  BY <1>1, <2>1, <2>2, <2>3 DEF TableInv
  <1>3. ASSUME entries[e].name = n, Inserted(e)
        PROVE  Found(hash[n], e)
    <2>1. PICK k \in Slot : /\ table[At(hash[n], k)] = e
                            /\ \A j \in 0..k - 1 : table[At(hash[n], j)] \notin {0, e}
      BY <1>3 DEF TableInv, Placed
    <2>2. Holds(At(hash[n], k), hash[n])
      BY <1>1, <1>3, <2>1 DEF Holds
    <2>3. ASSUME NEW j \in 0..k - 1
          PROVE  ~Holds(At(hash[n], j), hash[n]) /\ ~StopsAt(hash[n], j)
      <3>1. j \in Slot
        BY CircuitsAssumption DEF Slot
      <3>2. At(hash[n], j) \in Slot
        BY <1>1, <3>1, AtType
      <3> DEFINE f == table[At(hash[n], j)]
      <3>3. f \notin {0, e} /\ f \in DOMAIN entries
        BY <1>1, <2>1, <3>2
      <3>4. hash[entries[f].name] # hash[n]
        BY <1>1, <1>3, <3>3 DEF TableInv
      <3> QED  BY <3>3, <3>4 DEF Holds, StopsAt
    <2> QED  BY <2>1, <2>2, <2>3 DEF Found
  <1> QED  BY <1>2, <1>3

-----------------------------------------------------------------------------
(* Type correctness and the table *)

\* The invariant holds of an empty table and a loader that has read nothing.
LEMMA InitInv == Init => Inv
  <1> SUFFICES ASSUME Init  PROVE  Inv
    OBVIOUS
  <1> USE DEF Init
  <1>1. DOMAIN doc \subseteq Name /\ doc \in [DOMAIN doc -> 0..MaxValues]
    <2>1. PICK ks \in SUBSET Name : doc \in [ks -> 0..MaxValues]
      OBVIOUS
    <2> QED  BY <2>1
  <1>2. DOMAIN values = {}
    OBVIOUS
  <1>3. InSignals \ DOMAIN values = InSignals /\ remaining = Cardinality(InSignals)
    BY <1>2
  <1>4. remaining \in Nat
    BY InSignalsFinite, FS_CardinalityType
  <1>5. \A e \in DOMAIN entries : e \in Nat \ {0}
    BY EntryType
  <1>6. Len(entries) \in Nat
    BY CircuitsAssumption
  <1>7. key \in Name
    BY CircuitsAssumption
  <1>8. TypeOK
    BY <1>1, <1>2, <1>4, <1>7 DEF TypeOK
  <1>9. TableInv
    BY <1>1, <1>5, <1>6 DEF TableInv, Inserted
  <1>10. CountInv
    BY <1>2, <1>3 DEF CountInv
  <1>11. LoaderInv
    BY <1>2 DEF LoaderInv, Visited
  <1> QED  BY <1>8, <1>9, <1>10, <1>11 DEF Inv

\* What a step of the loader leaves alone.
LEMMA EnvironmentFixed ==
    ASSUME [Next]_vars
    PROVE  /\ UNCHANGED environment
           /\ InSignals' = InSignals /\ Disjoint' = Disjoint /\ SetsOnce' = SetsOnce
  <1>1. UNCHANGED environment
    BY DEF Next, vars, environment, Insert, Start, VisitKey, SetInputSignal, NextKey,
           Finish, Ended
  <1>2. InSignals' = InSignals /\ \A e : Signals(e)' = Signals(e)
    BY <1>1 DEF environment, InSignals, Signals
  <1>3. Disjoint' = Disjoint
    BY <1>1, <1>2 DEF environment, Disjoint
  <1> QED  BY <1>1, <1>2, <1>3 DEF environment, SetsOnce

\* The values every step finds and leaves in the variables have their types:
\* a signal is set by a value of the document, and one of the circuit's.
LEMMA TypeStep ==
    ASSUME Inv, [Next]_vars
    PROVE  TypeOK'
  <1> USE DEF Inv, TypeOK, environment
  <1>0. InSignals' = InSignals
    BY EnvironmentFixed
  <1>1. CASE Insert
    <2>1. next \in DOMAIN entries
      BY <1>1, EntryType, CircuitsAssumption DEF Insert
    <2> QED  BY <1>0, <1>1, <2>1 DEF Insert
  <1>2. CASE Start
    BY <1>0, <1>2 DEF Start
  <1>3. ASSUME NEW n \in Name, VisitKey(n)  PROVE  TypeOK'
    BY <1>0, <1>3 DEF VisitKey
  <1>4. CASE SetInputSignal
    <2>1. PICK e \in DOMAIN entries : Found(hash[key], e) /\ (SetValue(e) \/ Refuse(e))
      BY <1>4 DEF SetInputSignal
    <2>2. CASE SetValue(e)
      <3>1. Target(e) \in InSignals
        BY <2>2, EntryType, SMTT(30) DEF SetValue, CanSet, Target, InSignals, Signals
      <3>2. next \in 1..MaxValues
        <4>1. key \in DOMAIN doc
          BY <1>4 DEF SetInputSignal, LoaderInv, Visited
        <4> QED  BY <1>4, <4>1, CircuitsAssumption DEF SetInputSignal
      <3>3. remaining' \in Nat /\ runs' \in Nat /\ next' \in Nat \ {0}
        BY <2>2 DEF SetValue, CanSet
      <3>4. DOMAIN values' = DOMAIN values \cup {Target(e)}
        BY <2>2 DEF SetValue
      <3>5. \A s \in DOMAIN values' : values'[s] \in Name \X (1..MaxValues)
        BY <2>2, <3>2 DEF SetValue
      <3>6. UNCHANGED <<environment, table, keys, key, stage>>
        BY <1>4, <2>2 DEF SetInputSignal, SetValue
      <3> QED  BY <1>0, <3>1, <3>3, <3>4, <3>5, <3>6
    <2>3. CASE Refuse(e)
      BY <1>0, <1>4, <2>3 DEF SetInputSignal, Refuse
    <2> QED  BY <2>1, <2>2, <2>3
  <1>5. CASE NextKey
    BY <1>0, <1>5 DEF NextKey
  <1>6. CASE Finish
    BY <1>0, <1>6 DEF Finish
  <1>7. CASE UNCHANGED vars
    BY <1>0, <1>7 DEF vars
  <1> QED
    BY <1>1, <1>2, <1>3, <1>4, <1>5, <1>6, <1>7 DEF Next, Ended

\* The table is filled before the loader reads it, and an entry once placed
\* stays reachable: the next one takes a slot that was empty.
LEMMA TableStep ==
    ASSUME Inv, [Next]_vars
    PROVE  TableInv'
  <1> USE DEF Inv
  <1>0. UNCHANGED <<entries, hash, doc>>
    BY EnvironmentFixed DEF environment
  <1>1. CASE Insert
    <2>1. PICK k \in Slot : LET h == hash[entries[next].name] IN
             /\ table[At(h, k)] = 0
             /\ \A j \in 0..k - 1 : table[At(h, j)] # 0
             /\ table' = [table EXCEPT ![At(h, k)] = next]
      BY <1>1 DEF Insert, FirstFree
    <2> DEFINE h == hash[entries[next].name]  s == At(h, k)
    <2>2. /\ next \in DOMAIN entries /\ next' = next + 1 /\ next \in Nat \ {0}
          /\ stage = "build" /\ stage' = "build" /\ next' <= Len(entries) + 1
      BY <1>1, EntryType, CircuitsAssumption DEF Insert, TypeOK
    <2>3. /\ \A e \in DOMAIN entries : entries[e].name \in Name
                                     /\ hash[entries[e].name] \in Hashes
          /\ \A e \in DOMAIN entries : e \in Nat \ {0}
      BY EntryType DEF TypeOK
    <2>4. \A m \in Slot : \A j \in 0..m - 1 : j \in Slot
      BY CircuitsAssumption DEF Slot
    <2>5. \A e \in DOMAIN entries : \A j \in Slot : At(hash[entries[e].name], j) \in Slot
      BY <2>3, AtType
    <2>6. s \in Slot /\ table[s] = 0
      BY <2>1, <2>2, <2>5
    <2>7. \A t \in Slot : table'[t] = IF t = s THEN next ELSE table[t]
      BY <2>1, <2>6 DEF TypeOK
    <2>8. \A t \in Slot : table[t] # 0 => table'[t] = table[t] /\ table[t] < next
      BY <2>2, <2>6, <2>7 DEF TableInv, Inserted
    <2>9. ASSUME NEW t \in Slot, table'[t] # 0
          PROVE  Inserted(table[t])'
      <3>1. table'[t] \in DOMAIN entries /\ table'[t] < next'
        <4>1. CASE t = s
          BY <2>2, <2>7, <4>1
        <4>2. CASE t # s
          BY <2>2, <2>3, <2>7, <2>8, <2>9, <4>2 DEF TypeOK
        <4> QED  BY <4>1, <4>2
      <3> QED  BY <1>0, <3>1 DEF Inserted
    <2>10. ASSUME NEW e \in DOMAIN entries, Inserted(e)'
           PROVE  Placed(e)'
      <3>1. \A m : At(hash[entries[e].name], m)' = At(hash[entries[e].name], m)
        BY <1>0 DEF At
      <3>2. CASE e = next
        <4>1. table'[s] = e
          BY <2>6, <2>7, <3>2
        <4>2. ASSUME NEW j \in 0..k - 1  PROVE  table'[At(h, j)] \notin {0, e}
          <5>1. At(h, j) \in Slot /\ table[At(h, j)] # 0
            BY <2>1, <2>2, <2>4, <2>5
          <5> QED  BY <2>2, <2>3, <2>8, <3>2, <5>1 DEF TypeOK
        <4> QED  BY <1>0, <3>1, <3>2, <4>1, <4>2 DEF Placed, Slot
      <3>3. CASE e # next
        <4>1. Inserted(e)
          BY <1>0, <2>2, <2>3, <2>10, <3>3 DEF Inserted
        <4>2. PICK m \in Slot : LET g == hash[entries[e].name] IN
                 /\ table[At(g, m)] = e
                 /\ \A j \in 0..m - 1 : table[At(g, j)] \notin {0, e}
          BY <4>1 DEF TableInv, Placed
        <4> DEFINE g == hash[entries[e].name]
        <4>3. table'[At(g, m)] = e
          BY <2>3, <2>5, <2>8, <4>2
        <4>4. ASSUME NEW j \in 0..m - 1  PROVE  table'[At(g, j)] \notin {0, e}
          <5>1. At(g, j) \in Slot /\ table[At(g, j)] # 0
            BY <2>4, <2>5, <4>2
          <5> QED  BY <2>8, <4>2, <5>1
        <4> QED  BY <1>0, <3>1, <4>3, <4>4 DEF Placed, Slot
      <3> QED  BY <3>2, <3>3
    <2>11. /\ \A a, b \in Name : hash'[a] = hash'[b] => a = b
           /\ doc' \in [DOMAIN doc' -> 0..MaxValues]
      BY <1>0 DEF TableInv
    <2> QED  BY <1>0, <2>2, <2>9, <2>10, <2>11 DEF TableInv, Slot
  <1>2. ASSUME table' = table, stage' # "build", stage = "build" => next > Len(entries)
        PROVE  TableInv'
    <2>1. \A e \in DOMAIN entries : Inserted(e) /\ Inserted(e)'
      BY <1>0, <1>2, EntryType DEF Inserted, TypeOK
    <2>2. \A e \in DOMAIN entries : Placed(e)' = Placed(e)
      BY <1>0, <1>2 DEF Placed, At, Slot
    <2>3. ASSUME NEW t \in Slot, table'[t] # 0
          PROVE  Inserted(table[t])'
      <3>1. table'[t] \in DOMAIN entries
        BY <1>2, <2>3 DEF TypeOK
      <3> QED  BY <1>0, <1>2, <3>1 DEF Inserted
    <2>4. /\ \A a, b \in Name : hash'[a] = hash'[b] => a = b
          /\ doc' \in [DOMAIN doc' -> 0..MaxValues]
      BY <1>0 DEF TableInv
    <2> QED  BY <1>0, <1>2, <2>1, <2>2, <2>3, <2>4 DEF TableInv, Slot
  <1>3. CASE UNCHANGED vars
    BY <1>3 DEF vars, TableInv, Inserted, Placed, At, Slot
  <1>4. CASE Start \/ (\E n \in Name : VisitKey(n)) \/ SetInputSignal \/ NextKey \/ Finish
    <2>1. /\ table' = table /\ stage' # "build"
          /\ stage = "build" => next > Len(entries)
      BY <1>4 DEF Start, VisitKey, SetInputSignal, SetValue, Refuse, NextKey, Finish
    <2> QED  BY <1>2, <2>1
  <1> QED  BY <1>1, <1>3, <1>4 DEF Next, Ended

-----------------------------------------------------------------------------
(* The counter and the runs *)

\* Once the table is built, a lookup of the hash of a key finds the entry of
\* that name and no other.
LEMMA LookupIsByName ==
    ASSUME TypeOK, TableInv, stage # "build", NEW n \in Name, NEW e \in DOMAIN entries
    PROVE  Found(hash[n], e) <=> entries[e].name = n
  BY LookupFinds DEF EntriesFound

\* In a document that names no signal twice the next value of the key being
\* visited is for a signal nothing has set.
LEMMA FreshTarget ==
    ASSUME TypeOK, LoaderInv, Disjoint, stage = "values", next <= doc[key],
           NEW e \in DOMAIN entries, entries[e].name = key
    PROVE  Target(e) \notin DOMAIN values
  <1> SUFFICES ASSUME Target(e) \in DOMAIN values  PROVE  FALSE
    OBVIOUS
  <1>1. key \in Visited /\ key \in DOMAIN doc /\ entries[e].size = doc[key]
    BY EntryType DEF LoaderInv, Visited, Fits, TypeOK
  <1>2. /\ next \in 1..entries[e].size /\ entries[e].start \in Nat
        /\ entries[e].size \in Nat /\ next \in Nat
    BY <1>1, EntryType DEF TypeOK
  <1>3. PICK f \in DOMAIN entries :
           /\ entries[f].name = values[Target(e)][1]
           /\ values[Target(e)][1] \in Visited
           /\ values[Target(e)][2] \in 1..entries[f].size
           /\ Target(e) = entries[f].start + values[Target(e)][2] - 1
    BY DEF LoaderInv
  <1> DEFINE m == values[Target(e)][1]
  <1>4. m # key
    <2> SUFFICES ASSUME m = key  PROVE  FALSE
      OBVIOUS
    <2>1. values[Target(e)][2] < next
      BY DEF LoaderInv
    <2>2. f = e
      BY <1>3, EntryType DEF TypeOK
    <2>3. values[Target(e)][2] = next
      BY <1>2, <1>3, <2>2 DEF Target
    <2> QED  BY <1>2, <2>1, <2>3
  <1>5. Target(e) \in Signals(e) /\ Target(e) \in Signals(f)
    <2>1. entries[f].start \in Nat /\ entries[f].size \in Nat
      BY EntryType DEF TypeOK
    <2>2. Target(e) \in Signals(e)
      BY <1>2 DEF Target, Signals
    <2>3. PICK p \in 1..entries[f].size : Target(e) = entries[f].start + p - 1
      BY <1>3
    <2>4. Target(e) \in Signals(f)
      BY <2>1, <2>3 DEF Signals
    <2> QED  BY <2>2, <2>4
  <1>6. m \in DOMAIN doc
    BY <1>3 DEF Visited
  <1> QED  BY <1>1, <1>3, <1>4, <1>5, <1>6 DEF Disjoint

\* No signal is set twice where C++ refuses it or the document never asks it.
LEMMA SetFresh ==
    ASSUME TypeOK, TableInv, LoaderInv, SetsOnce, NEW e \in DOMAIN entries,
           stage = "values", next <= doc[key], Found(hash[key], e), CanSet(e)
    PROVE  Target(e) \notin DOMAIN values
  <1>1. entries[e].name = key
    BY LookupIsByName DEF TypeOK
  <1> QED  BY <1>1, FreshTarget DEF SetsOnce, CanSet

\* inputSignalAssignedCounter counts the input signals not yet set, if none is
\* set twice, and the circuit has run, once, when it is zero.
LEMMA CountStep ==
    ASSUME Inv, [Next]_vars
    PROVE  CountInv'
  <1> USE DEF Inv
  <1>0. UNCHANGED <<entries, doc>> /\ InSignals' = InSignals /\ SetsOnce' = SetsOnce
    BY EnvironmentFixed DEF environment
  <1>1. IsFiniteSet(InSignals)
    BY InSignalsFinite DEF TypeOK
  <1>2. CASE Start
    <2>1. /\ runs = 0 /\ DOMAIN values = {} /\ values' = values /\ remaining' = remaining
          /\ stage' = "keys"
          /\ runs' = IF remaining = 0 /\ (program = "wasm" \/ doc = <<>>) THEN 1 ELSE 0
      BY <1>2 DEF Start, CountInv
    <2>2. remaining = 0 <=> InSignals = {}
      <3>1. stage = "build"
        BY <1>2 DEF Start
      <3> QED  BY <1>1, <3>1, FS_EmptySet DEF CountInv
    <2>3. DOMAIN doc = {} => doc = <<>>
      BY DEF TableInv
    <2> QED  BY <1>0, <2>1, <2>2, <2>3 DEF CountInv
  <1>3. ASSUME NEW e \in DOMAIN entries, SetInputSignal, Found(hash[key], e), SetValue(e)
        PROVE  CountInv'
    <2>1. /\ stage' = stage /\ stage # "build" /\ remaining > 0 /\ remaining' = remaining - 1
          /\ runs' = IF remaining' = 0 THEN runs + 1 ELSE runs
          /\ DOMAIN values' = DOMAIN values \cup {Target(e)}
          /\ SetsOnce => Target(e) \notin DOMAIN values
      BY <1>3, SetFresh DEF SetInputSignal, SetValue, CanSet
    <2>2. Target(e) \in InSignals
      <3>1. /\ entries[e].start \in Nat /\ entries[e].size \in Nat
            /\ next \in Nat \ {0} /\ next <= entries[e].size
        BY <1>3, EntryType DEF SetValue, CanSet, TypeOK
      <3>2. Target(e) \in Signals(e)
        BY <3>1 DEF Target, Signals
      <3> QED  BY <3>2 DEF InSignals
    <2>3. SetsOnce => remaining' = Cardinality((InSignals \ DOMAIN values) \ {Target(e)})
      <3>1. IsFiniteSet(InSignals \ DOMAIN values)
        BY <1>1, FS_Difference
      <3> QED  BY <2>1, <2>2, <3>1, FS_RemoveElement DEF CountInv
    <2>4. InSignals' \ DOMAIN values' = (InSignals \ DOMAIN values) \ {Target(e)}
      BY <1>0, <2>1
    <2>5. runs = 0
      BY <2>1 DEF CountInv
    <2>6. SetsOnce => remaining' = Cardinality(InSignals' \ DOMAIN values')
      BY <2>3, <2>4
    <2>7. runs' \in {0, 1} /\ (runs' = 1 <=> remaining' = 0)
      BY <2>1, <2>5 DEF TypeOK
    <2> QED  BY <1>0, <2>1, <2>2, <2>6, <2>7 DEF CountInv
  <1>4. CASE \E n \in Name : VisitKey(n)
    BY <1>0, <1>4 DEF VisitKey, CountInv
  <1>5. CASE \E e \in DOMAIN entries : SetInputSignal /\ Refuse(e)
    BY <1>0, <1>5 DEF SetInputSignal, Refuse, CountInv
  <1>6. CASE Insert \/ NextKey \/ Finish
    BY <1>0, <1>6 DEF Insert, NextKey, Finish, CountInv
  <1>7. CASE UNCHANGED vars
    BY <1>0, <1>7 DEF vars, CountInv
  <1>8. SetInputSignal =>
          \E e \in DOMAIN entries :
             SetInputSignal /\ Found(hash[key], e) /\ (SetValue(e) \/ Refuse(e))
    BY DEF SetInputSignal
  <1> QED  BY <1>2, <1>3, <1>4, <1>5, <1>6, <1>7, <1>8 DEF Next, Ended

-----------------------------------------------------------------------------
(* The loader *)

\* What the loader has set so far is what the document says of the keys it has
\* visited, each value at its place.
LEMMA LoaderStep ==
    ASSUME Inv, [Next]_vars
    PROVE  LoaderInv'
  <1> USE DEF Inv
  <1>0. UNCHANGED <<entries, hash, doc>> /\ SetsOnce' = SetsOnce
    BY EnvironmentFixed DEF environment
  <1>1. CASE Insert
    BY <1>0, <1>1 DEF Insert, LoaderInv, Visited, Fits, SetBy
  <1>2. CASE Start
    <2>1. keys' = DOMAIN doc /\ stage' = "keys" /\ values' = values /\ DOMAIN values = {}
      BY <1>2 DEF Start, CountInv
    <2> QED  BY <1>0, <2>1 DEF LoaderInv, Visited
  <1>3. ASSUME NEW n \in Name, VisitKey(n)  PROVE  LoaderInv'
    <2>1. /\ stage = "keys" /\ n \in keys /\ keys' = keys \ {n} /\ key' = n /\ next' = 1
          /\ stage' \in {"values", "error"} /\ values' = values
          /\ stage' = "values" => \E e \in DOMAIN entries :
                Found(hash[n], e) /\ doc[n] = entries[e].size
      BY <1>3 DEF VisitKey
    <2>2. Visited' = Visited \cup {n} /\ n \in DOMAIN doc /\ n \notin Visited
      BY <1>0, <2>1 DEF Visited, LoaderInv
    <2>3. stage' = "values" => \E e \in DOMAIN entries : Fits(e, n)
      BY <2>1, LookupIsByName DEF Fits
    <2>4. stage' # "error" => \A m \in Visited' : \E e \in DOMAIN entries : Fits(e, m)'
      BY <1>0, <2>1, <2>2, <2>3 DEF LoaderInv, Fits
    <2>5. \A e \in DOMAIN entries : entries[e].size \in Nat
      BY EntryType DEF TypeOK
    <2>6. \A s \in DOMAIN values : values[s][1] # n
      BY <2>2 DEF LoaderInv
    <2>7. ASSUME SetsOnce, NEW m \in Visited, NEW e \in DOMAIN entries, entries[e].name = m,
                 NEW p \in 1..entries[e].size
          PROVE  SetBy(entries[e].start + p - 1, m, p)'
      <3>1. SetBy(entries[e].start + p - 1, m, p)
        BY <2>1, <2>7 DEF LoaderInv
      <3> QED  BY <1>0, <2>1, <3>1 DEF SetBy
    <2> QED  BY <1>0, <2>1, <2>2, <2>4, <2>5, <2>6, <2>7 DEF LoaderInv
  <1>4. ASSUME NEW e \in DOMAIN entries, SetInputSignal, Found(hash[key], e), SetValue(e)
        PROVE  LoaderInv'
    <2> DEFINE t == Target(e)
    <2>1. /\ stage = "values" /\ stage' = stage /\ keys' = keys /\ key' = key
          /\ next' = next + 1 /\ next <= entries[e].size
          /\ SetsOnce => t \notin DOMAIN values
          /\ t = entries[e].start + next - 1
          /\ DOMAIN values' = DOMAIN values \cup {t} /\ values'[t] = <<key, next>>
          /\ \A s \in DOMAIN values : s # t => values'[s] = values[s]
      BY <1>4, SetFresh DEF SetInputSignal, SetValue, CanSet, Target
    <2>2. entries[e].name = key
      BY <1>4, <2>1, LookupIsByName DEF TypeOK
    <2>3. /\ \A f \in DOMAIN entries : entries[f].name = key => f = e
          /\ entries[e].start \in Nat /\ entries[e].size \in Nat /\ next \in Nat \ {0}
      BY <2>2, EntryType DEF TypeOK
    <2>4. Visited' = Visited /\ key \in Visited
      BY <1>0, <2>1 DEF Visited, LoaderInv
    <2>5. SetsOnce => \A s, n, p : SetBy(s, n, p) => SetBy(s, n, p)'
      BY <2>1 DEF SetBy
    <2>6. \A s \in DOMAIN values' : \E f \in DOMAIN entries' :
             /\ entries'[f].name = values'[s][1]
             /\ values'[s][1] \in Visited'
             /\ values'[s][2] \in 1..entries'[f].size
             /\ s = entries'[f].start + values'[s][2] - 1
      <3>1. ASSUME NEW s \in DOMAIN values, s # t
            PROVE  \E f \in DOMAIN entries' :
                      /\ entries'[f].name = values'[s][1]
                      /\ values'[s][1] \in Visited'
                      /\ values'[s][2] \in 1..entries'[f].size
                      /\ s = entries'[f].start + values'[s][2] - 1
        BY <1>0, <2>1, <2>4, <3>1 DEF LoaderInv
      <3>2. /\ entries'[e].name = values'[t][1]
            /\ values'[t][1] \in Visited'
            /\ values'[t][2] \in 1..entries'[e].size
            /\ t = entries'[e].start + values'[t][2] - 1
        BY <1>0, <2>1, <2>2, <2>3, <2>4
      <3> QED  BY <1>0, <2>1, <3>1, <3>2
    <2>7. SetsOnce => \A p \in 1..next' - 1 : SetBy(entries[e].start + p - 1, key, p)'
      <3>1. ASSUME SetsOnce, NEW p \in 1..next' - 1
            PROVE  SetBy(entries[e].start + p - 1, key, p)'
        <4>1. CASE p = next
          BY <1>0, <2>1, <4>1 DEF SetBy
        <4>2. CASE p # next
          <5>1. p \in 1..next - 1
            BY <2>1, <2>3, <4>2
          <5>2. SetBy(entries[e].start + p - 1, key, p)
            BY <2>1, <2>2, <3>1, <5>1 DEF LoaderInv
          <5> QED  BY <1>0, <2>1, <2>5, <3>1, <5>2
        <4> QED  BY <4>1, <4>2
      <3> QED  BY <3>1
    <2>8. \A s \in DOMAIN values' : values'[s][1] = key => values'[s][2] < next'
      <3>1. \A s \in DOMAIN values : values[s][1] = key => values[s][2] < next
        BY <2>1, <2>2 DEF LoaderInv
      <3>2. \A s \in DOMAIN values : values[s][2] \in Nat
        BY DEF TypeOK
      <3> QED  BY <2>1, <2>3, <3>1, <3>2
    <2>9. SetsOnce => \A n \in Visited : \A f \in DOMAIN entries :
             entries[f].name = n /\ n # key =>
                \A p \in 1..entries[f].size : SetBy(entries[f].start + p - 1, n, p)'
      BY <1>0, <2>1, <2>5 DEF LoaderInv
    <2>10. keys \subseteq DOMAIN doc /\ \A n \in Visited : \E f \in DOMAIN entries : Fits(f, n)
      BY <2>1 DEF LoaderInv
    <2>11. keys' \subseteq DOMAIN doc' /\ \A n \in Visited' : \E f \in DOMAIN entries' : Fits(f, n)'
      BY <1>0, <2>1, <2>4, <2>10 DEF Fits
    <2> QED
      BY <1>0, <2>1, <2>2, <2>3, <2>4, <2>6, <2>7, <2>8, <2>9, <2>11 DEF LoaderInv
  <1>5. ASSUME NEW e \in DOMAIN entries, SetInputSignal, Refuse(e)  PROVE  LoaderInv'
    BY <1>0, <1>5 DEF SetInputSignal, Refuse, LoaderInv, Visited
  <1>6. CASE NextKey
    <2>1. /\ stage = "values" /\ next > doc[key] /\ stage' = "keys"
          /\ UNCHANGED <<keys, values>> /\ Visited' = Visited
      BY <1>0, <1>6 DEF NextKey, Visited
    <2>2. ASSUME SetsOnce, NEW n \in Visited, NEW e \in DOMAIN entries, entries[e].name = n,
                 NEW p \in 1..entries[e].size
          PROVE  SetBy(entries[e].start + p - 1, n, p)'
      <3>1. CASE n = key
        <4>1. entries[e].size = doc[n]
          BY <2>1, <2>2, EntryType DEF LoaderInv, Fits, TypeOK
        <4>2. p \in 1..next - 1
          BY <2>1, <3>1, <4>1, EntryType DEF TypeOK
        <4> QED  BY <1>0, <2>1, <2>2, <3>1, <4>2 DEF LoaderInv, SetBy
      <3>2. CASE n # key
        BY <1>0, <2>1, <2>2, <3>2 DEF LoaderInv, SetBy
      <3> QED  BY <3>1, <3>2
    <2>3. \A n \in Visited : \E e \in DOMAIN entries : Fits(e, n)'
      BY <1>0, <2>1 DEF LoaderInv, Fits
    <2> QED  BY <1>0, <2>1, <2>2, <2>3 DEF LoaderInv
  <1>7. CASE Finish
    <2>1. /\ stage = "keys" /\ keys = {} /\ keys' = keys /\ values' = values
          /\ remaining' = remaining
          /\ \/ stage' = "done" /\ remaining = 0
             \/ stage' = "error"
      BY <1>7 DEF Finish
    <2>2. /\ Visited' = Visited
          /\ \A e, n : Fits(e, n)' = Fits(e, n)
          /\ \A s, n, p : SetBy(s, n, p)' = SetBy(s, n, p)
      BY <1>0, <2>1 DEF Visited, Fits, SetBy
    <2> QED  BY <1>0, <2>1, <2>2 DEF LoaderInv
  <1>8. CASE UNCHANGED vars
    <2>1. /\ Visited' = Visited
          /\ \A e, n : Fits(e, n)' = Fits(e, n)
          /\ \A s, n, p : SetBy(s, n, p)' = SetBy(s, n, p)
      BY <1>8 DEF vars, Visited, Fits, SetBy
    <2> QED  BY <1>0, <1>8, <2>1 DEF vars, LoaderInv
  <1>9. SetInputSignal => \E e \in DOMAIN entries :
           SetInputSignal /\ Found(hash[key], e) /\ (SetValue(e) \/ Refuse(e))
    BY DEF SetInputSignal
  <1> QED
    BY <1>1, <1>2, <1>3, <1>4, <1>5, <1>6, <1>7, <1>8, <1>9 DEF Next, Ended

-----------------------------------------------------------------------------
(* Which documents are accepted *)

\* The entry of a name is the one element of main_input_list with that name.
LEMMA EntryIs ==
    ASSUME entries \in Circuits, NEW e \in DOMAIN entries
    PROVE  Entry(entries[e].name) = e
  BY EntryType DEF Entry

\* A loader that refuses does so because the document sets a signal twice,
\* leaves one unset, or has a key the circuit does not know with that many
\* values (loadJson, setInputSignal, _doCalculateWitness).
LEMMA RefusalIsRight ==
    ASSUME Inv, [Next]_vars, stage # "error", stage' = "error"
    PROVE  ~CompleteInput
  <1> USE DEF Inv
  <1> SUFFICES ASSUME CompleteInput  PROVE  FALSE
    OBVIOUS
  <1>a. SetsOnce
    BY DEF CompleteInput, SetsOnce
  <1>0. \A n \in DOMAIN doc : \E e \in DOMAIN entries :
           Fits(e, n) /\ e = Entry(n)
    BY EntryIs DEF CompleteInput, Fits, TypeOK
  <1>1. CASE \E n \in Name : VisitKey(n)
    <2>1. PICK n \in Name : VisitKey(n)
      BY <1>1
    <2>2. /\ stage = "keys" /\ n \in DOMAIN doc
          /\ \A e \in DOMAIN entries : Found(hash[n], e) => doc[n] # entries[e].size
      BY <2>1 DEF VisitKey, LoaderInv
    <2>3. PICK e \in DOMAIN entries : Fits(e, n)
      BY <1>0, <2>2
    <2> QED  BY <2>2, <2>3, LookupIsByName DEF Fits
  <1>2. CASE SetInputSignal
    <2>1. PICK e \in DOMAIN entries : Found(hash[key], e) /\ Refuse(e)
      BY <1>2 DEF SetInputSignal, SetValue
    <2>2. stage = "values" /\ next <= doc[key] /\ key \in Visited /\ key \in Name
      BY <1>2 DEF SetInputSignal, LoaderInv, TypeOK
    <2>3. entries[e].name = key
      BY <2>1, <2>2, LookupIsByName
    <2>4. e = Entry(key) /\ entries[e].size = doc[key] /\ key \in DOMAIN doc
      <3>1. key \in DOMAIN doc
        BY <2>2 DEF Visited
      <3> QED  BY <1>0, <2>3, <3>1, EntryIs DEF Fits, TypeOK
    <2>5. /\ next \in 1..entries[e].size /\ entries[e].start \in Nat
          /\ entries[e].size \in Nat /\ next \in Nat
      BY <2>2, <2>4, EntryType DEF TypeOK
    <2>6. Target(e) \in Signals(e) /\ Target(e) \in InSignals
      BY <2>5 DEF Target, Signals, InSignals
    <2>7. Target(e) \notin DOMAIN values
      BY <2>2, <2>3, FreshTarget DEF CompleteInput
    <2>8. remaining = 0
      BY <2>1, <2>5, <2>7 DEF Refuse, CanSet, TypeOK
    <2>9. IsFiniteSet(InSignals \ DOMAIN values)
      BY InSignalsFinite, FS_Difference DEF TypeOK
    <2>10. InSignals \ DOMAIN values = {}
      BY <1>a, <2>8, <2>9, FS_EmptySet DEF CountInv
    <2> QED  BY <2>6, <2>7, <2>10
  <1>3. CASE Finish
    <2>1. stage = "keys" /\ keys = {} /\ remaining # 0
      BY <1>3 DEF Finish
    <2>2. InSignals \ DOMAIN values # {}
      BY <1>a, <2>1, FS_EmptySet DEF CountInv
    <2>3. PICK s \in InSignals : s \notin DOMAIN values
      BY <2>2
    <2>4. PICK n \in DOMAIN doc : s \in Signals(Entry(n))
      BY <2>3 DEF CompleteInput
    <2>5. PICK e \in DOMAIN entries : Fits(e, n) /\ e = Entry(n)
      BY <1>0
    <2>6. /\ s - entries[e].start + 1 \in 1..entries[e].size
          /\ s = entries[e].start + (s - entries[e].start + 1) - 1
      BY <2>4, <2>5, EntryType DEF Signals, TypeOK
    <2>7. n \in Visited
      BY <2>1 DEF Visited
    <2>8. SetBy(s, n, s - entries[e].start + 1)
      BY <1>a, <2>1, <2>5, <2>6, <2>7 DEF LoaderInv, Fits
    <2> QED  BY <2>3, <2>8 DEF SetBy
  <1> QED
    BY <1>1, <1>2, <1>3 DEF Next, vars, Insert, Start, NextKey, Ended

\* A document the loader reads to its end, with no signal missing and none set
\* twice, sets every input signal once.
LEMMA AcceptanceIsRight ==
    ASSUME Inv, SetsOnce, stage = "done"
    PROVE  CompleteInput
  <1> USE DEF Inv
  <1>1. keys = {} /\ remaining = 0 /\ Visited = DOMAIN doc
    BY DEF LoaderInv, Visited
  <1>2. InSignals \subseteq DOMAIN values
    <2>1. IsFiniteSet(InSignals \ DOMAIN values)
      BY InSignalsFinite, FS_Difference DEF TypeOK
    <2> QED  BY <1>1, <2>1, FS_EmptySet DEF CountInv
  <1>3. \A n \in DOMAIN doc : \E e \in DOMAIN entries : Fits(e, n) /\ e = Entry(n)
    BY <1>1, EntryIs DEF LoaderInv, Fits, TypeOK
  <1>4. ASSUME NEW n \in DOMAIN doc, NEW s \in Signals(Entry(n))
        PROVE  s \in InSignals /\ values[s][1] = n
    <2>1. PICK e \in DOMAIN entries : Fits(e, n) /\ e = Entry(n)
      BY <1>3
    <2>2. /\ s - entries[e].start + 1 \in 1..entries[e].size
          /\ s = entries[e].start + (s - entries[e].start + 1) - 1
      BY <1>4, <2>1, EntryType DEF Signals, TypeOK
    <2>3. SetBy(s, n, s - entries[e].start + 1)
      BY <1>1, <2>1, <2>2 DEF LoaderInv, Fits
    <2> QED  BY <1>4, <2>1, <2>3 DEF SetBy, InSignals
  <1>5. ASSUME NEW s \in InSignals
        PROVE  \E n \in DOMAIN doc : s \in Signals(Entry(n))
    <2>1. s \in DOMAIN values
      BY <1>2
    <2>2. PICK e \in DOMAIN entries :
             /\ entries[e].name = values[s][1]
             /\ values[s][1] \in DOMAIN doc
             /\ values[s][2] \in 1..entries[e].size
             /\ s = entries[e].start + values[s][2] - 1
      BY <1>1, <2>1 DEF LoaderInv
    <2>3. s \in Signals(e) /\ e = Entry(values[s][1])
      BY <2>2, EntryIs, EntryType DEF Signals, TypeOK
    <2> QED  BY <2>2, <2>3
  <1>6. Disjoint
    <2> SUFFICES ASSUME NEW m \in DOMAIN doc, NEW n \in DOMAIN doc, m # n,
                        NEW e \in DOMAIN entries, NEW f \in DOMAIN entries,
                        entries[e].name = m, entries[f].name = n,
                        NEW s \in Signals(e), s \in Signals(f)
                 PROVE  FALSE
      BY DEF Disjoint
    <2>1. e = Entry(m) /\ f = Entry(n)
      BY EntryIs DEF TypeOK
    <2> QED  BY <1>4, <2>1
  <1>7. UNION {Signals(Entry(n)) : n \in DOMAIN doc} = InSignals
    BY <1>4, <1>5
  <1> QED  BY <1>3, <1>6, <1>7 DEF CompleteInput, Fits

-----------------------------------------------------------------------------
(* The theorems *)

LoaderIInv == Inv /\ (stage = "error" => ~CompleteInput)

\* The inductive invariant of the table and the loader.
THEOREM InputsInv == Spec => []LoaderIInv
  <1>1. Init => LoaderIInv
    BY InitInv DEF LoaderIInv, Init
  <1>2. LoaderIInv /\ [Next]_vars => LoaderIInv'
    <2> SUFFICES ASSUME LoaderIInv, [Next]_vars  PROVE  LoaderIInv'
      OBVIOUS
    <2>1. Inv'
      BY TypeStep, TableStep, CountStep, LoaderStep DEF LoaderIInv, Inv
    <2>2. stage' = "error" => ~CompleteInput
      BY RefusalIsRight DEF LoaderIInv
    <2>3. CompleteInput' = CompleteInput
      <3>1. UNCHANGED <<entries, doc, InSignals>> /\ Disjoint' = Disjoint
        BY EnvironmentFixed DEF environment
      <3>2. \A n : Entry(n)' = Entry(n)
        BY <3>1, Zenon DEF Entry
      <3>3. \A e : Signals(e)' = Signals(e)
        BY <3>1 DEF Signals
      <3>4. {Signals(Entry(n)) : n \in DOMAIN doc}' = {Signals(Entry(n)) : n \in DOMAIN doc}
        BY <3>1, <3>2, <3>3
      <3> QED  BY <3>1, <3>2, <3>3, <3>4 DEF CompleteInput
    <2> QED  BY <2>1, <2>2, <2>3 DEF LoaderIInv
  <1> QED  BY <1>1, <1>2, PTL DEF Spec

\* For every circuit, placement of the names in the table and document, both
\* programs accept the documents that set each input signal exactly once, C++ no
\* others, and WebAssembly none of the others that name no signal twice
\* (generate_hash_map, loadJson, setInputSignal).
THEOREM AcceptsCompleteInputsHolds == Spec => []AcceptsCompleteInputs
  <1>1. LoaderIInv => AcceptsCompleteInputs
    BY LookupFinds, AcceptanceIsRight DEF LoaderIInv, Inv, AcceptsCompleteInputs
  <1> QED  BY <1>1, InputsInv, PTL

\* Where no signal is set twice the circuit never runs before every input signal
\* is set (setInputSignal's test of inputSignalAssignedCounter); every signal
\* that is set holds a value the document gives it.
THEOREM RunsOnAllInputsHolds == Spec => []RunsOnAllInputs
  <1>1. LoaderIInv => RunsOnAllInputs
    <2> SUFFICES ASSUME Inv  PROVE  RunsOnAllInputs
      BY DEF LoaderIInv
    <2>1. ASSUME runs > 0, SetsOnce  PROVE  InSignals \subseteq DOMAIN values
      <3>1. remaining = 0
        BY <2>1 DEF Inv, CountInv
      <3>2. IsFiniteSet(InSignals \ DOMAIN values)
        BY InSignalsFinite, FS_Difference DEF Inv, TypeOK
      <3> QED  BY <2>1, <3>1, <3>2, FS_EmptySet DEF Inv, CountInv
    <2>2. ASSUME NEW s \in DOMAIN values
          PROVE  \E e \in DOMAIN entries :
                    /\ values[s][1] \in DOMAIN doc
                    /\ values[s][1] = entries[e].name
                    /\ s = entries[e].start + values[s][2] - 1
      BY DEF Inv, LoaderInv, Visited
    <2> QED  BY <2>1, <2>2 DEF RunsOnAllInputs
  <1> QED  BY <1>1, InputsInv, PTL

\* Unless a circuit has an input of size zero, a witness is written only of a
\* circuit that has run exactly once: by the last setInputSignal, or by the start
\* if it has no inputs.
THEOREM WitnessIsComputedHolds ==
    ASSUME \A ents \in Circuits : \A e \in DOMAIN ents : ents[e].size # 0
    PROVE  Spec => []WitnessIsComputed
  <1>1. LoaderIInv => WitnessIsComputed
    <2> SUFFICES ASSUME Inv  PROVE  WitnessIsComputed
      BY DEF LoaderIInv
    <2> USE DEF Inv
    <2>1. ASSUME stage = "done"  PROVE  runs = 1
      <3>1. remaining = 0
        BY <2>1 DEF LoaderInv
      <3>2. CASE InSignals # {}
        BY <2>1, <3>1, <3>2 DEF CountInv
      <3>3. CASE InSignals = {}
        <4>1. ASSUME NEW e \in DOMAIN entries  PROVE  FALSE
          <5>1. entries[e].start \in Signals(e)
            BY EntryType DEF Signals, TypeOK
          <5> QED  BY <3>3, <5>1 DEF InSignals
        <4>2. DOMAIN doc = {}
          BY <2>1, <4>1 DEF LoaderInv, Visited
        <4> QED  BY <2>1, <3>3, <4>2 DEF CountInv
      <3> QED  BY <3>2, <3>3
    <2> QED  BY <2>1 DEF CountInv, WitnessIsComputed
  <1> QED  BY <1>1, InputsInv, PTL

=============================================================================
