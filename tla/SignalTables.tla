----------------------------- MODULE SignalTables -----------------------------
(***************************************************************************)
(* How generated code finds a signal.  For a component whose template is   *)
(* known the address is computed by the compiler (compute_full_address in  *)
(* src/compiler/src/intermediate_representation/translate.rs).  In an      *)
(* array of components of several templates it is looked up at run time,   *)
(* in tables of the inputs and outputs of each template instance and of    *)
(* the fields of each bus: written to the .dat file and parsed by main.cpp *)
(* in C++, laid out in linear memory in WebAssembly.  A table is a         *)
(* sequence of words; the factor that turns a number of signals into bytes *)
(* is the same everywhere and is left out.                                 *)
(***************************************************************************)
EXTENDS SignalNumbering

-----------------------------------------------------------------------------
\* Addresses the compiler computes.

\* Indexes over an object of the given size: the rest of the size per step.
Jump(size, dims, idx) ==
    FoldLeft(LAMBDA s, k : [rest |-> s.rest \div dims[k],
                            at |-> s.at + idx[k] * (s.rest \div dims[k])],
             [rest |-> size, at |-> 0], [k \in 1 .. Len(idx) |-> k]).at

RECURSIVE FieldJumps(_, _, _)
\* The rest of an access inside a bus, one field after the other.
FieldJumps(bus, sym, k) ==
    IF k > Len(sym.fields) THEN 0
    ELSE LET f == FieldInfo(bus, sym.fields[k])
         IN  f.offset + Jump(f.size, f.dims, sym.idx[k + 1]) + FieldJumps(f.bus, sym, k + 1)

WireOf(inst, name) ==
    inst.wires[CHOOSE k \in 1 .. Len(inst.wires) : inst.wires[k].name = name]

\* initialize_signals and compute_full_address.
FullAddress(inst, sym) ==
    LET w == WireOf(inst, sym.wire)
    IN  w.id + Jump(WireSize(w), w.dims, sym.idx[1]) + FieldJumps(w.bus, sym, 1)

\* TemplateDB: a wire's code is its place in the first instance of the name.
SignalCode(name, wire) ==
    LET first == Min({i \in 1 .. Len(insts) : insts[i].name = name})
    IN  Min({k \in 1 .. Len(insts[first].wires) : insts[first].wires[k].name = wire}) - 1

-----------------------------------------------------------------------------
\* The entries: build_input_output_list and get_info_buses.

IoList(inst) ==
    LET external == SelectSeq(inst.wires, LAMBDA w : w.kind # "intermediate")
    IN  [k \in 1 .. Len(external) |->
            [offset |-> external[k].id, dims |-> external[k].dims,
             size |-> WireSize(external[k]) \div Product(external[k].dims),
             bus |-> external[k].bus]]

FieldList(b) ==
    [i \in 1 .. Len(Buses[b]) |->
        LET f == FieldInfo(b, i)
        IN  [offset |-> f.offset, dims |-> f.dims,
             size |-> f.size \div Product(f.dims), bus |-> f.bus]]

\* The instances that are in an array of several templates, in order.
MixedInstances ==
    SelectSeq([i \in 1 .. Len(prog) |-> i], LAMBDA i :
        \E p \in 1 .. Len(prog) : \E k \in 1 .. Len(connexions[p]) :
            /\ connexions[p][k].to = i
            /\ IsMixed(connexions[p], connexions[p][k].cmp))

\* A variant: all dimensions but the last.
StoredFront(dims) == IF dims = <<>> THEN <<>> ELSE Front(dims)

\* The dimensions that are stored: the first is never needed.
Stored(dims) == IF dims = <<>> THEN <<>> ELSE Tail(dims)

\* Buses are numbered from 0 in the code; what is no bus has id 0 or none.
BusId(b) == b - 1

-----------------------------------------------------------------------------
\* C++: the words of the .dat file, and main.cpp reading them back.

DatEntry(e) ==
    <<e.offset, Len(Stored(e.dims))>> \o Stored(e.dims)
        \o <<e.size, IF e.bus = 0 THEN 0 ELSE BusId(e.bus)>>

DatList(entries) ==
    <<Len(entries)>> \o FlattenSeq([k \in 1 .. Len(entries) |-> DatEntry(entries[k])])

\* generate_dat_io_signals_info and generate_dat_bus_field_info.
DatWords ==
    LET mixed == MixedInstances
    IN  mixed
        \o FlattenSeq([k \in 1 .. Len(mixed) |-> DatList(IoList(insts[mixed[k]]))])
        \o FlattenSeq([b \in 1 .. Len(Buses) |-> DatList(FieldList(b))])

RECURSIVE ReadDefs(_, _, _)
\* The loop of main.cpp over the n entries that begin at word p.
ReadDefs(words, p, n) ==
    IF n = 0 THEN [defs |-> <<>>, next |-> p]
    ELSE LET len == words[p + 1]
             q == p + 2 + len
             def == [offset |-> words[p], lengths |-> SubSeq(words, p + 2, p + 1 + len),
                     size |-> words[q], busId |-> words[q + 1]]
             rest == ReadDefs(words, q + 2, n - 1)
         IN  [defs |-> <<def>> \o rest.defs, next |-> rest.next]

RECURSIVE ReadLists(_, _, _)
ReadLists(words, p, n) ==
    IF n = 0 THEN [lists |-> <<>>, next |-> p]
    ELSE LET list == ReadDefs(words, p + 1, words[p])
             rest == ReadLists(words, list.next, n - 1)
         IN  [lists |-> <<list.defs>> \o rest.lists, next |-> rest.next]

\* main.cpp reads nothing, not even the buses, if the map has no entry.
LoadedTables ==
    LET n == Len(MixedInstances)
        words == DatWords
        io == ReadLists(words, n + 1, n)
        fields == ReadLists(words, io.next, Len(Buses))
    IN  IF n = 0 THEN [io |-> <<>>, fields |-> <<>>]
        ELSE [io |-> [i \in {words[k] : k \in 1 .. n} |->
                        io.lists[CHOOSE k \in 1 .. n : words[k] = i]],
              fields |-> fields.lists]

\* The dimensions an access leaves open.
Missing(lengths, idx) == Product(SubSeq(lengths, Len(idx), Len(lengths)))

\* The element that all indexes but the last select, in steps of the last.
Before(lengths, idx) ==
    FoldLeft(LAMBDA n, i : (n + idx[i]) * lengths[i], 0, [i \in 1 .. Len(idx) - 1 |-> i])

(***************************************************************************)
(* The offset of an indexed access.  The expressions are strung together:  *)
(* where several indexes give a sum without parentheses, what is appended  *)
(* to it multiplies the last index only.  load_bucket.rs puts them before  *)
(* the size, but not before the open dimensions; store_bucket.rs never.    *)
(***************************************************************************)
IndexedFromC(access, def, idx) ==
    LET before == Before(def.lengths, idx)
        last == Last(idx) * Missing(def.lengths, idx)
    IN  IF access = "load" THEN (before + last) * def.size ELSE before + last * def.size

\* An access of generated C++: one step per index list or field.
RECURSIVE MappedFromC(_, _, _, _, _)
MappedFromC(fields, access, def, sym, k) ==
    LET idx == sym.idx[k]
        indexed == IF idx = <<>> THEN 0 ELSE IndexedFromC(access, def, idx)
    IN  IF k > Len(sym.fields) THEN indexed
        ELSE LET next == fields[def.busId + 1][sym.fields[k]]
             IN  indexed + next.offset + MappedFromC(fields, access, next, sym, k + 1)

MappedAddressC(tables, access, i, code, sym) ==
    LET def == tables.io[i][code + 1]
    IN  def.offset + MappedFromC(tables.fields, access, def, sym, 1)

-----------------------------------------------------------------------------
\* WebAssembly: six tables of words, one behind the other, from word 1.

WasmEntry(e) ==
    <<e.offset>> \o (IF e.dims = <<>> THEN <<>> ELSE Stored(e.dims) \o <<e.size>>)
        \o (IF e.bus = 0 THEN <<>> ELSE <<BusId(e.bus)>>)

\* What generate_data_io_signals_to_info and _field_to_info advance by.
EntryWidth(e) == 1 + (IF e.dims = <<>> THEN 0 ELSE Len(e.dims)) + Count(e.bus # 0)

\* The words before each of several blocks, from word start on.
Starts(start, widths) ==
    [k \in 1 .. Len(widths) |->
        start + FoldLeft(LAMBDA n, w : n + w, 0, SubSeq(widths, 1, k - 1))]

SumOf(widths) == FoldLeft(LAMBDA n, w : n + w, 0, widths)

WasmTables ==
    LET ioOf(i) == IF \E k \in 1 .. Len(MixedInstances) : MixedInstances[k] = i
                   THEN IoList(insts[i]) ELSE <<>>
        io == [i \in 1 .. Len(insts) |-> ioOf(i)]
        fields == [b \in 1 .. Len(Buses) |-> FieldList(b)]
        lengths(lists) == [k \in 1 .. Len(lists) |-> Len(lists[k])]
        entries(lists) == FlattenSeq(lists)
        widths(lists) == [k \in 1 .. Len(entries(lists)) |-> EntryWidth(entries(lists)[k])]
        data(lists) == FlattenSeq([k \in 1 .. Len(entries(lists)) |->
                                       WasmEntry(entries(lists)[k])])
        ioSignals == 1 + Len(io)
        ioInfo == ioSignals + SumOf(lengths(io))
        busFields == ioInfo + SumOf(widths(io))
        fieldToInfo == busFields + Len(fields)
        fieldInfo == fieldToInfo + SumOf(lengths(fields))
        pointers(i) == IF io[i] = <<>> THEN 0 ELSE Starts(ioSignals, lengths(io))[i]
    IN  [words |-> [i \in 1 .. Len(io) |-> pointers(i)]
                   \o Starts(ioInfo, widths(io)) \o data(io)
                   \o Starts(fieldToInfo, lengths(fields))
                   \o Starts(fieldInfo, widths(fields)) \o data(fields),
         busFields |-> busFields]

\* Loads and stores of WebAssembly; info is the entry that applies to the indexes,
\* dims the number of dimensions of wire and fields (symbol_dim).
RECURSIVE MappedFromWasm(_, _, _, _, _)
MappedFromWasm(tables, info, sym, dims, k) ==
    LET word(p) == tables.words[p]
        idx == sym.idx[k]
        lengths == [i \in 1 .. dims[k] - 1 |-> word(info + i)]
        element == (Before(lengths, idx) + Last(idx)) * Missing(lengths, idx)
        indexed == IF idx = <<>> THEN 0 ELSE element * word(info + dims[k])
        busId == IF idx = <<>> THEN word(info + 1) ELSE word(info + dims[k] + 1)
    IN  IF k > Len(sym.fields) THEN indexed
        ELSE LET next == word(word(tables.busFields + busId) + sym.fields[k] - 1)
             IN  indexed + word(next) + MappedFromWasm(tables, next, sym, dims, k + 1)

MappedAddressWasm(tables, i, code, sym, dims) ==
    LET info == tables.words[tables.words[i] + code]
    IN  tables.words[info] + MappedFromWasm(tables, info, sym, dims, 1)
=============================================================================
