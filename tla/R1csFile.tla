------------------------------- MODULE R1csFile -------------------------------
(***************************************************************************)
(* The .r1cs file, byte by byte: R1CSWriter writes the sections one after  *)
(* the other, each with a placeholder for its size that is overwritten     *)
(* when the section ends; any write may fail and leave a part of its bytes *)
(* in the file.  R1CSReader then finds the sections by their sizes and     *)
(* reads them back.                                                        *)
(***************************************************************************)
EXTENDS ConstraintFiles

CONSTANTS
    BitsPerByte,   \* 8 in the code
    BitsPerWord    \* 64 in the code: field elements take whole words

ASSUME FileAssumption ==
    /\ BitsPerByte \in 3 .. 8        \* a byte holds the types of sections
    /\ BitsPerWord % BitsPerByte = 0

VARIABLES
    circuit,   \* the circuit
    file,      \* the bytes on disk
    phase,     \* of the writer: "open", "between", "section", "finished", "failed", "panic"
    sections,  \* the types of the sections that are still to be written
    section,   \* the one being written: where its size goes, its size so far, what is left of it
    reader     \* the reader: where it is, what it is doing, and what it has read

vars == <<circuit, file, phase, sections, section, reader>>

Byte == 2 ^ BitsPerByte

\* The byte number k of n, from 0; to_bytes_le has no zeros at the end, but for 0 itself.
Digit(n, k) == (n \div Byte ^ k) % Byte
BytesOf(n) == LET size == CHOOSE k \in 1 .. 8 : n < Byte ^ k /\ (k = 1 \/ n >= Byte ^ (k - 1))
              IN [k \in 1 .. size |-> Digit(n, k - 1)]
IntoFormat(bytes, size) ==
    bytes \o (IF Len(bytes) < size THEN [k \in 1 .. size - Len(bytes) |-> 0] ELSE <<>>)
AsBytes(n, size) == IntoFormat(BytesOf(n), size)

MAGIC == << 1, 2, 3, 4 >>
VERSION == << 1, 0, 0, 0 >>
PLACE_HOLDER == [k \in 1 .. 8 |-> 3]
Type(t) == << t, 0, 0, 0 >>

Bits(n) == CHOOSE k \in 1 .. 31 : 2 ^ (k - 1) <= n /\ n < 2 ^ k
FieldSize(prime) ==
    IF Bits(prime) % BitsPerWord = 0 THEN Bits(prime) \div BitsPerByte
    ELSE (Bits(prime) \div BitsPerWord + 1) * (BitsPerWord \div BitsPerByte)

-----------------------------------------------------------------------------
(* The content of the sections, as the sequence of what is written at once.  *)

BytesBefore(x, y) == \E k \in 1 .. Len(y) :
    /\ \A i \in 1 .. k - 1 : i <= Len(x) /\ x[i] = y[i]
    /\ k > Len(x) \/ (k <= Len(x) /\ x[k] < y[k])

\* obtain_linear_combination_block: signals in the order of their bytes.
LinearCombination(f, size) ==
    LET order == SetToSortSeq({BytesOf(s) : s \in DOMAIN f}, BytesBefore)
        Signal(b) == CHOOSE s \in DOMAIN f : BytesOf(s) = b
    IN AsBytes(Cardinality(DOMAIN f), 4)
       \o FlattenSeq([k \in DOMAIN order |->
                        IntoFormat(order[k], 4) \o AsBytes(f[Signal(order[k])], size)])

WrittenConstraint(k, size) == FlattenSeq([i \in 1 .. 3 |-> LinearCombination(k[i], size)])

WrittenHeader(h) ==
    AsBytes(FieldSize(h.prime), 4) \o AsBytes(h.prime, FieldSize(h.prime))
    \o AsBytes(h.wires, 4) \o AsBytes(h.outputs, 4) \o AsBytes(h.publicInputs, 4)
    \o AsBytes(h.privateInputs, 4) \o AsBytes(h.labels, 8) \o AsBytes(h.constraints, 4)

WrittenUsages(gates, size) ==
    AsBytes(Len(gates), 4)
    \o FlattenSeq([k \in DOMAIN gates |->
         gates[k][1] \o << 0 >> \o AsBytes(Len(gates[k][2]), 4)
         \o FlattenSeq([i \in DOMAIN gates[k][2] |-> AsBytes(gates[k][2][i], size)])])

WrittenApplications(gates) ==
    AsBytes(Len(gates), 4)
    \o FlattenSeq([k \in DOMAIN gates |->
         AsBytes(gates[k][1], 4) \o AsBytes(Len(gates[k][2]), 4)
         \o FlattenSeq([i \in DOMAIN gates[k][2] |-> AsBytes(gates[k][2][i], 8)])])

Content(type) ==
    LET c == circuit
        size == FieldSize(c.prime)
    IN CASE type = 1 -> << WrittenHeader(Header(c)) >>
         [] type = 2 -> [k \in DOMAIN Constraints(c) |-> WrittenConstraint(Constraints(c)[k], size)]
         [] type = 3 -> [k \in DOMAIN Witness(c) |-> AsBytes(Witness(c)[k], 8)]
         [] type = 4 -> << WrittenUsages(Usages(c), size) >>
         [] type = 5 -> << WrittenApplications(Applications(c)) >>

-----------------------------------------------------------------------------
(* The writer.                                                               *)

NoSection == [size_at |-> 0, size |-> 0, left |-> <<>>]
NoReader == [doing |-> "nothing", at |-> 0, left |-> 0, sections |-> 0, section |-> 0,
             starts |-> <<>>, header |-> <<>>, constraints |-> <<>>, signals |-> <<>>,
             usages |-> <<>>, applications |-> <<>>]

Init ==
    /\ circuit \in Circuits
    /\ file = <<>>
    /\ phase = "open"
    /\ sections = << 2, 1, 3 >> \o (IF circuit.pragma THEN << 4, 5 >> ELSE <<>>)
    /\ section = NoSection
    /\ reader = NoReader

\* The file after bytes are written at a position, counted from 0.
Written(at, bytes) ==
    [k \in 1 .. (IF at + Len(bytes) > Len(file) THEN at + Len(bytes) ELSE Len(file)) |->
       IF k \in at + 1 .. at + Len(bytes) THEN bytes[k - at] ELSE file[k]]

\* The bytes that come next: initialize_file, initialize_section, a part of the content, or
\* the size of the section in place of its placeholder.
Pending ==
    CASE phase = "open"    -> << 0, MAGIC \o VERSION \o Type(Len(sections)) >>
      [] phase = "between" -> << Len(file), Type(Head(sections)) \o PLACE_HOLDER >>
      [] phase = "section" -> IF section.left # <<>> THEN << Len(file), Head(section.left) >>
                              ELSE << section.size_at, AsBytes(section.size, 8) >>

Open ==
    /\ phase = "open"
    /\ file' = Written(Pending[1], Pending[2])
    /\ phase' = "between"
    /\ UNCHANGED <<circuit, sections, section, reader>>

\* start_constraints_section and the others; the applications of gates look up their signals.
StartSection ==
    /\ phase = "between" /\ sections # <<>>
    /\ file' = Written(Pending[1], Pending[2])
    /\ IF Head(sections) = 5 /\ ~GatesHaveWires(circuit)
       THEN phase' = "panic" /\ UNCHANGED section
       ELSE /\ phase' = "section"
            /\ section' = [size_at |-> Len(file) + 4, size |-> 0, left |-> Content(Head(sections))]
    /\ UNCHANGED <<circuit, sections, reader>>

WriteContent ==
    /\ phase = "section" /\ section.left # <<>>
    /\ file' = Written(Pending[1], Pending[2])
    /\ section' = [section EXCEPT !.size = @ + Len(Head(section.left)), !.left = Tail(@)]
    /\ UNCHANGED <<circuit, phase, sections, reader>>

EndSection ==
    /\ phase = "section" /\ section.left = <<>>
    /\ file' = Written(Pending[1], Pending[2])
    /\ phase' = "between"
    /\ sections' = Tail(sections)
    /\ section' = NoSection
    /\ UNCHANGED <<circuit, reader>>

Finish ==
    /\ phase = "between" /\ sections = <<>>
    /\ phase' = "finished"
    /\ UNCHANGED <<circuit, file, sections, section, reader>>

\* A write fails: some of its bytes are on disk, and the error ends the compilation.
Fail ==
    /\ phase \in {"open", "between", "section"}
    /\ phase = "between" => sections # <<>>
    /\ \E n \in 0 .. Len(Pending[2]) - 1 : file' = Written(Pending[1], SubSeq(Pending[2], 1, n))
    /\ phase' = "failed"
    /\ UNCHANGED <<circuit, sections, section, reader>>

-----------------------------------------------------------------------------
(* The reader.  left counts the sections to find, then the items to read.    *)

\* read_exact and read_bigint, of bytes that are there.
Has(at, n) == at >= 0 /\ at + n <= Len(file)
BytesAt(at, n) == SubSeq(file, at + 1, at + n)
NumberAt(at, n) ==
    LET digits == BytesAt(at, n)
    IN FoldFunction(+, 0, [k \in DOMAIN digits |-> digits[k] * Byte ^ (k - 1)])

Refused(r) == [r EXCEPT !.doing = "refused"]
Reads(r) == reader' = r /\ UNCHANGED <<circuit, file, phase, sections, section>>

\* R1CSReader::new and read_initialization.
StartReading ==
    /\ phase \in {"finished", "failed"}
    /\ reader.doing = "nothing"
    /\ Reads(IF Has(0, 12) /\ BytesAt(0, 4) = MAGIC /\ BytesAt(4, 4) = VERSION
             THEN [reader EXCEPT !.doing = "finding", !.at = 12, !.sections = file[9], !.left = file[9]]
             ELSE Refused(reader))

\* The loop of read_r1cs: the start of every section.
FindSection ==
    /\ reader.doing = "finding" /\ reader.left > 0
    /\ Reads(IF Has(reader.at, 12) /\ file[reader.at + 1] \in 1 .. reader.sections
             THEN [reader EXCEPT !.starts = (file[reader.at + 1] :> reader.at) @@ @,
                                 !.at = @ + 12 + NumberAt(@ + 4, 8), !.left = @ - 1]
             ELSE Refused(reader))

\* start_header_section and the others, and the counts that sections begin with.
Entered(r, type) ==
    LET at == r.starts[type] + 12
    IN IF type \notin DOMAIN r.starts \/ BytesAt(r.starts[type], 4) # Type(type) THEN Refused(r)
       ELSE IF type \in {4, 5} /\ ~Has(at, 4) THEN Refused(r)
       ELSE [r EXCEPT !.doing = "reading", !.section = type,
                      !.at = IF type \in {4, 5} THEN at + 4 ELSE at,
                      !.left = CASE type = 1 -> 1
                                 [] type = 2 -> r.header.constraints
                                 [] type = 3 -> r.header.wires
                                 [] OTHER    -> NumberAt(at, 4)]

\* read_sections.
EnterSection ==
    /\ reader.doing \in {"finding", "reading"} /\ reader.left = 0
    /\ Reads(IF reader.section = (IF reader.sections = 5 THEN 5 ELSE 3)
             THEN [reader EXCEPT !.doing = "accepted"]
             ELSE Entered(reader, reader.section + 1))

Items(type) == reader.doing = "reading" /\ reader.section = type /\ reader.left > 0
ReadsItem(r, end) == Reads([r EXCEPT !.at = end, !.left = @ - 1])

ReadHeader ==
    LET at == reader.at
        size == NumberAt(at, 4)
        after == at + 4 + size
    IN /\ Items(1)
       /\ IF Has(at, 4) /\ Has(at + 4, size) /\ Has(after, 28)
          THEN ReadsItem([reader EXCEPT !.header =
                   [size |-> size, prime |-> NumberAt(at + 4, size), wires |-> NumberAt(after, 4),
                    outputs |-> NumberAt(after + 4, 4), publicInputs |-> NumberAt(after + 8, 4),
                    privateInputs |-> NumberAt(after + 12, 4), labels |-> NumberAt(after + 16, 8),
                    constraints |-> NumberAt(after + 24, 4)]], after + 28)
          ELSE Reads(Refused(reader))

\* read_linear_combination_block: where it ends, -1 if the file ends before.
Entry == 4 + reader.header.size
EndAt(at) == IF Has(at, 4) /\ Has(at + 4, NumberAt(at, 4) * Entry) THEN at + 4 + NumberAt(at, 4) * Entry
             ELSE -1
CombinationAt(at) ==
    LET places == {at + 4 + k * Entry : k \in 0 .. NumberAt(at, 4) - 1}
        LastAt(s) == Max({p \in places : NumberAt(p, 4) = s})
    IN [s \in {NumberAt(p, 4) : p \in places} |-> NumberAt(LastAt(s) + 4, reader.header.size)]

ReadConstraint ==
    LET b == EndAt(reader.at)
        c == EndAt(b)
    IN /\ Items(2)
       /\ IF EndAt(c) = -1 THEN Reads(Refused(reader))
          ELSE ReadsItem([reader EXCEPT !.constraints =
                   Append(@, << CombinationAt(reader.at), CombinationAt(b), CombinationAt(c) >>)], EndAt(c))

ReadSignal ==
    /\ Items(3)
    /\ IF Has(reader.at, 8)
       THEN ReadsItem([reader EXCEPT !.signals = Append(@, NumberAt(reader.at, 8))], reader.at + 8)
       ELSE Reads(Refused(reader))

\* A name ends with a zero; the parameters of the gate follow.
ReadUsage ==
    LET zeros == {k \in reader.at .. Len(file) - 1 : file[k + 1] = 0}
        name == BytesAt(reader.at, Min(zeros) - reader.at)
        at == Min(zeros) + 1
        size == reader.header.size
        params == [k \in 1 .. NumberAt(at, 4) |-> NumberAt(at + 4 + (k - 1) * size, size)]
    IN /\ Items(4)
       /\ IF zeros # {} /\ Has(at, 4) /\ Has(at + 4, NumberAt(at, 4) * size)
          THEN ReadsItem([reader EXCEPT !.usages = Append(@, << name, params >>)],
                         at + 4 + Len(params) * size)
          ELSE Reads(Refused(reader))

ReadApplication ==
    LET at == reader.at
        signals == [k \in 1 .. NumberAt(at + 4, 4) |-> NumberAt(at + 8 + (k - 1) * 8, 8)]
    IN /\ Items(5)
       /\ IF Has(at, 8) /\ Has(at + 8, NumberAt(at + 4, 4) * 8)
          THEN ReadsItem([reader EXCEPT !.applications = Append(@, << NumberAt(at, 4), signals >>)],
                         at + 8 + Len(signals) * 8)
          ELSE Reads(Refused(reader))

Write == Open \/ StartSection \/ WriteContent \/ EndSection \/ Finish
Read == \/ StartReading \/ FindSection \/ EnterSection \/ ReadHeader
        \/ ReadConstraint \/ ReadSignal \/ ReadUsage \/ ReadApplication

Next == Write \/ Fail \/ Read

Spec == Init /\ [][Next]_vars

-----------------------------------------------------------------------------
(* Properties.  A circuit states its constraints over the numbers of its     *)
(* signals; the wires of the file lead to these numbers by its section 3.    *)

Stated(c) == IF c.simplify THEN c.left
             ELSE FlattenSeq([k \in DOMAIN Tree(c) |->
                    LET v == Tree(c)[k]
                        all == c.nodes[v.node].constraints
                    IN [i \in DOMAIN all |-> ApplyOffset(all[i], v.offset)]])
Empty == [i \in 1 .. 3 |-> <<>>]

Label(w) == reader.signals[w + 1]
ReadBack == [k \in DOMAIN reader.constraints |->
               RenameConstraint(reader.constraints[k],
                                [w \in 0 .. Len(reader.signals) - 1 |-> Label(w)])]
GatesRead ==
    [k \in DOMAIN reader.applications |->
       << reader.usages[reader.applications[k][1] + 1],
          [i \in DOMAIN reader.applications[k][2] |-> Label(reader.applications[k][2][i])] >>]
GatesOf(c) == [k \in DOMAIN Applied(c) |->
                 << FullName(c.nodes[Applied(c)[k].node]), GateLabels(c, Applied(c)[k]) >>]

\* R1CSWriter and R1CSReader: a file that the reader accepts, also one whose writing failed,
\* has the constraints, the signals and the custom gates of the circuit.  No signal of a custom
\* gate is missing (port_r1cs), and a file that was written to its end is accepted.
AcceptedFilesAreRight ==
    /\ phase # "panic"
    /\ phase = "finished" => reader.doing # "refused"
    /\ reader.doing = "accepted" =>
        LET h == reader.header
            c == circuit
        IN /\ h.prime = c.prime /\ h.outputs = c.outputs /\ h.publicInputs = c.publicInputs
           /\ h.privateInputs = c.privateInputs /\ h.constraints = Len(reader.constraints)
           /\ ToSet(ReadBack) \ {Empty} = ToSet(Stated(c)) \ {Empty}
           /\ ToSet(reader.signals) = (IF c.simplify THEN c.kept ELSE AllLabels(c))
           /\ \A s \in ToSet(reader.signals) : s < h.labels
           /\ c.pragma => GatesRead = GatesOf(c)

\* SymFile: the .sym file, written at the same time, gives every signal of the witness the place
\* it has in the .r1cs file, and no other signal has a place (sym.md).
SymAgreesWithR1cs ==
    reader.doing = "accepted" =>
        LET lines == {l \in ToSet(SymLines(circuit)) : l.witness # -1}
        IN /\ Cardinality(lines) = Len(reader.signals) - 1
           /\ \A l \in lines : l.witness > 0 /\ Label(l.witness) = l.original
===============================================================================
