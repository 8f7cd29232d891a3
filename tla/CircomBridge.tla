---------------------------- MODULE CircomBridge ----------------------------
(***************************************************************************)
(* neo-bridge: parse_circom_r1cs and parse_circom_wtns of parser.rs over a *)
(* file of sections in any order, then the two lifts of lib.rs, to dense   *)
(* and to sparse matrices.  They are separate functions with loops of      *)
(* their own; here both run on what was parsed, in any interleaving.       *)
(*                                                                         *)
(* A read that a cut file leaves short fails wherever inside the word the  *)
(* cut is.  BASE stands for 2^32, and the field is the one Goldilocks is   *)
(* for that base.                                                          *)
(***************************************************************************)
EXTENDS CircomFormat

P == BASE * BASE - BASE + 1     \* of neo_math::F: 2^64 - 2^32 + 1

VARIABLES
    pc,         \* "open", "scan", "body", "parsed", "lift", "lifted", "error"
    in,         \* the input
    pos,        \* read position, in words read so far
    left,       \* sections not scanned yet
    header,     \* the header fields found last, or None
    body,       \* where the constraints or the data start, or None
    items,      \* linear combinations (a, b, c of row 0, of row 1, ...), or wires, read so far
    dwalk,      \* dense lift: matrix (1, 2, 3 for a, b, c, then 4), row, terms of it done
    swalk,      \* sparse lift: the same
    dense, sparse, m_in, z,    \* what lib.rs makes of them
    panic       \* the dense lift panicked

parser == <<in, pos, left, header, body, items>>
lift   == <<dwalk, swalk, dense, sparse, m_in, z, panic>>
vars   == <<pc, parser, lift>>

file == in.file
Word(n) == file[n + 1]                  \* the word at offset n
Has(n, count) == n + count <= Len(file) \* read_exact succeeds
U64(n) == Word(n) + BASE * Word(n + 1)
Coeff(n, fw) == [k \in 1 .. fw |-> Word(n + k - 1)]   \* fw words of bytes

Init ==
    /\ pc = "open"
    /\ in \in Inputs
    /\ pos = 0 /\ left = 0
    /\ header = None /\ body = None
    /\ items = <<>>
    /\ dwalk = None /\ swalk = None /\ dense = None /\ sparse = None /\ m_in = None /\ z = None
    /\ panic = FALSE

Fail == pc' = "error" /\ UNCHANGED <<parser, lift>>

(***************************************************************************)
(* Magic, version, number of sections.                                     *)
(***************************************************************************)
Open ==
    LET accepted == Has(0, 3) /\ Word(0) = in.kind /\ Word(1) = Version(in.kind)
    IN  /\ pc = "open"
        /\ \/ /\ accepted
              /\ pc' = "scan"
              /\ pos' = 3
              /\ left' = Word(2)
              /\ UNCHANGED <<in, header, body, items, lift>>
           \/ ~accepted /\ Fail

(***************************************************************************)
(* The fields of a header that starts at n, and whether they can be read:  *)
(* field size, prime, then (nw, npo, npi, npri, nlabels, nc) or (n).       *)
(***************************************************************************)
HeaderReads(n) ==
    Has(n, 1) /\ Has(n, 1 + Word(n) \div 4 + IF in.kind = "r1cs" THEN 7 ELSE 1)

\* Faulty: the number of labels is taken for 32 bits.
FaultyHeaderAt(n) ==
    LET at == n + 1 + Word(n) \div 4
    IN  IF in.kind = "r1cs"
        THEN [fsb |-> Word(n), wires |-> Word(at), pub_out |-> Word(at + 1),
              pub_in |-> Word(at + 2), count |-> Word(at + 5)]
        ELSE [fsb |-> Word(n), count |-> Word(at)]

HeaderAt(n) ==
    LET at == n + 1 + Word(n) \div 4
    IN  IF in.kind = "r1cs"
        THEN [fsb |-> Word(n), wires |-> Word(at), pub_out |-> Word(at + 1),
              pub_in |-> Word(at + 2), count |-> Word(at + 6)]
        ELSE [fsb |-> Word(n), count |-> Word(at)]

\* Faulty: the size is counted from the type of the section.
FaultySectionEnd(n) == n + U64(n + 1) \div 4

SectionEnd(n) == n + 3 + U64(n + 1) \div 4

(***************************************************************************)
(* One section: a header is read where it is found, a body is only noted;  *)
(* then seek to its end, which may lie beyond the end of the file.         *)
(***************************************************************************)
Section ==
    LET type == Word(pos)
        readable == Has(pos, 3) /\ (type = HEADER => HeaderReads(pos + 3))
    IN  /\ pc = "scan" /\ left > 0
        /\ \/ /\ readable
              /\ header' = IF type = HEADER THEN HeaderAt(pos + 3) ELSE header
              /\ body'   = IF type = BODY THEN pos + 3 ELSE body
              /\ pos' = SectionEnd(pos)
              /\ left' = left - 1
              /\ UNCHANGED <<pc, in, items, lift>>
           \/ ~readable /\ Fail

EndScan ==
    /\ pc = "scan" /\ left = 0
    /\ \/ /\ header # None /\ body # None
          /\ pc' = "body"
          /\ pos' = body
          /\ UNCHANGED <<in, left, header, body, items, lift>>
       \/ (header = None \/ body = None) /\ Fail

(***************************************************************************)
(* read_linear_combo: a count, then (wire, coefficient) pairs.             *)
(***************************************************************************)
Combo ==
    LET fw    == FieldWords(header)
        count == Word(pos)
        readable == Has(pos, 1) /\ Has(pos, 1 + count * (1 + fw))
    IN  /\ pc = "body" /\ in.kind = "r1cs" /\ Len(items) < ItemCount(in.kind, header)
        /\ \/ /\ readable
              /\ items' = Append(items, [t \in 1 .. count |->
                              LET at == pos + 1 + (t - 1) * (1 + fw) IN <<Word(at), Coeff(at + 1, fw)>>])
              /\ pos' = pos + 1 + count * (1 + fw)
              /\ UNCHANGED <<pc, in, left, header, body, lift>>
           \/ ~readable /\ Fail

Wire ==
    LET fw == FieldWords(header)
    IN  /\ pc = "body" /\ in.kind = "wtns" /\ Len(items) < ItemCount(in.kind, header)
        /\ \/ /\ Has(pos, fw)
              /\ items' = Append(items, Coeff(pos, fw))
              /\ pos' = pos + fw
              /\ UNCHANGED <<pc, in, left, header, body, lift>>
           \/ ~Has(pos, fw) /\ Fail

EndBody ==
    /\ pc = "body" /\ Len(items) = ItemCount(in.kind, header)
    /\ pc' = "parsed"
    /\ UNCHANGED <<parser, lift>>
-----------------------------------------------------------------------------
\* coeff_to_f on eight bytes: F::from_u64 reduces.
coeff_to_f(words) == (words[1] + BASE * words[2]) % P

\* Faulty: the number of rows is used as the stride.
FaultyCell(row, wire) == row * header.count + wire

\* The place of (row, wire) in a row-major buffer.
Cell(row, wire) == row * header.wires + wire

Begin == [matrix |-> 1, row |-> 0, term |-> 0]
End   == [matrix |-> 4, row |-> 0, term |-> 0]

(***************************************************************************)
(* Both lifts refuse a field that is not eight bytes wide, then start from *)
(* a zeroed buffer (circom_to_neo_mats) and no triplets (circom_to_neo_    *)
(* sparse_mats) for each of the three matrices.                            *)
(***************************************************************************)
StartLift ==
    /\ pc = "parsed"
    /\ \/ /\ header.fsb = 8
          /\ IF in.kind = "r1cs"
             THEN /\ pc' = "lift"
                  /\ dwalk' = Begin /\ swalk' = Begin
                  /\ dense' = [m \in 1 .. 3 |-> [k \in 0 .. header.count * header.wires - 1 |-> 0]]
                  /\ sparse' = [m \in 1 .. 3 |-> <<>>]
                  /\ m_in' = 1 + header.pub_out + header.pub_in
                  /\ UNCHANGED z
             ELSE /\ pc' = "lifted"
                  /\ z' = [k \in 1 .. Len(items) |-> coeff_to_f(items[k])]
                  /\ UNCHANGED <<dwalk, swalk, dense, sparse, m_in>>
          /\ UNCHANGED <<parser, panic>>
       \/ header.fsb # 8 /\ Fail

(***************************************************************************)
(* circom_to_neo_mats, one term: it overwrites what an earlier term of the *)
(* wire left, and panics past the end of the buffer (not of the row).      *)
(***************************************************************************)
DenseRow == items[3 * dwalk.row + dwalk.matrix]

DenseTerm ==
    LET term == DenseRow[dwalk.term + 1]
        cell == Cell(dwalk.row, term[1])
    IN  /\ pc = "lift" /\ dwalk.matrix < 4 /\ dwalk.row < header.count /\ dwalk.term < Len(DenseRow)
        /\ \/ /\ cell \in DOMAIN dense[dwalk.matrix]
              /\ dense' = [dense EXCEPT ![dwalk.matrix][cell] = coeff_to_f(term[2])]
              /\ dwalk' = [dwalk EXCEPT !.term = @ + 1]
              /\ UNCHANGED panic
           \/ /\ cell \notin DOMAIN dense[dwalk.matrix]
              /\ panic' = TRUE
              /\ dwalk' = End
              /\ UNCHANGED dense
        /\ UNCHANGED <<pc, parser, swalk, sparse, m_in, z>>

\* The end of a row, or of a matrix.
DenseNext ==
    /\ pc = "lift" /\ dwalk.matrix < 4
    /\ \/ /\ dwalk.row < header.count /\ dwalk.term = Len(DenseRow)
          /\ dwalk' = [dwalk EXCEPT !.row = @ + 1, !.term = 0]
       \/ /\ dwalk.row = header.count
          /\ dwalk' = [matrix |-> dwalk.matrix + 1, row |-> 0, term |-> 0]
    /\ UNCHANGED <<pc, parser, swalk, dense, sparse, m_in, z, panic>>

\* Faulty: all three matrices are made of the first.
FaultySparseRow == items[3 * swalk.row + 1]

(***************************************************************************)
(* circom_to_neo_sparse_mats, one term: a triplet is pushed, whatever the  *)
(* wire is and whether or not it has one already.                          *)
(***************************************************************************)
SparseRow == items[3 * swalk.row + swalk.matrix]

SparseTerm ==
    LET term == SparseRow[swalk.term + 1]
    IN  /\ pc = "lift" /\ swalk.matrix < 4 /\ swalk.row < header.count /\ swalk.term < Len(SparseRow)
        /\ sparse' = [sparse EXCEPT ![swalk.matrix] =
                          Append(@, <<swalk.row, term[1], coeff_to_f(term[2])>>)]
        /\ swalk' = [swalk EXCEPT !.term = @ + 1]
        /\ UNCHANGED <<pc, parser, dwalk, dense, m_in, z, panic>>

SparseNext ==
    /\ pc = "lift" /\ swalk.matrix < 4
    /\ \/ /\ swalk.row < header.count /\ swalk.term = Len(SparseRow)
          /\ swalk' = [swalk EXCEPT !.row = @ + 1, !.term = 0]
       \/ /\ swalk.row = header.count
          /\ swalk' = [matrix |-> swalk.matrix + 1, row |-> 0, term |-> 0]
    /\ UNCHANGED <<pc, parser, dwalk, dense, sparse, m_in, z, panic>>

EndLift ==
    /\ pc = "lift" /\ dwalk.matrix = 4 /\ swalk.matrix = 4
    /\ pc' = "lifted"
    /\ UNCHANGED <<parser, lift>>

Finished == pc \in {"lifted", "error"} /\ UNCHANGED vars

Next ==
    \/ Open \/ Section \/ EndScan \/ Combo \/ Wire \/ EndBody
    \/ StartLift \/ DenseTerm \/ DenseNext \/ SparseTerm \/ SparseNext \/ EndLift \/ Finished

Spec == Init /\ [][Next]_vars
-----------------------------------------------------------------------------
(***************************************************************************)
(* What the parser returns is what was written, in whatever order the      *)
(* sections come and wherever the file was cut: a short file is an error   *)
(* or parses to the same value (only a section nobody reads was cut),      *)
(* never to another value.                                                 *)
(***************************************************************************)
ParsesWhatWasWritten ==
    pc \in {"parsed", "lift", "lifted"} =>
        /\ header = in.what.header
        /\ items = in.what.items

(***************************************************************************)
(* A complete file with a header and a body is never refused.              *)
(***************************************************************************)
CompleteFilesParse == pc = "error" => ~Complete(in) \/ in.what.header.fsb # 8

(***************************************************************************)
(* The dense and the sparse lift, two loops of their own, make the same    *)
(* matrices of every file circom writes (each wire below n_wires, and once *)
(* per linear combination): the dense one does not panic, and an entry is  *)
(* the value of its one triplet, or zero without one.                      *)
(***************************************************************************)
SameMatrices ==
    /\ ~panic
    /\ \A m \in 1 .. 3, r \in 0 .. header.count - 1, w \in 0 .. header.wires - 1 :
         LET entries == {k \in 1 .. Len(sparse[m]) : sparse[m][k][1] = r /\ sparse[m][k][2] = w}
             entry == dense[m][r * header.wires + w]
         IN  /\ entries = {} => entry = 0
             /\ \A k \in entries : entries = {k} /\ entry = sparse[m][k][3]

EachWireOnce ==
    \A k \in 1 .. Len(items) : \A t \in 1 .. Len(items[k]) :
        /\ items[k][t][1] < header.wires
        /\ \A u \in 1 .. Len(items[k]) : items[k][t][1] = items[k][u][1] => t = u

Lifted == pc = "lifted" /\ in.kind = "r1cs"

LiftsAgree == Lifted /\ EachWireOnce => SameMatrices

(***************************************************************************)
(* What lib.rs says of the sparse lift, "Same as circom_to_neo_mats", for  *)
(* every file.  It does not hold: of a wire named twice in a combination   *)
(* the dense lift keeps the last term, and the sparse one hands both over. *)
(***************************************************************************)
SparseSameAsDense == Lifted => SameMatrices

(***************************************************************************)
(* The triplets of a matrix are the terms that were written for it: every  *)
(* term in its row, with its wire and its coefficient reduced, and nothing *)
(* else.                                                                   *)
(***************************************************************************)
Triplet(m, r, t) == LET term == in.what.items[3 * r + m][t] IN <<r, term[1], coeff_to_f(term[2])>>

LiftsWhatWasWritten ==
    Lifted =>
        \A m \in 1 .. 3 :
            /\ \A r \in 0 .. header.count - 1 : \A t \in 1 .. Len(in.what.items[3 * r + m]) :
                 \E k \in 1 .. Len(sparse[m]) : sparse[m][k] = Triplet(m, r, t)
            /\ \A k \in 1 .. Len(sparse[m]) :
                 \E r \in 0 .. header.count - 1 : \E t \in 1 .. Len(in.what.items[3 * r + m]) :
                     sparse[m][k] = Triplet(m, r, t)
=============================================================================
