---------------------------- MODULE CircomFormat ----------------------------
(***************************************************************************)
(* The .r1cs and .wtns files neo-bridge reads, as circom and snarkjs write *)
(* them (the formats parser.rs refers to): what is written, and where each *)
(* part of it is found in the file.                                        *)
(*                                                                         *)
(* A file is a sequence of 32-bit words: every size and offset of the two  *)
(* formats is a multiple of four bytes.  It may have been cut anywhere, so *)
(* it holds what was written as far as it goes.                            *)
(***************************************************************************)
EXTENDS Integers, Sequences

CONSTANTS
    None,
    BASE,      \* values of a word (2^32)
    Inputs     \* [kind, file, what]: the parser called, its file, and what was written to it

HEADER == 1
BODY   == 2     \* the constraints or the data

Version(kind) == IF kind = "r1cs" THEN 1 ELSE 2

\* A body is linear combinations, three to a constraint, or wires.
ItemCount(kind, h) == IF kind = "r1cs" THEN 3 * h.count ELSE h.count

Holds(f, n, words) == \A k \in 1 .. Len(words) : n + k <= Len(f) => f[n + k] = words[k]

\* Words of a field element, and of a combination or wire of a body.
FieldWords(h) == h.fsb \div 4
ItemWords(i, item) ==
    LET fw == FieldWords(i.what.header)
    IN  IF i.kind = "r1cs" THEN 1 + Len(item) * (1 + fw) ELSE fw
HeaderWords(i) == FieldWords(i.what.header) + IF i.kind = "r1cs" THEN 8 ELSE 2

HoldsHeader(i, n) ==
    LET h  == i.what.header
        at == n + 1 + FieldWords(h)     \* after the prime
    IN  /\ Holds(i.file, n, <<h.fsb>>)
        /\ IF i.kind = "r1cs"
           THEN Holds(i.file, at, <<h.wires, h.pub_out, h.pub_in>>) /\ Holds(i.file, at + 6, <<h.count>>)
           ELSE Holds(i.file, at, <<h.count>>)

HoldsItem(i, n, item) ==
    IF i.kind = "r1cs"
    THEN /\ Holds(i.file, n, <<Len(item)>>)
         /\ \A t \in 1 .. Len(item) :
              LET at == n + 1 + (t - 1) * (1 + FieldWords(i.what.header))
              IN  Holds(i.file, at, <<item[t][1]>>) /\ Holds(i.file, at + 1, item[t][2])
    ELSE Holds(i.file, n, item)

(***************************************************************************)
(* A section: its type, its size in bytes as a 64-bit number, and the      *)
(* content of its type.  Sections of other types hold anything.            *)
(***************************************************************************)
HoldsSection(i, s) ==
    LET items == i.what.items
    IN  /\ Holds(i.file, s.at, <<s.type, (4 * s.words) % BASE, (4 * s.words) \div BASE>>)
        /\ s.type = HEADER => s.words = HeaderWords(i) /\ HoldsHeader(i, s.at + 3)
        /\ s.type = BODY => /\ s.words = i.what.offsets[Len(items) + 1]
                            /\ \A k \in 1 .. Len(items) : HoldsItem(i, s.at + 3 + i.what.offsets[k], items[k])

(***************************************************************************)
(* What is written: magic and version, sections, each with the word it     *)
(* begins at, one header and items, each with its offset in a body.        *)
(***************************************************************************)
HeaderType(i) ==
    IF i.kind = "r1cs" THEN [fsb : Nat, wires : Nat, pub_out : Nat, pub_in : Nat, count : Nat]
                       ELSE [fsb : Nat, count : Nat]
ItemType(i) ==
    LET coefficient == [1 .. FieldWords(i.what.header) -> Nat]
    IN  IF i.kind = "r1cs" THEN Seq(Nat \X coefficient) ELSE coefficient

WellTyped(i) ==
    LET w == i.what
    IN  /\ Len(i.file) \in Nat
        /\ w.header \in HeaderType(i) /\ w.header.fsb % 4 = 0
        /\ w.items \in Seq(ItemType(i))
        /\ Len(w.items) = ItemCount(i.kind, w.header)
        /\ w.offsets \in [1 .. Len(w.items) + 1 -> Nat]
        /\ w.sections \in Seq([type : Nat, at : Nat, words : Nat])

WellWritten(i) ==
    LET w    == i.what
        secs == w.sections
    IN  /\ Holds(i.file, 0, <<w.magic, w.version, Len(secs)>>)
        /\ \A s \in 1 .. Len(secs) :
             /\ secs[s].at = IF s = 1 THEN 3 ELSE secs[s - 1].at + 3 + secs[s - 1].words
             /\ HoldsSection(i, secs[s])
        /\ w.offsets[1] = 0
        /\ \A k \in 1 .. Len(w.items) : w.offsets[k + 1] = w.offsets[k] + ItemWords(i, w.items[k])

\* Nothing is cut, neither section is missing, and it is a file for the parser called.
Complete(i) ==
    LET secs == i.what.sections
    IN  /\ i.what.magic = i.kind /\ i.what.version = Version(i.kind)
        /\ Len(i.file) >= 3
        /\ \A s \in 1 .. Len(secs) : Len(i.file) >= secs[s].at + 3 + secs[s].words
        /\ \A type \in {HEADER, BODY} : \E s \in 1 .. Len(secs) : secs[s].type = type

ASSUME BaseAssumption == BASE \in Nat /\ BASE > 2

ASSUME InputsAssumption ==
    /\ None \notin Nat
    /\ \A i \in Inputs : /\ i.kind \in {"r1cs", "wtns"} /\ i.what.header # None
                         /\ WellTyped(i) /\ WellWritten(i)
=============================================================================
