------------------------ MODULE CircomBridge_proofs ------------------------
(***************************************************************************)
(* Proofs about CircomBridge, for every file laid out as CircomFormat says *)
(* and cut anywhere.                                                       *)
(***************************************************************************)
EXTENDS CircomBridge, WellFoundedInduction, TLAPS

Secs    == in.what.sections
Scanned == 1 .. Len(Secs) - left

\* b is the content of section s, a body.
IsBody(b, s) == Secs[s].type = BODY /\ b = Secs[s].at + 3

\* A section at a time: the position is the next one's, and what was passed is known.
AtScan ==
    pc = "scan" =>
        /\ left \in 0 .. Len(Secs)
        /\ left > 0 => pos = Secs[Len(Secs) - left + 1].at
        /\ \/ header = in.what.header
           \/ header = None /\ \A s \in Scanned : Secs[s].type # HEADER
        /\ \/ \E s \in Scanned : IsBody(body, s)
           \/ body = None /\ \A s \in Scanned : Secs[s].type # BODY

\* An item at a time: the position is the next one's, and the items read are the first ones.
AtBody ==
    pc = "body" =>
        /\ header = in.what.header
        /\ \E s \in 1 .. Len(Secs) : IsBody(body, s)
        /\ Len(items) <= Len(in.what.items)
        /\ \A k \in 1 .. Len(items) : items[k] = in.what.items[k]
        /\ pos = body + in.what.offsets[Len(items) + 1]

ParseInv ==
    /\ in \in Inputs
    /\ pc \in {"open", "scan", "body", "parsed", "lift", "lifted", "error"}
    /\ items \in Seq(ItemType(in))
    /\ pc \in {"open", "scan"} => items = <<>>
    /\ pc = "open" => header = None /\ body = None
    /\ AtScan /\ AtBody
    /\ ParsesWhatWasWritten
    /\ CompleteFilesParse
-----------------------------------------------------------------------------
Values == {coeff_to_f(x) : x \in [1 .. 2 -> Nat]} \cup {0}

Lifting == pc \in {"lift", "lifted"} /\ in.kind = "r1cs"

\* The terms of row r of matrix m of an input, and what the lifts make of term t.
Terms(i, m, r) == 1 .. Len(i.what.items[3 * r + m])
WireOf(i, m, r, t)  == i.what.items[3 * r + m][t][1]
ValueOf(i, m, r, t) == coeff_to_f(i.what.items[3 * r + m][t][2])

Rows(i) == 0 .. i.what.header.count - 1

Typed(i) ==
    /\ i.what.header.count \in Nat /\ i.what.header.wires \in Nat
    /\ \A m \in 1 .. 3, r \in Rows(i) :
         /\ Len(i.what.items[3 * r + m]) \in Nat
         /\ \A t \in Terms(i, m, r) : WireOf(i, m, r, t) \in Nat /\ ValueOf(i, m, r, t) \in Values

\* A lift that is at w has done term t of row r of matrix m.
Done(w, m, r, t) == m < w.matrix \/ (m = w.matrix /\ (r < w.row \/ (r = w.row /\ t <= w.term)))

WalkOK(i, w) ==
    /\ w \in [matrix : 1 .. 4, row : 0 .. i.what.header.count, term : Nat]
    /\ w.matrix < 4 /\ w.row < i.what.header.count => w.term <= Len(i.what.items[3 * w.row + w.matrix])

Clean(i) ==
    \A m \in 1 .. 3, r \in Rows(i) : \A t \in Terms(i, m, r) :
        /\ WireOf(i, m, r, t) < i.what.header.wires
        /\ \A u \in Terms(i, m, r) : WireOf(i, m, r, t) = WireOf(i, m, r, u) => t = u

\* Of a clean file: the cells of the terms done hold their values, the others zero.
DenseHolds(i, d, w) ==
    LET W == i.what.header.wires
    IN  /\ d \in [1 .. 3 -> [0 .. i.what.header.count * W - 1 -> Values]]
        /\ \A m \in 1 .. 3, r \in Rows(i) : \A t \in Terms(i, m, r) :
             Done(w, m, r, t) => d[m][r * W + WireOf(i, m, r, t)] = ValueOf(i, m, r, t)
        /\ \A m \in 1 .. 3, r \in Rows(i), x \in 0 .. W - 1 :
             (\A t \in Terms(i, m, r) : Done(w, m, r, t) => WireOf(i, m, r, t) # x) => d[m][r * W + x] = 0

\* Of any file: the triplets are those of the terms done; of a clean one, each once.
TripletOf(i, m, r, t) == <<r, WireOf(i, m, r, t), ValueOf(i, m, r, t)>>

Kept(i, q, w, m) ==
    \A r \in Rows(i) : \A t \in Terms(i, m, r) :
        Done(w, m, r, t) => \E k \in 1 .. Len(q) : q[k] = TripletOf(i, m, r, t)

Sound(i, q, w, m) ==
    \A k \in 1 .. Len(q) : \E r \in Rows(i) : \E t \in Terms(i, m, r) :
        Done(w, m, r, t) /\ q[k] = TripletOf(i, m, r, t)

Once(q) == \A j, k \in 1 .. Len(q) : q[j][1] = q[k][1] /\ q[j][2] = q[k][2] => j = k

Triplets(i, q, w, m) ==
    /\ q \in Seq(Rows(i) \X Nat \X Values)
    /\ Kept(i, q, w, m) /\ Sound(i, q, w, m) /\ (Clean(i) => Once(q))

SparseHolds(i, s, w) ==
    /\ s \in [1 .. 3 -> Seq(Rows(i) \X Nat \X Values)]
    /\ \A m \in 1 .. 3 : Kept(i, s[m], w, m) /\ Sound(i, s[m], w, m) /\ (Clean(i) => Once(s[m]))

LiftInv ==
    /\ pc \in {"open", "scan", "body", "parsed"} => panic = FALSE
    /\ pc = "lift" => in.kind = "r1cs"
    /\ Lifting =>
        /\ header.fsb = 8
        /\ WalkOK(in, dwalk) /\ WalkOK(in, swalk)
        /\ Clean(in) => panic = FALSE /\ DenseHolds(in, dense, dwalk)
        /\ SparseHolds(in, sparse, swalk)
        /\ pc = "lifted" => dwalk.matrix = 4 /\ swalk.matrix = 4

Inv == ParseInv /\ LiftInv
-----------------------------------------------------------------------------
LEMMA DivMod ==
    ASSUME NEW x \in Nat, NEW b \in Nat, b > 0
    PROVE  (x % b) + b * (x \div b) = x /\ x % b \in Nat /\ x \div b \in Nat
  OBVIOUS

LEMMA OneWord ==
    ASSUME NEW f, NEW n \in Nat, NEW x, Holds(f, n, <<x>>), n + 1 <= Len(f)
    PROVE  f[n + 1] = x
  BY DEF Holds

LEMMA Element ==
    ASSUME NEW S, NEW q \in Seq(S), NEW k \in 1 .. Len(q)
    PROVE  q[k] \in S /\ Len(q) \in Nat
  OBVIOUS

(***************************************************************************)
(* The facts about an input, one by one.                                   *)
(***************************************************************************)
LEMMA Input ==
    ASSUME in \in Inputs
    PROVE  /\ in.kind \in {"r1cs", "wtns"} /\ in.what.header # None
           /\ WellTyped(in) /\ WellWritten(in)
  BY InputsAssumption

LEMMA HeaderTyped ==
    ASSUME in \in Inputs
    PROVE  /\ in.what.header.fsb \in Nat /\ in.what.header.count \in Nat
           /\ in.kind = "r1cs" => /\ in.what.header.wires \in Nat
                                  /\ in.what.header \in [fsb : Nat, wires : Nat, pub_out : Nat, pub_in : Nat, count : Nat]
           /\ in.kind = "wtns" => in.what.header \in [fsb : Nat, count : Nat]
           /\ FieldWords(in.what.header) \in Nat
  <1>1. CASE in.kind = "r1cs"
    <2>1. in.what.header \in [fsb : Nat, wires : Nat, pub_out : Nat, pub_in : Nat, count : Nat]
      BY <1>1, Input DEF WellTyped, HeaderType
    <2> QED BY <1>1, <2>1 DEF FieldWords
  <1>2. CASE in.kind = "wtns"
    <2>1. in.what.header \in [fsb : Nat, count : Nat]
      BY <1>2, Input DEF WellTyped, HeaderType
    <2> QED BY <1>2, <2>1 DEF FieldWords
  <1> QED BY <1>1, <1>2, Input

LEMMA SectionTyped ==
    ASSUME in \in Inputs
    PROVE  /\ Len(Secs) \in Nat /\ Len(file) \in Nat
           /\ \A s \in 1 .. Len(Secs) :
                /\ Secs[s].type \in Nat /\ Secs[s].at \in Nat /\ Secs[s].words \in Nat
                /\ Secs[s].at = IF s = 1 THEN 3 ELSE Secs[s - 1].at + 3 + Secs[s - 1].words
                /\ HoldsSection(in, Secs[s])
  <1>1. Secs \in Seq([type : Nat, at : Nat, words : Nat]) /\ Len(file) \in Nat
    BY Input DEF WellTyped, Secs, file
  <1>2. \A s \in 1 .. Len(Secs) : Secs[s] \in [type : Nat, at : Nat, words : Nat]
    BY <1>1, Element, Zenon
  <1>3. \A s \in 1 .. Len(Secs) :
           /\ Secs[s].at = IF s = 1 THEN 3 ELSE Secs[s - 1].at + 3 + Secs[s - 1].words
           /\ HoldsSection(in, Secs[s])
    BY Input DEF WellWritten, Secs
  <1>4. Len(Secs) \in Nat
    BY <1>1
  <1> QED BY <1>1, <1>2, <1>3, <1>4

(***************************************************************************)
(* The head of a section that can be read is what was written.             *)
(***************************************************************************)
LEMMA SectionReads ==
    ASSUME in \in Inputs, NEW s \in 1 .. Len(Secs), Has(Secs[s].at, 3)
    PROVE  /\ Word(Secs[s].at) = Secs[s].type
           /\ SectionEnd(Secs[s].at) = Secs[s].at + 3 + Secs[s].words
  <1> DEFINE n == Secs[s].at
             words == 4 * Secs[s].words
  <1>1. n \in Nat /\ Len(file) \in Nat /\ words \in Nat /\ n + 3 <= Len(file)
    BY SectionTyped DEF Has
  <1>2. Holds(file, n, <<Secs[s].type, words % BASE, words \div BASE>>)
    BY SectionTyped DEF HoldsSection, file
  <1>3. /\ file[n + 1] = Secs[s].type
        /\ file[n + 2] = words % BASE
        /\ file[n + 3] = words \div BASE
    <2> HIDE DEF n, words
    <2> QED BY <1>1, <1>2 DEF Holds
  <1>4. U64(n + 1) = words
    <2>1. U64(n + 1) = (words % BASE) + BASE * (words \div BASE)
      <3> HIDE DEF words, n
      <3>1. (n + 1) + 1 = n + 2 /\ (n + 1) + 1 + 1 = n + 3
        BY <1>1
      <3> QED BY <1>3, <3>1, Zenon DEF U64, Word
    <2>2. BASE \in Nat /\ BASE > 0
      BY BaseAssumption
    <2> HIDE DEF words
    <2>3. (words % BASE) + BASE * (words \div BASE) = words
      BY <1>1, <2>2, DivMod, Zenon
    <2> QED BY <2>1, <2>3, Zenon
  <1>5. words \div 4 = Secs[s].words
    BY SectionTyped
  <1> QED BY <1>3, <1>4, <1>5 DEF Word, SectionEnd

(***************************************************************************)
(* A header that can be read is what was written, and it can be read if    *)
(* the file goes on to its end.                                            *)
(***************************************************************************)
LEMMA HeaderReadsRight ==
    ASSUME in \in Inputs, NEW n \in Nat, HoldsHeader(in, n)
    PROVE  /\ HeaderReads(n) => HeaderAt(n) = in.what.header
           /\ Len(file) >= n + HeaderWords(in) => HeaderReads(n)
  <1> DEFINE h  == in.what.header
             fw == FieldWords(h)
             at == n + 1 + fw
  <1>1. h.fsb \in Nat /\ fw \in Nat /\ h.fsb \div 4 = fw /\ Len(file) \in Nat
    BY HeaderTyped, SectionTyped DEF FieldWords
  <1>2. Has(n, 1) => Word(n) = h.fsb
    <2>1. Holds(file, n, <<h.fsb>>)
      BY DEF HoldsHeader, file
    <2> QED BY <1>1, <2>1 DEF Holds, Has, Word
  <1>3. CASE in.kind = "r1cs"
    <2>1. HeaderReads(n) <=> n + 1 <= Len(file) /\ at + 7 <= Len(file)
      BY <1>1, <1>2, <1>3 DEF HeaderReads, Has
    <2>2. Holds(file, at, <<h.wires, h.pub_out, h.pub_in>>) /\ Holds(file, at + 6, <<h.count>>)
      BY <1>3 DEF HoldsHeader, file
    <2>3. ASSUME HeaderReads(n) PROVE HeaderAt(n) = h
      <3>1. Word(n) = h.fsb /\ Word(n) \div 4 = fw /\ at + 7 <= Len(file)
        BY <1>1, <1>2, <2>1, <2>3 DEF Has
      <3>2. at \in Nat
        BY <1>1
      <3>3. /\ Word(at) = h.wires /\ Word(at + 1) = h.pub_out /\ Word(at + 2) = h.pub_in
            /\ Word(at + 6) = h.count
        <4> HIDE DEF at, h
        <4> QED BY <1>1, <2>2, <3>1, <3>2, SMTT(30) DEF Holds, Word
      <3>4. HeaderAt(n) = [fsb |-> h.fsb, wires |-> h.wires, pub_out |-> h.pub_out,
                           pub_in |-> h.pub_in, count |-> h.count]
        BY <1>3, <3>1, <3>3 DEF HeaderAt
      <3>5. h \in [fsb : Nat, wires : Nat, pub_out : Nat, pub_in : Nat, count : Nat]
        BY <1>3, HeaderTyped
      <3> HIDE DEF h
      <3> QED BY <3>4, <3>5
    <2>4. Len(file) >= n + HeaderWords(in) => HeaderReads(n)
      BY <1>1, <1>3, <2>1 DEF HeaderWords
    <2> QED BY <2>3, <2>4
  <1>4. CASE in.kind = "wtns"
    <2>1. HeaderReads(n) <=> n + 1 <= Len(file) /\ at + 1 <= Len(file)
      BY <1>1, <1>2, <1>4 DEF HeaderReads, Has
    <2>2. Holds(file, at, <<h.count>>)
      BY <1>4 DEF HoldsHeader, file
    <2>3. ASSUME HeaderReads(n) PROVE HeaderAt(n) = h
      <3>1. Word(n) = h.fsb /\ Word(n) \div 4 = fw /\ at + 1 <= Len(file)
        BY <1>1, <1>2, <2>1, <2>3 DEF Has
      <3>2. at \in Nat
        BY <1>1
      <3>3. Word(at) = h.count
        <4> HIDE DEF at, h
        <4> QED BY <1>1, <2>2, <3>1, <3>2 DEF Holds, Word
      <3>4. HeaderAt(n) = [fsb |-> h.fsb, count |-> h.count]
        BY <1>4, <3>1, <3>3 DEF HeaderAt
      <3>5. h \in [fsb : Nat, count : Nat]
        BY <1>4, HeaderTyped
      <3> HIDE DEF h
      <3> QED BY <3>4, <3>5
    <2>4. Len(file) >= n + HeaderWords(in) => HeaderReads(n)
      BY <1>1, <1>4, <2>1 DEF HeaderWords
    <2> QED BY <2>3, <2>4
  <1> QED BY <1>3, <1>4, Input

LEMMA Products ==
    ASSUME NEW a \in Nat, NEW b \in Nat, a < b, NEW c \in Nat
    PROVE  a * c \in Nat /\ b * c \in Nat /\ a * c + c <= b * c
  <1>1. PICK d \in Nat : b = a + 1 + d
    <2>1. b - a - 1 \in Nat /\ b = a + 1 + (b - a - 1)
      OBVIOUS
    <2> QED BY <2>1
  <1>2. d * c \in Nat /\ a * c \in Nat
    OBVIOUS
  <1>3. (a + 1 + d) * c = a * c + c + d * c
    OBVIOUS
  <1> QED BY <1>1, <1>2, <1>3

LEMMA ItemTyped ==
    ASSUME in \in Inputs
    PROVE  /\ in.what.items \in Seq(ItemType(in))
           /\ Len(in.what.items) \in Nat
           /\ Len(in.what.items) = ItemCount(in.kind, in.what.header)
           /\ \A k \in 1 .. Len(in.what.items) :
                /\ in.what.items[k] \in ItemType(in)
                /\ in.what.offsets[k] \in Nat /\ in.what.offsets[k + 1] \in Nat
                /\ in.what.offsets[k + 1] = in.what.offsets[k] + ItemWords(in, in.what.items[k])
           /\ in.what.offsets[1] = 0
  <1>1. /\ in.what.items \in Seq(ItemType(in))
        /\ Len(in.what.items) = ItemCount(in.kind, in.what.header)
        /\ in.what.offsets \in [1 .. Len(in.what.items) + 1 -> Nat]
    BY Input DEF WellTyped
  <1>2. \A k \in 1 .. Len(in.what.items) : in.what.items[k] \in ItemType(in)
    BY <1>1, Element, Zenon
  <1>3. Len(in.what.items) \in Nat
    BY <1>1
  <1>4. \A k \in 1 .. Len(in.what.items) : k \in 1 .. Len(in.what.items) + 1 /\ k + 1 \in 1 .. Len(in.what.items) + 1
    BY <1>3
  <1>5. \A k \in 1 .. Len(in.what.items) : in.what.offsets[k] \in Nat /\ in.what.offsets[k + 1] \in Nat
    BY <1>1, <1>4
  <1>6. /\ in.what.offsets[1] = 0
        /\ \A k \in 1 .. Len(in.what.items) :
             in.what.offsets[k + 1] = in.what.offsets[k] + ItemWords(in, in.what.items[k])
    BY Input DEF WellWritten
  <1> QED BY <1>1, <1>2, <1>3, <1>5, <1>6

LEMMA ComboTyped ==
    ASSUME in \in Inputs, in.kind = "r1cs", NEW k \in 1 .. Len(in.what.items)
    PROVE  /\ Len(in.what.items[k]) \in Nat
           /\ DOMAIN in.what.items[k] = 1 .. Len(in.what.items[k])
           /\ \A t \in 1 .. Len(in.what.items[k]) :
                /\ in.what.items[k][t][1] \in Nat
                /\ in.what.items[k][t][2] \in [1 .. FieldWords(in.what.header) -> Nat]
                /\ in.what.items[k][t] = <<in.what.items[k][t][1], in.what.items[k][t][2]>>
  <1> DEFINE C == [1 .. FieldWords(in.what.header) -> Nat]
  <1>1. in.what.items[k] \in Seq(Nat \X C)
    BY ItemTyped DEF ItemType
  <1> HIDE DEF C
  <1>2. \A t \in 1 .. Len(in.what.items[k]) : in.what.items[k][t] \in Nat \X C
    BY <1>1, Element, Zenon
  <1>3. Len(in.what.items[k]) \in Nat /\ DOMAIN in.what.items[k] = 1 .. Len(in.what.items[k])
    BY <1>1
  <1>4. \A t \in 1 .. Len(in.what.items[k]) :
           /\ in.what.items[k][t][1] \in Nat
           /\ in.what.items[k][t][2] \in C
           /\ in.what.items[k][t] = <<in.what.items[k][t][1], in.what.items[k][t][2]>>
    BY <1>2
  <1> QED BY <1>3, <1>4 DEF C

ComboAt(n, count, fw) ==
    [t \in 1 .. count |-> LET at == n + 1 + (t - 1) * (1 + fw) IN <<Word(at), Coeff(at + 1, fw)>>]

(***************************************************************************)
(* A linear combination that can be read is the one written there.         *)
(***************************************************************************)
LEMMA ComboReadsRight ==
    ASSUME in \in Inputs, in.kind = "r1cs", NEW k \in 1 .. Len(in.what.items),
           NEW n \in Nat, HoldsItem(in, n, in.what.items[k]), Has(n, 1),
           NEW fw, fw = FieldWords(in.what.header)
    PROVE  /\ Word(n) = Len(in.what.items[k])
           /\ ItemWords(in, in.what.items[k]) = 1 + Word(n) * (1 + fw)
           /\ Has(n, 1 + Word(n) * (1 + fw)) => ComboAt(n, Word(n), fw) = in.what.items[k]
  <1> DEFINE item == in.what.items[k]
             at(t) == n + 1 + (t - 1) * (1 + fw)
  <1>1. fw \in Nat /\ Len(item) \in Nat /\ Len(file) \in Nat
    BY HeaderTyped, ComboTyped, SectionTyped
  <1>2. /\ Holds(file, n, <<Len(item)>>)
        /\ \A t \in 1 .. Len(item) : Holds(file, at(t), <<item[t][1]>>) /\ Holds(file, at(t) + 1, item[t][2])
    BY DEF HoldsItem, file
  <1>3. Word(n) = Len(item)
    <2> HIDE DEF item
    <2> QED BY <1>1, <1>2 DEF Holds, Has, Word
  <1>4. ItemWords(in, item) = 1 + Word(n) * (1 + fw)
    BY <1>3 DEF ItemWords
  <1>5. ASSUME Has(n, 1 + Word(n) * (1 + fw)) PROVE ComboAt(n, Word(n), fw) = item
    <2>1. ASSUME NEW t \in 1 .. Len(item)
          PROVE  <<Word(at(t)), Coeff(at(t) + 1, fw)>> = item[t]
      <3>1. t - 1 \in Nat /\ t - 1 < Len(item) /\ 1 + fw \in Nat
        BY <1>1
      <3>2. /\ (t - 1) * (1 + fw) \in Nat /\ Len(item) * (1 + fw) \in Nat
            /\ (t - 1) * (1 + fw) + (1 + fw) <= Len(item) * (1 + fw)
        BY <1>1, <3>1, Products
      <3>3. PICK p \in Nat : p = (t - 1) * (1 + fw)
        BY <3>2
      <3>4. PICK q \in Nat : q = Len(item) * (1 + fw)
        BY <3>2
      <3>5. at(t) = n + 1 + p
        BY <3>3
      <3>6. n + 1 + q <= Len(file)
        <4>1. Has(n, 1 + q)
          BY <1>3, <1>5, <3>4, Zenon
        <4> QED BY <1>1, <4>1 DEF Has
      <3>7. p + 1 + fw <= q
        <4>1. p + (1 + fw) <= q
          BY <3>2, <3>3, <3>4, Zenon
        <4> QED BY <1>1, <4>1
      <3>8. item[t][1] \in Nat /\ item[t][2] \in [1 .. fw -> Nat] /\ item[t] = <<item[t][1], item[t][2]>>
        BY ComboTyped
      <3>9. Len(item[t][2]) = fw
        BY <1>1, <3>8, SMTT(30)
      <3>10. Holds(file, n + 1 + p, <<item[t][1]>>) /\ Holds(file, n + 1 + p + 1, item[t][2])
        BY <1>2, <3>5
      <3> HIDE DEF item, at
      <3>11. Word(n + 1 + p) = item[t][1]
        <4>1. n + 1 + p \in Nat /\ n + 1 + p + 1 <= Len(file)
          BY <1>1, <3>6, <3>7
        <4> QED BY <3>10, <4>1, OneWord DEF Word
      <3>12. Coeff(n + 1 + p + 1, fw) = item[t][2]
        <4>1. ASSUME NEW j \in 1 .. fw PROVE Word(n + 1 + p + 1 + j - 1) = item[t][2][j]
          <5>1. n + 1 + p + 1 + j <= Len(file) /\ n + 1 + p + 1 + j - 1 + 1 = n + 1 + p + 1 + j
            BY <1>1, <3>6, <3>7
          <5>2. file[n + 1 + p + 1 + j] = item[t][2][j]
            BY <3>9, <3>10, <5>1 DEF Holds
          <5> QED BY <5>1, <5>2 DEF Word
        <4> QED BY <1>1, <3>8, <4>1 DEF Coeff
      <3> QED BY <3>5, <3>8, <3>11, <3>12
    <2>2. DOMAIN item = 1 .. Len(item) /\ item \in [1 .. Len(item) -> Nat \X [1 .. fw -> Nat]]
      <3>1. item \in Seq(Nat \X [1 .. fw -> Nat])
        BY ItemTyped DEF ItemType
      <3> HIDE DEF item
      <3> QED BY <3>1
    <2>3. ComboAt(n, Word(n), fw) = [t \in 1 .. Len(item) |-> <<Word(at(t)), Coeff(at(t) + 1, fw)>>]
      BY <1>3 DEF ComboAt
    <2> HIDE DEF item, at
    <2> QED BY <2>1, <2>2, <2>3
  <1> QED BY <1>3, <1>4, <1>5

\* A wire that can be read is the one written there.
LEMMA WireReadsRight ==
    ASSUME in \in Inputs, in.kind = "wtns", NEW k \in 1 .. Len(in.what.items),
           NEW n \in Nat, HoldsItem(in, n, in.what.items[k]),
           NEW fw, fw = FieldWords(in.what.header)
    PROVE  /\ ItemWords(in, in.what.items[k]) = fw
           /\ Has(n, fw) => Coeff(n, fw) = in.what.items[k]
  <1> DEFINE item == in.what.items[k]
  <1>1. fw \in Nat /\ Len(file) \in Nat
    BY HeaderTyped, SectionTyped
  <1>2. item \in [1 .. fw -> Nat]
    BY ItemTyped DEF ItemType
  <1>3. Holds(file, n, item)
    BY DEF HoldsItem, file
  <1>4. ASSUME Has(n, fw) PROVE Coeff(n, fw) = item
    <2> HIDE DEF item
    <2>1. Len(item) = fw
      BY <1>1, <1>2
    <2>2. ASSUME NEW j \in 1 .. fw PROVE Word(n + j - 1) = item[j]
      <3>1. n + j <= Len(file) /\ n + j - 1 + 1 = n + j
        BY <1>1, <1>4 DEF Has
      <3>2. file[n + j] = item[j]
        BY <1>3, <2>1, <3>1 DEF Holds
      <3> QED BY <3>1, <3>2 DEF Word
    <2> QED BY <1>2, <2>2 DEF Coeff
  <1>5. ItemWords(in, item) = fw
    BY DEF ItemWords
  <1> QED BY <1>4, <1>5

LEMMA ItemWordsNat ==
    ASSUME in \in Inputs, NEW k \in 1 .. Len(in.what.items)
    PROVE  ItemWords(in, in.what.items[k]) \in Nat
  <1>1. FieldWords(in.what.header) \in Nat
    BY HeaderTyped
  <1>2. CASE in.kind = "r1cs"
    <2>1. Len(in.what.items[k]) \in Nat
      BY <1>2, ComboTyped
    <2>2. Len(in.what.items[k]) * (1 + FieldWords(in.what.header)) \in Nat
      BY <1>1, <2>1
    <2> QED BY <1>2, <2>2 DEF ItemWords
  <1>3. CASE in.kind = "wtns"
    BY <1>1, <1>3 DEF ItemWords
  <1> QED BY <1>2, <1>3, Input

LEMMA Least ==
    ASSUME NEW T, T \subseteq Nat, T # {}
    PROVE  \E m \in T : \A k \in T : m <= k
  <1>1. \E x \in T : \A y \in T : ~ (<<y, x>> \in OpToRel(<, Nat))
    BY NatLessThanWellFounded, WFMin
  <1>2. PICK x \in T : \A y \in T : ~ (<<y, x>> \in OpToRel(<, Nat))
    BY <1>1
  <1>3. \A y \in T : ~(y < x)
    <2>1. ASSUME NEW y \in T, y < x PROVE FALSE
      <3>1. <<y, x>> \in OpToRel(<, Nat)
        BY <2>1 DEF OpToRel
      <3> QED BY <3>1, <1>2
    <2> QED BY <2>1
  <1> QED BY <1>3

(***************************************************************************)
(* Offsets grow: of the items that end beyond the body, counted from the   *)
(* last, there is no first.                                                *)
(***************************************************************************)
LEMMA OffsetsGrow ==
    ASSUME in \in Inputs, NEW k \in 1 .. Len(in.what.items)
    PROVE  in.what.offsets[k] + ItemWords(in, in.what.items[k]) <= in.what.offsets[Len(in.what.items) + 1]
  <1> DEFINE L == Len(in.what.items)
             off(j) == in.what.offsets[j]
             T == {d \in Nat : d < L /\ ~(off(L + 1 - d) <= off(L + 1))}
  <1>1. L \in Nat /\ \A j \in 1 .. L : off(j) \in Nat /\ off(j + 1) \in Nat /\ off(j) <= off(j + 1)
    <2>1. L \in Nat /\ \A j \in 1 .. L : /\ off(j) \in Nat /\ off(j + 1) \in Nat
                                        /\ off(j + 1) = off(j) + ItemWords(in, in.what.items[j])
      BY ItemTyped
    <2>2. \A j \in 1 .. L : ItemWords(in, in.what.items[j]) \in Nat
      BY ItemWordsNat
    <2> HIDE DEF L, off
    <2> QED BY <2>1, <2>2
  <1>2. off(k + 1) = off(k) + ItemWords(in, in.what.items[k])
    BY ItemTyped
  <1>3. T = {}
    <2> SUFFICES ASSUME T # {} PROVE FALSE
      OBVIOUS
    <2>1. PICK m \in T : \A d \in T : m <= d
      <3> HIDE DEF off, L
      <3>1. T \subseteq Nat
        OBVIOUS
      <3> HIDE DEF T
      <3> QED BY <3>1, Least
    <2> HIDE DEF off, L
    <2>2. m # 0
      <3> SUFFICES ASSUME m = 0 PROVE FALSE
        OBVIOUS
      <3>1. L + 1 - m = L + 1 /\ L \in 1 .. L /\ off(L + 1) \in Nat
        <4>1. L \in 1 .. L
          BY <1>1, <2>1
        <4> QED BY <1>1, <4>1
      <3> QED BY <2>1, <3>1
    <2>3. m \in Nat /\ m < L /\ m - 1 \in Nat /\ L + 1 - m \in 1 .. L /\ L + 1 - m + 1 = L + 1 - (m - 1)
      BY <1>1, <2>1, <2>2
    <2>4. off(L + 1 - (m - 1)) <= off(L + 1)
      <3>1. m - 1 \notin T
        BY <2>1, <2>3
      <3>2. m - 1 < L
        BY <2>3, <1>1
      <3> QED BY <2>3, <3>1, <3>2
    <2>5. off(L + 1 - m) <= off(L + 1 - (m - 1)) /\ off(L + 1 - m) \in Nat /\ off(L + 1 - (m - 1)) \in Nat
      BY <1>1, <2>3
    <2>6. off(L + 1) \in Nat
      <3>1. L \in 1 .. L
        BY <1>1, <2>3
      <3> QED BY <1>1, <3>1
    <2> QED BY <2>1, <2>4, <2>5, <2>6
  <1> HIDE DEF off, L
  <1>4. off(k + 1) <= off(L + 1)
    <2>1. L - k \in Nat /\ L - k < L /\ L + 1 - (L - k) = k + 1
      BY <1>1 DEF L
    <2> QED BY <1>3, <2>1
  <1> QED BY <1>2, <1>4 DEF off, L

(***************************************************************************)
(* Where an item of a body is, and that a complete file has it.            *)
(***************************************************************************)
LEMMA ItemPlace ==
    ASSUME in \in Inputs, NEW s \in 1 .. Len(Secs), NEW b, IsBody(b, s),
           NEW k \in 1 .. Len(in.what.items)
    PROVE  /\ b + in.what.offsets[k] \in Nat
           /\ HoldsItem(in, b + in.what.offsets[k], in.what.items[k])
           /\ Complete(in) => b + in.what.offsets[k] + ItemWords(in, in.what.items[k]) <= Len(file)
  <1>1. b = Secs[s].at + 3 /\ Secs[s].type = BODY /\ Secs[s].at \in Nat /\ Secs[s].words \in Nat /\ Len(file) \in Nat
    BY SectionTyped DEF IsBody
  <1>2. /\ Secs[s].words = in.what.offsets[Len(in.what.items) + 1]
        /\ HoldsItem(in, Secs[s].at + 3 + in.what.offsets[k], in.what.items[k])
    BY <1>1, SectionTyped DEF HoldsSection
  <1>3. /\ in.what.offsets[k] \in Nat
        /\ in.what.offsets[k] + ItemWords(in, in.what.items[k]) <= Secs[s].words
        /\ ItemWords(in, in.what.items[k]) \in Nat
    BY <1>2, ItemTyped, OffsetsGrow, ItemWordsNat
  <1>4. Complete(in) => Secs[s].at + 3 + Secs[s].words <= Len(file)
    BY <1>1 DEF Complete, Secs, file
  <1>5. PICK at \in Nat : at = Secs[s].at
    BY <1>1
  <1>6. PICK off \in Nat : off = in.what.offsets[k]
    BY <1>3
  <1>7. PICK size \in Nat : size = ItemWords(in, in.what.items[k])
    BY <1>3
  <1>8. b = at + 3
    BY <1>1, <1>5
  <1>9. HoldsItem(in, b + off, in.what.items[k])
    BY <1>2, <1>5, <1>6, <1>8, Zenon
  <1>10. ASSUME Complete(in) PROVE b + off + size <= Len(file)
    <2>1. PICK words \in Nat : words = Secs[s].words
      BY <1>1
    <2>2. PICK len \in Nat : len = Len(file)
      BY <1>1
    <2>3. at + 3 + words <= len /\ off + size <= words
      BY <1>3, <1>4, <1>5, <1>6, <1>7, <1>10, <2>1, <2>2, Zenon
    <2>4. at + 3 + off + size <= len
      BY <2>3
    <2> QED BY <1>8, <2>2, <2>4, Zenon
  <1>11. b + off \in Nat
    BY <1>8
  <1> QED BY <1>6, <1>7, <1>9, <1>10, <1>11, Zenon
-----------------------------------------------------------------------------
LEMMA InitParse == Init => ParseInv
  <1> SUFFICES ASSUME Init PROVE ParseInv
    OBVIOUS
  <1>1. items \in Seq(ItemType(in))
    BY DEF Init
  <1> QED BY <1>1 DEF Init, ParseInv, AtScan, AtBody, ParsesWhatWasWritten, CompleteFilesParse

\* An error is right if the file is not complete or the field not eight bytes wide.
LEMMA FailParse ==
    ASSUME ParseInv, Fail, ~Complete(in) \/ in.what.header.fsb # 8
    PROVE  ParseInv'
  BY DEF Fail, ParseInv, parser, AtScan, AtBody, ParsesWhatWasWritten, CompleteFilesParse

LEMMA OpenParse == ASSUME ParseInv, Open PROVE ParseInv'
  <1> DEFINE accepted == Has(0, 3) /\ Word(0) = in.kind /\ Word(1) = Version(in.kind)
  <1>1. in \in Inputs /\ Len(Secs) \in Nat /\ Len(file) \in Nat
    BY SectionTyped DEF ParseInv
  <1>2. Holds(file, 0, <<in.what.magic, in.what.version, Len(Secs)>>)
    BY <1>1, Input DEF WellWritten, Secs, file
  <1>3. Has(0, 3) => Word(0) = in.what.magic /\ Word(1) = in.what.version /\ Word(2) = Len(Secs)
    BY <1>1, <1>2 DEF Holds, Has, Word
  <1>4. CASE accepted /\ pc' = "scan" /\ pos' = 3 /\ left' = Word(2) /\ UNCHANGED <<in, header, body, items, lift>>
    <2>1. left' = Len(Secs) /\ UNCHANGED Secs
      BY <1>3, <1>4 DEF Secs
    <2>2. Len(Secs) > 0 => Secs[1].at = 3
      BY <1>1, SectionTyped
    <2>3. Scanned' = {}
      BY <1>1, <2>1 DEF Scanned
    <2>4. AtScan'
      <3>1. left' \in 0 .. Len(Secs) /\ Len(Secs) - left' + 1 = 1
        BY <1>1, <2>1
      <3>2. header' = None /\ body' = None
        BY <1>4 DEF Open, ParseInv
      <3> QED BY <1>4, <2>1, <2>2, <2>3, <3>1, <3>2 DEF AtScan
    <2> QED BY <1>4, <2>4 DEF ParseInv, Open, AtBody, ParsesWhatWasWritten, CompleteFilesParse
  <1>5. CASE ~accepted /\ Fail
    <2>1. ~Complete(in)
      BY <1>3, <1>5, <1>1 DEF Complete, Has, file
    <2> QED BY <1>5, <2>1, FailParse
  <1> QED BY <1>4, <1>5 DEF Open

LEMMA NextSection ==
    ASSUME in \in Inputs, NEW s \in 1 .. Len(Secs), s + 1 \in 1 .. Len(Secs)
    PROVE  Secs[s + 1].at = Secs[s].at + 3 + Secs[s].words
  <1> DEFINE t == s + 1
  <1>1. t \in 1 .. Len(Secs) /\ t # 1 /\ t - 1 = s
    OBVIOUS
  <1> HIDE DEF t
  <1>2. Secs[t].at = IF t = 1 THEN 3 ELSE Secs[t - 1].at + 3 + Secs[t - 1].words
    BY <1>1, SectionTyped
  <1> QED BY <1>1, <1>2 DEF t

LEMMA SectionParse == ASSUME ParseInv, Section PROVE ParseInv'
  <1> DEFINE s == Len(Secs) - left + 1
             type == Word(pos)
             readable == Has(pos, 3) /\ (type = HEADER => HeaderReads(pos + 3))
  <1>1. in \in Inputs /\ Len(Secs) \in Nat /\ Len(file) \in Nat /\ pc = "scan"
    BY SectionTyped DEF ParseInv, Section
  <1>2. left \in Nat /\ left > 0 /\ s \in 1 .. Len(Secs) /\ pos = Secs[s].at /\ pos \in Nat /\ Secs[s].words \in Nat
    <2>1. left \in 0 .. Len(Secs) /\ left > 0 /\ pos = Secs[s].at
      BY <1>1 DEF ParseInv, AtScan, Section
    <2>2. s \in 1 .. Len(Secs)
      BY <1>1, <2>1
    <2> QED BY <1>1, <2>1, <2>2, SectionTyped
  <1>3. Has(pos, 3) => type = Secs[s].type /\ SectionEnd(pos) = Secs[s].at + 3 + Secs[s].words
    <2> HIDE DEF s
    <2> QED BY <1>1, <1>2, SectionReads
  <1>4. Secs[s].type = HEADER => Secs[s].words = HeaderWords(in) /\ HoldsHeader(in, pos + 3)
    <2> HIDE DEF s
    <2> QED BY <1>1, <1>2, SectionTyped DEF HoldsSection
  <1>5. Secs[s].type = HEADER =>
            /\ HeaderReads(pos + 3) => HeaderAt(pos + 3) = in.what.header
            /\ Len(file) >= pos + 3 + HeaderWords(in) => HeaderReads(pos + 3)
    <2>1. pos + 3 \in Nat
      BY <1>2
    <2> QED BY <1>1, <1>4, <2>1, HeaderReadsRight
  <1>6. CASE /\ readable
             /\ header' = IF type = HEADER THEN HeaderAt(pos + 3) ELSE header
             /\ body'   = IF type = BODY THEN pos + 3 ELSE body
             /\ pos' = SectionEnd(pos)
             /\ left' = left - 1
             /\ UNCHANGED <<pc, in, items, lift>>
    <2>1. type = Secs[s].type /\ pos' = Secs[s].at + 3 + Secs[s].words /\ UNCHANGED Secs
      BY <1>3, <1>6 DEF Secs
    <2>2. left' \in 0 .. Len(Secs) /\ Scanned' = Scanned \cup {s} /\ s \in Scanned'
      <3>1. Scanned' = 1 .. Len(Secs) - (left - 1)
        BY <1>6, <2>1 DEF Scanned
      <3>2. left - 1 \in 0 .. Len(Secs) /\ s = Len(Secs) - (left - 1)
        BY <1>1, <1>2
      <3>3. 1 .. Len(Secs) - (left - 1) = (1 .. Len(Secs) - left) \cup {s}
        BY <1>1, <1>2
      <3> QED BY <1>1, <1>2, <1>6, <3>1, <3>2, <3>3 DEF Scanned
    <2>3. left' > 0 => pos' = Secs[Len(Secs) - left' + 1].at
      <3>1. ASSUME left' > 0 PROVE s + 1 \in 1 .. Len(Secs) /\ Len(Secs) - left' + 1 = s + 1 /\ s + 1 # 1 /\ s + 1 - 1 = s
        BY <1>1, <1>2, <1>6, <3>1
      <3>2. ASSUME left' > 0 PROVE Secs[s + 1].at = Secs[s].at + 3 + Secs[s].words
        <4> HIDE DEF s
        <4> QED BY <1>1, <1>2, <3>1, <3>2, NextSection
      <3> HIDE DEF s
      <3> QED BY <2>1, <3>1, <3>2
    <2> HIDE DEF s
    <2>4. header' = in.what.header \/ (header' = None /\ \A k \in Scanned' : Secs[k].type # HEADER)
      <3>1. CASE type = HEADER
        <4>1. header' = HeaderAt(pos + 3) /\ HeaderReads(pos + 3)
          BY <1>6, <3>1
        <4> QED BY <1>5, <2>1, <3>1, <4>1
      <3>2. CASE type # HEADER
        <4>1. header' = header /\ Secs[s].type # HEADER
          BY <1>6, <2>1, <3>2
        <4> QED BY <1>1, <2>2, <4>1 DEF ParseInv, AtScan
      <3> QED BY <3>1, <3>2
    <2>5. (\E k \in Scanned' : IsBody(body', k)) \/ (body' = None /\ \A k \in Scanned' : Secs[k].type # BODY)
      <3>1. CASE type = BODY
        <4>1. IsBody(body', s)
          BY <1>2, <1>6, <2>1, <3>1 DEF IsBody
        <4> QED BY <2>2, <4>1
      <3>2. CASE type # BODY
        <4>1. body' = body /\ Secs[s].type # BODY
          BY <1>6, <2>1, <3>2
        <4> QED BY <1>1, <2>2, <4>1 DEF ParseInv, AtScan
      <3> QED BY <3>1, <3>2
    <2>6. AtScan'
      BY <1>6, <2>1, <2>2, <2>3, <2>4, <2>5 DEF AtScan, IsBody
    <2> QED BY <1>1, <1>6, <2>6 DEF ParseInv, AtBody, ParsesWhatWasWritten, CompleteFilesParse
  <1>7. CASE ~readable /\ Fail
    <2>1. ~Complete(in)
      <3> SUFFICES ASSUME Complete(in) PROVE readable
        BY <1>7
      <3> HIDE DEF s
      <3>1. Len(file) >= pos + 3 + Secs[s].words
        BY <1>2, <1>1 DEF Complete, file, Secs
      <3>2. Has(pos, 3)
        BY <1>1, <1>2, <3>1 DEF Has
      <3>3. Secs[s].type = HEADER => HeaderReads(pos + 3)
        BY <1>4, <1>5, <3>1
      <3> QED BY <1>3, <3>2, <3>3
    <2> QED BY <1>7, <2>1, FailParse
  <1> QED BY <1>6, <1>7 DEF Section

LEMMA EndScanParse == ASSUME ParseInv, EndScan PROVE ParseInv'
  <1>1. in \in Inputs /\ Len(Secs) \in Nat /\ in.what.header # None
    BY SectionTyped, Input DEF ParseInv
  <1>2. pc = "scan" /\ left = 0 /\ Scanned = 1 .. Len(Secs) /\ items = <<>> /\ AtScan
    BY <1>1 DEF EndScan, Scanned, ParseInv
  <1>3. CASE header # None /\ body # None /\ pc' = "body" /\ pos' = body /\ UNCHANGED <<in, left, header, body, items, lift>>
    <2>1. header = in.what.header
      BY <1>2, <1>3 DEF AtScan
    <2>2. PICK s \in 1 .. Len(Secs) : IsBody(body, s)
      BY <1>2, <1>3 DEF AtScan
    <2>3. Secs' = Secs /\ IsBody(body, s)' /\ Len(items') = 0 /\ Len(in.what.items) \in Nat
      BY <1>1, <1>2, <1>3, <2>2, ItemTyped DEF Secs, IsBody
    <2>4. pos' = body' + in'.what.offsets[Len(items') + 1]
      <3>1. in.what.offsets[1] = 0 /\ body \in Nat
        BY <1>1, <2>2, ItemTyped, SectionTyped DEF IsBody
      <3> QED BY <1>3, <2>3, <3>1
    <2>5. AtBody'
      BY <1>3, <2>1, <2>3, <2>4 DEF AtBody
    <2> QED BY <1>1, <1>2, <1>3, <2>5 DEF ParseInv, AtScan, ParsesWhatWasWritten, CompleteFilesParse
  <1>4. CASE (header = None \/ body = None) /\ Fail
    <2>1. ~Complete(in)
      <3> SUFFICES ASSUME Complete(in) PROVE FALSE
        OBVIOUS
      <3>1. \A type \in {HEADER, BODY} : \E s \in 1 .. Len(Secs) : Secs[s].type = type
        BY DEF Complete, Secs
      <3>2. header # None
        BY <1>1, <1>2, <3>1 DEF AtScan
      <3>3. body # None
        <4>1. \E s \in 1 .. Len(Secs) : IsBody(body, s)
          BY <1>2, <3>1 DEF AtScan
        <4>2. body \in Nat
          BY <1>1, <4>1, SectionTyped DEF IsBody
        <4> QED BY <4>2, InputsAssumption
      <3> QED BY <1>4, <3>2, <3>3
    <2> QED BY <1>4, <2>1, FailParse
  <1> QED BY <1>3, <1>4 DEF EndScan

(***************************************************************************)
(* An item is being read at its place.                                     *)
(***************************************************************************)
LEMMA AtItem ==
    ASSUME ParseInv, pc = "body", Len(items) < ItemCount(in.kind, header)
    PROVE  \E k \in 1 .. Len(in.what.items) :
             /\ k = Len(items) + 1 /\ header = in.what.header
             /\ pos \in Nat
             /\ HoldsItem(in, pos, in.what.items[k])
             /\ ItemWords(in, in.what.items[k]) \in Nat
             /\ Complete(in) => pos + ItemWords(in, in.what.items[k]) <= Len(file)
  <1>1. in \in Inputs /\ header = in.what.header /\ Len(items) \in Nat
    BY DEF ParseInv, AtBody
  <1>2. Len(in.what.items) \in Nat /\ Len(in.what.items) = ItemCount(in.kind, header)
    BY <1>1, ItemTyped
  <1>3. PICK k \in 1 .. Len(in.what.items) : k = Len(items) + 1
    BY <1>1, <1>2
  <1>4. PICK s \in 1 .. Len(Secs) : IsBody(body, s)
    BY DEF ParseInv, AtBody
  <1>5. pos = body + in.what.offsets[k]
    BY <1>3 DEF ParseInv, AtBody
  <1>6. /\ body + in.what.offsets[k] \in Nat
        /\ HoldsItem(in, body + in.what.offsets[k], in.what.items[k])
        /\ Complete(in) => body + in.what.offsets[k] + ItemWords(in, in.what.items[k]) <= Len(file)
    BY <1>1, <1>4, ItemPlace
  <1>7. ItemWords(in, in.what.items[k]) \in Nat
    BY <1>1, ItemWordsNat
  <1> QED BY <1>1, <1>3, <1>5, <1>6, <1>7, Zenon

LEMMA ItemParse ==
    ASSUME ParseInv, pc = "body", NEW k \in 1 .. Len(in.what.items), k = Len(items) + 1,
           items' = Append(items, in.what.items[k]),
           pos' = pos + ItemWords(in, in.what.items[k]),
           UNCHANGED <<pc, in, left, header, body, lift>>
    PROVE  ParseInv'
  <1>1. in \in Inputs /\ items \in Seq(ItemType(in)) /\ AtBody
    BY DEF ParseInv
  <1>2. /\ in.what.items[k] \in ItemType(in)
        /\ in.what.offsets[k] \in Nat /\ in.what.offsets[k + 1] \in Nat
        /\ in.what.offsets[k + 1] = in.what.offsets[k] + ItemWords(in, in.what.items[k])
        /\ Len(in.what.items) \in Nat
    BY <1>1, ItemTyped
  <1>3. /\ items' \in Seq(ItemType(in)) /\ Len(items') = k
        /\ \A j \in 1 .. Len(items) : items'[j] = items[j]
        /\ items'[k] = in.what.items[k]
    <2> DEFINE S == ItemType(in)
               e == in.what.items[k]
    <2>1. items \in Seq(S) /\ e \in S /\ items' = Append(items, e)
      BY <1>1, <1>2
    <2> HIDE DEF S, e
    <2>2. items' \in Seq(S) /\ Len(items') = k /\ (\A j \in 1 .. Len(items) : items'[j] = items[j]) /\ items'[k] = e
      BY <2>1
    <2> QED BY <2>2 DEF S, e
  <1>4. pos' = body + in.what.offsets[k + 1]
    <2>1. PICK s \in 1 .. Len(Secs) : IsBody(body, s)
      BY <1>1 DEF AtBody
    <2>2. body \in Nat
      BY <1>1, <2>1, SectionTyped DEF IsBody
    <2>3. pos = body + in.what.offsets[k] /\ ItemWords(in, in.what.items[k]) \in Nat
      BY <1>1, ItemWordsNat DEF AtBody
    <2>4. PICK b \in Nat, off \in Nat, w \in Nat : b = body /\ off = in.what.offsets[k] /\ w = ItemWords(in, in.what.items[k])
      BY <1>2, <2>2, <2>3
    <2>5. in.what.offsets[k + 1] = off + w /\ pos' = b + off + w
      BY <1>2, <2>3, <2>4, Zenon
    <2>6. b + (off + w) = b + off + w
      OBVIOUS
    <2> QED BY <2>4, <2>5, <2>6, Zenon
  <1>5. \A j \in 1 .. Len(items') : items'[j] = in.what.items[j]
    <2>1. \A j \in 1 .. k : j = k \/ j \in 1 .. Len(items)
      BY <1>1
    <2> QED BY <1>1, <1>3, <2>1 DEF AtBody
  <1>6. Secs' = Secs /\ \A s : IsBody(body, s)' <=> IsBody(body, s)
    BY DEF Secs, IsBody
  <1>7. AtBody'
    <2>1. Len(items') <= Len(in.what.items)
      BY <1>2, <1>3
    <2>2. header = in.what.header /\ \E s \in 1 .. Len(Secs) : IsBody(body, s)
      BY <1>1 DEF AtBody
    <2> QED BY <1>3, <1>4, <1>5, <1>6, <2>1, <2>2 DEF AtBody
  <1> QED BY <1>1, <1>3, <1>7 DEF ParseInv, AtScan, ParsesWhatWasWritten, CompleteFilesParse

LEMMA ComboParse == ASSUME ParseInv, Combo PROVE ParseInv'
  <1> DEFINE fw == FieldWords(header)
             count == Word(pos)
             readable == Has(pos, 1) /\ Has(pos, 1 + count * (1 + fw))
  <1>1. in \in Inputs /\ pc = "body" /\ in.kind = "r1cs" /\ Len(file) \in Nat
    BY SectionTyped DEF ParseInv, Combo
  <1>2. PICK k \in 1 .. Len(in.what.items) :
             /\ k = Len(items) + 1 /\ header = in.what.header
             /\ pos \in Nat
             /\ HoldsItem(in, pos, in.what.items[k])
             /\ ItemWords(in, in.what.items[k]) \in Nat
             /\ Complete(in) => pos + ItemWords(in, in.what.items[k]) <= Len(file)
    BY AtItem DEF Combo
  <1>3. fw = FieldWords(in.what.header) /\ fw \in Nat
    BY <1>1, <1>2, HeaderTyped
  <1>4. Has(pos, 1) => /\ count = Len(in.what.items[k])
                       /\ ItemWords(in, in.what.items[k]) = 1 + count * (1 + fw)
                       /\ Has(pos, 1 + count * (1 + fw)) => ComboAt(pos, count, fw) = in.what.items[k]
    <2> HIDE DEF fw
    <2> QED BY <1>1, <1>2, <1>3, ComboReadsRight
  <1>5. CASE readable /\ items' = Append(items, ComboAt(pos, count, fw)) /\ pos' = pos + 1 + count * (1 + fw)
             /\ UNCHANGED <<pc, in, left, header, body, lift>>
    <2>1. items' = Append(items, in.what.items[k])
      BY <1>4, <1>5
    <2>2. pos' = pos + ItemWords(in, in.what.items[k])
      <3>1. PICK w \in Nat : w = ItemWords(in, in.what.items[k])
        BY <1>2
      <3>2. Len(in.what.items[k]) \in Nat
        BY <1>1, ComboTyped
      <3>3. PICK p \in Nat : p = count * (1 + fw)
        BY <1>3, <1>4, <1>5, <3>2
      <3>4. w = 1 + p /\ pos' = pos + 1 + p
        BY <1>4, <1>5, <3>1, <3>3, Zenon
      <3>5. pos + 1 + p = pos + (1 + p)
        BY <1>2
      <3> QED BY <3>1, <3>4, <3>5, Zenon
    <2> QED BY <1>1, <1>2, <1>5, <2>1, <2>2, ItemParse
  <1>6. CASE ~readable /\ Fail
    <2>1. ~Complete(in)
      <3> SUFFICES ASSUME Complete(in) PROVE readable
        BY <1>6
      <3>1. PICK w \in Nat : w = ItemWords(in, in.what.items[k])
        BY <1>2
      <3>2. pos + w <= Len(file)
        BY <1>2, <3>1
      <3>3. Len(in.what.items[k]) \in Nat /\ ItemWords(in, in.what.items[k]) = 1 + Len(in.what.items[k]) * (1 + fw)
        BY <1>1, <1>3, ComboTyped DEF ItemWords
      <3>4. w >= 1
        <4>1. PICK p \in Nat : p = Len(in.what.items[k]) * (1 + fw)
          BY <1>3, <3>3
        <4>2. w = 1 + p
          BY <3>1, <3>3, <4>1, Zenon
        <4> QED BY <4>2
      <3>5. Has(pos, 1)
        BY <1>1, <1>2, <3>2, <3>4 DEF Has
      <3>6. Has(pos, w)
        BY <3>2 DEF Has
      <3> QED BY <1>4, <3>1, <3>5, <3>6, Zenon
    <2> QED BY <1>6, <2>1, FailParse
  <1> QED BY <1>5, <1>6 DEF Combo, ComboAt

LEMMA WireParse == ASSUME ParseInv, Wire PROVE ParseInv'
  <1> DEFINE fw == FieldWords(header)
  <1>1. in \in Inputs /\ pc = "body" /\ in.kind = "wtns"
    BY DEF ParseInv, Wire
  <1>2. PICK k \in 1 .. Len(in.what.items) :
             /\ k = Len(items) + 1 /\ header = in.what.header
             /\ pos \in Nat
             /\ HoldsItem(in, pos, in.what.items[k])
             /\ ItemWords(in, in.what.items[k]) \in Nat
             /\ Complete(in) => pos + ItemWords(in, in.what.items[k]) <= Len(file)
    BY AtItem DEF Wire
  <1>3. fw = FieldWords(in.what.header)
    BY <1>2
  <1>4. ItemWords(in, in.what.items[k]) = fw /\ (Has(pos, fw) => Coeff(pos, fw) = in.what.items[k])
    <2> HIDE DEF fw
    <2> QED BY <1>1, <1>2, <1>3, WireReadsRight
  <1>5. CASE Has(pos, fw) /\ items' = Append(items, Coeff(pos, fw)) /\ pos' = pos + fw
             /\ UNCHANGED <<pc, in, left, header, body, lift>>
    <2>1. items' = Append(items, in.what.items[k]) /\ pos' = pos + ItemWords(in, in.what.items[k])
      BY <1>4, <1>5
    <2> QED BY <1>1, <1>2, <1>5, <2>1, ItemParse
  <1>6. CASE ~Has(pos, fw) /\ Fail
    <2>1. ~Complete(in)
      BY <1>2, <1>4, <1>6, Zenon DEF Has
    <2> QED BY <1>6, <2>1, FailParse
  <1> QED BY <1>5, <1>6 DEF Wire

LEMMA EndBodyParse == ASSUME ParseInv, EndBody PROVE ParseInv'
  <1>1. in \in Inputs /\ items \in Seq(ItemType(in)) /\ AtBody /\ pc = "body"
    BY DEF ParseInv, EndBody
  <1>2. /\ header = in.what.header /\ Len(items) = Len(in.what.items)
        /\ in.what.items \in Seq(ItemType(in))
    BY <1>1, ItemTyped DEF EndBody, AtBody
  <1>3. items = in.what.items
    <2> DEFINE S == ItemType(in)
               written == in.what.items
    <2>1. items \in Seq(S) /\ written \in Seq(S) /\ Len(items) = Len(written)
      BY <1>1, <1>2
    <2>2. \A k \in 1 .. Len(items) : items[k] = written[k]
      BY <1>1 DEF AtBody
    <2> HIDE DEF S, written
    <2>3. items = written
      BY <2>1, <2>2
    <2> QED BY <2>3 DEF written
  <1> QED BY <1>1, <1>2, <1>3 DEF EndBody, parser, ParseInv, AtScan, AtBody, ParsesWhatWasWritten, CompleteFilesParse

\* The lift leaves what the parser returned alone.
LEMMA AfterParse ==
    ASSUME ParseInv, pc \in {"parsed", "lift", "lifted", "error"}, UNCHANGED parser,
           pc' \in {"lift", "lifted"} => pc \in {"parsed", "lift", "lifted"},
           pc' \in {"lift", "lifted", "error"},
           pc' = "error" => pc = "error"
    PROVE  ParseInv'
  BY DEF parser, ParseInv, AtScan, AtBody, ParsesWhatWasWritten, CompleteFilesParse

LEMMA StartLiftParse == ASSUME ParseInv, StartLift PROVE ParseInv'
  <1>1. header = in.what.header
    BY DEF StartLift, ParseInv, ParsesWhatWasWritten
  <1>2. CASE header.fsb = 8 /\ pc' \in {"lift", "lifted"} /\ UNCHANGED parser
    BY <1>2, AfterParse DEF StartLift
  <1>3. CASE header.fsb # 8 /\ Fail
    BY <1>1, <1>3, FailParse
  <1> QED BY <1>2, <1>3 DEF StartLift

LEMMA ParseStep == ASSUME ParseInv, [Next]_vars PROVE ParseInv'
  <1>1. ASSUME DenseTerm \/ DenseNext \/ SparseTerm \/ SparseNext \/ EndLift PROVE ParseInv'
    <2>1. pc = "lift" /\ pc' \in {"lift", "lifted"} /\ UNCHANGED parser
      BY <1>1 DEF DenseTerm, DenseNext, SparseTerm, SparseNext, EndLift
    <2> QED BY <2>1, AfterParse
  <1>2. ASSUME UNCHANGED vars PROVE ParseInv'
    BY <1>2 DEF vars, parser, ParseInv, AtScan, AtBody, ParsesWhatWasWritten, CompleteFilesParse, Secs, Scanned, IsBody
  <1> QED BY <1>1, <1>2, OpenParse, SectionParse, EndScanParse, ComboParse, WireParse, EndBodyParse,
             StartLiftParse DEF Next, Finished
-----------------------------------------------------------------------------
LEMMA Place ==
    ASSUME NEW n \in Nat, NEW W \in Nat, NEW r \in 0 .. n - 1, NEW w \in 0 .. W - 1
    PROVE  r * W + w \in 0 .. n * W - 1
  <1>1. r * W \in Nat /\ n * W \in Nat /\ r * W + W <= n * W
    BY Products
  <1>2. PICK a \in Nat, c \in Nat : a = r * W /\ c = n * W
    BY <1>1
  <1>3. a + W <= c
    BY <1>1, <1>2, Zenon
  <1>4. a + w \in 0 .. c - 1
    BY <1>3
  <1> QED BY <1>2, <1>4, Zenon

LEMMA SamePlace ==
    ASSUME NEW W \in Nat, NEW r \in Nat, NEW w \in 0 .. W - 1, NEW q \in Nat, NEW v \in 0 .. W - 1,
           q * W + v = r * W + w
    PROVE  q = r /\ v = w
  <1>1. PICK a \in Nat, b \in Nat : a = r * W /\ b = q * W
    OBVIOUS
  <1>2. b + v = a + w
    BY <1>1, Zenon
  <1>3. ~(q < r)
    <2> SUFFICES ASSUME q < r PROVE FALSE
      OBVIOUS
    <2>1. q * W + W <= r * W
      BY Products
    <2>2. b + W <= a
      BY <1>1, <2>1, Zenon
    <2> QED BY <1>2, <2>2
  <1>4. ~(r < q)
    <2> SUFFICES ASSUME r < q PROVE FALSE
      OBVIOUS
    <2>1. r * W + W <= q * W
      BY Products
    <2>2. a + W <= b
      BY <1>1, <2>1, Zenon
    <2> QED BY <1>2, <2>2
  <1>5. q = r
    BY <1>3, <1>4
  <1>6. a = b
    BY <1>1, <1>5
  <1> QED BY <1>2, <1>5, <1>6

(***************************************************************************)
(* The combinations of a parsed file, by row and matrix.                   *)
(***************************************************************************)
LEMMA Combinations ==
    ASSUME ParseInv, pc \in {"parsed", "lift", "lifted"}, in.kind = "r1cs"
    PROVE  /\ items = in.what.items
           /\ header.count \in Nat /\ header.wires \in Nat
           /\ \A m \in 1 .. 3, r \in 0 .. header.count - 1 :
                /\ Len(items[3 * r + m]) \in Nat
                /\ header.fsb = 8 => \A t \in 1 .. Len(items[3 * r + m]) :
                     items[3 * r + m][t][1] \in Nat /\ coeff_to_f(items[3 * r + m][t][2]) \in Values
  <1>1. in \in Inputs /\ items = in.what.items /\ header = in.what.header
    BY DEF ParseInv, ParsesWhatWasWritten
  <1>2. header.count \in Nat /\ header.wires \in Nat
    BY <1>1, HeaderTyped
  <1>3. Len(items) = 3 * header.count
    BY <1>1, ItemTyped DEF ItemCount
  <1>4. ASSUME NEW m \in 1 .. 3, NEW r \in 0 .. header.count - 1
        PROVE  /\ Len(items[3 * r + m]) \in Nat
               /\ header.fsb = 8 => \A t \in 1 .. Len(items[3 * r + m]) :
                    items[3 * r + m][t][1] \in Nat /\ coeff_to_f(items[3 * r + m][t][2]) \in Values
    <2>1. PICK k \in 1 .. Len(in.what.items) : k = 3 * r + m
      <3>1. 3 * r + m \in 1 .. Len(in.what.items)
        BY <1>1, <1>2, <1>3
      <3> QED BY <3>1
    <2>2. /\ Len(in.what.items[k]) \in Nat
          /\ \A t \in 1 .. Len(in.what.items[k]) :
               /\ in.what.items[k][t][1] \in Nat
               /\ in.what.items[k][t][2] \in [1 .. FieldWords(in.what.header) -> Nat]
      BY <1>1, ComboTyped
    <2>3. header.fsb = 8 => FieldWords(in.what.header) = 2
      BY <1>1 DEF FieldWords
    <2> QED BY <1>1, <2>1, <2>2, <2>3 DEF Values
  <1> QED BY <1>1, <1>2, <1>4

LEMMA LiftingFile ==
    ASSUME ParseInv, pc \in {"parsed", "lift", "lifted"}, in.kind = "r1cs", header.fsb = 8
    PROVE  items = in.what.items /\ header = in.what.header /\ Typed(in)
  <1>1. header = in.what.header
    BY DEF ParseInv, ParsesWhatWasWritten
  <1> QED BY <1>1, Combinations DEF Typed, Terms, WireOf, ValueOf, Rows

\* Walk v has done what w has, and term t of row r of matrix m.
OneMore(w, v, m, r, t) ==
    \A n, q : \A u \in Nat : Done(v, n, q, u) <=> Done(w, n, q, u) \/ (n = m /\ q = r /\ u = t)

(***************************************************************************)
(* How a walk goes: one term more, or the same terms at the end of a row   *)
(* or of a matrix.                                                         *)
(***************************************************************************)
LEMMA WalkTerm ==
    ASSUME NEW i, Typed(i), NEW w, WalkOK(i, w), w.matrix < 4, w.row < i.what.header.count,
           w.term < Len(i.what.items[3 * w.row + w.matrix]),
           NEW v, v = [w EXCEPT !.term = @ + 1]
    PROVE  /\ WalkOK(i, v)
           /\ w.matrix \in 1 .. 3 /\ w.row \in Rows(i) /\ w.term + 1 \in Terms(i, w.matrix, w.row)
           /\ OneMore(w, v, w.matrix, w.row, w.term + 1)
           /\ ~Done(w, w.matrix, w.row, w.term + 1)
  <1>1. /\ w.matrix \in 1 .. 3 /\ w.row \in Rows(i) /\ w.term \in Nat
        /\ w = [matrix |-> w.matrix, row |-> w.row, term |-> w.term]
    BY DEF WalkOK, Typed, Rows
  <1>2. PICK len \in Nat : len = Len(i.what.items[3 * w.row + w.matrix])
    BY <1>1 DEF Typed
  <1>3. v = [matrix |-> w.matrix, row |-> w.row, term |-> w.term + 1]
    BY <1>1
  <1>4. WalkOK(i, v)
    BY <1>1, <1>2, <1>3 DEF WalkOK
  <1>5. w.term + 1 \in Terms(i, w.matrix, w.row)
    BY <1>1, <1>2 DEF Terms
  <1>6. ~Done(w, w.matrix, w.row, w.term + 1)
    BY <1>1 DEF Done, Rows
  <1>7. ASSUME NEW m, NEW r, NEW t \in Nat
        PROVE  Done(v, m, r, t) <=> Done(w, m, r, t) \/ (m = w.matrix /\ r = w.row /\ t = w.term + 1)
    <2>1. t <= w.term + 1 <=> t <= w.term \/ t = w.term + 1
      BY <1>1
    <2> QED BY <1>3, <2>1 DEF Done
  <1> QED BY <1>1, <1>4, <1>5, <1>6, <1>7 DEF OneMore

LEMMA WalkNext ==
    ASSUME NEW i, Typed(i), NEW w, WalkOK(i, w), w.matrix < 4, NEW v,
           \/ /\ w.row < i.what.header.count /\ w.term = Len(i.what.items[3 * w.row + w.matrix])
              /\ v = [w EXCEPT !.row = @ + 1, !.term = 0]
           \/ /\ w.row = i.what.header.count
              /\ v = [matrix |-> w.matrix + 1, row |-> 0, term |-> 0]
    PROVE  /\ WalkOK(i, v)
           /\ \A m \in 1 .. 3, r \in Rows(i) : \A t \in Terms(i, m, r) : Done(v, m, r, t) <=> Done(w, m, r, t)
  <1>1. /\ w.matrix \in 1 .. 3 /\ w.row \in 0 .. i.what.header.count /\ w.term \in Nat
        /\ w = [matrix |-> w.matrix, row |-> w.row, term |-> w.term]
        /\ i.what.header.count \in Nat
    BY DEF WalkOK, Typed
  <1>2. \A m \in 1 .. 3, r \in Rows(i) : Len(i.what.items[3 * r + m]) \in Nat
    BY DEF Typed
  <1>3. CASE /\ w.row < i.what.header.count /\ w.term = Len(i.what.items[3 * w.row + w.matrix])
             /\ v = [w EXCEPT !.row = @ + 1, !.term = 0]
    <2>1. v = [matrix |-> w.matrix, row |-> w.row + 1, term |-> 0]
      BY <1>1, <1>3
    <2>2. WalkOK(i, v)
      <3>1. w.row + 1 < i.what.header.count => 0 <= Len(i.what.items[3 * (w.row + 1) + w.matrix])
        <4>1. w.row + 1 < i.what.header.count => w.row + 1 \in Rows(i)
          BY <1>1 DEF Rows
        <4>2. w.row + 1 \in Rows(i) => Len(i.what.items[3 * (w.row + 1) + w.matrix]) \in Nat
          BY <1>1, <1>2
        <4> QED BY <4>1, <4>2
      <3>2. w.row + 1 \in 0 .. i.what.header.count
        BY <1>1, <1>3
      <3> QED BY <1>1, <2>1, <3>1, <3>2 DEF WalkOK
    <2>3. ASSUME NEW m \in 1 .. 3, NEW r \in Rows(i), NEW t \in Terms(i, m, r)
          PROVE  Done(v, m, r, t) <=> Done(w, m, r, t)
      <3>1. r \in Nat /\ t \in Nat /\ t >= 1
        BY <1>2 DEF Rows, Terms
      <3>2. r < w.row + 1 <=> r < w.row \/ r = w.row
        BY <1>1, <3>1
      <3>3. m = w.matrix /\ r = w.row => t <= w.term
        BY <1>3, <1>2 DEF Terms
      <3>4. ~(t <= 0)
        BY <3>1
      <3> QED BY <2>1, <3>2, <3>3, <3>4 DEF Done
    <2> QED BY <2>2, <2>3
  <1>4. CASE w.row = i.what.header.count /\ v = [matrix |-> w.matrix + 1, row |-> 0, term |-> 0]
    <2>1. WalkOK(i, v)
      <3>1. w.matrix + 1 < 4 /\ 0 < i.what.header.count => 0 <= Len(i.what.items[3 * 0 + (w.matrix + 1)])
        <4>1. w.matrix + 1 < 4 /\ 0 < i.what.header.count => 0 \in Rows(i) /\ w.matrix + 1 \in 1 .. 3
          BY <1>1 DEF Rows
        <4> QED BY <1>2, <4>1
      <3>2. w.matrix + 1 \in 1 .. 4 /\ 0 \in 0 .. i.what.header.count
        BY <1>1
      <3> QED BY <1>4, <3>1, <3>2 DEF WalkOK
    <2>2. ASSUME NEW m \in 1 .. 3, NEW r \in Rows(i), NEW t \in Terms(i, m, r)
          PROVE  Done(v, m, r, t) <=> Done(w, m, r, t)
      <3>1. r \in 0 .. i.what.header.count - 1 /\ t \in Nat /\ t >= 1
        BY <1>2 DEF Rows, Terms
      <3>2. r < w.row /\ ~(r < 0) /\ ~(r = 0 /\ t <= 0)
        BY <1>1, <1>4, <3>1
      <3>3. m < w.matrix + 1 <=> m < w.matrix \/ m = w.matrix
        BY <1>1
      <3> QED BY <1>4, <3>2, <3>3 DEF Done
    <2> QED BY <2>1, <2>2
  <1> QED BY <1>3, <1>4

\* What holds of a walk holds of another that has done the same terms.
SameDone(i, w, v) ==
    \A m \in 1 .. 3, r \in Rows(i) : \A t \in Terms(i, m, r) : Done(v, m, r, t) <=> Done(w, m, r, t)

LEMMA DenseSame ==
    ASSUME NEW i, NEW d, NEW w, NEW v, DenseHolds(i, d, w), SameDone(i, w, v)
    PROVE  DenseHolds(i, d, v)
  BY DEF DenseHolds, SameDone

LEMMA SparseSame ==
    ASSUME NEW i, NEW s, NEW w, NEW v, SparseHolds(i, s, w), SameDone(i, w, v)
    PROVE  SparseHolds(i, s, v)
  <1>1. ASSUME NEW m \in 1 .. 3 PROVE Kept(i, s[m], v, m) /\ Sound(i, s[m], v, m)
    <2>1. Kept(i, s[m], w, m) /\ Sound(i, s[m], w, m)
      BY DEF SparseHolds
    <2> QED BY <2>1 DEF Kept, Sound, SameDone
  <1> QED BY <1>1 DEF SparseHolds

(***************************************************************************)
(* One term of the dense lift of a clean file: its cell is in the buffer   *)
(* and no other cell changes.                                              *)
(***************************************************************************)
LEMMA DenseGrows ==
    ASSUME NEW i, Typed(i), Clean(i), NEW m \in 1 .. 3, NEW r \in Rows(i), NEW t \in Terms(i, m, r),
           NEW w, NEW v, NEW d, DenseHolds(i, d, w), ~Done(w, m, r, t),
           OneMore(w, v, m, r, t),
           NEW e, e = [d EXCEPT ![m][r * i.what.header.wires + WireOf(i, m, r, t)] = ValueOf(i, m, r, t)]
    PROVE  /\ r * i.what.header.wires + WireOf(i, m, r, t) \in DOMAIN d[m]
           /\ DenseHolds(i, e, v)
  <1> DEFINE W == i.what.header.wires
             n == i.what.header.count
             x == WireOf(i, m, r, t)
             y == ValueOf(i, m, r, t)
  <1>1. n \in Nat /\ W \in Nat /\ r \in 0 .. n - 1 /\ x \in 0 .. W - 1 /\ y \in Values
    BY DEF Typed, Clean, Rows
  <1>2. r * W + x \in 0 .. n * W - 1
    BY <1>1, Place
  <1>3. d \in [1 .. 3 -> [0 .. n * W - 1 -> Values]]
    BY DEF DenseHolds
  <1> DEFINE c == r * W + x
             C == 0 .. n * W - 1
  <1>4. /\ c \in C /\ d \in [1 .. 3 -> [C -> Values]]
        /\ e = [d EXCEPT ![m][c] = y]
    BY <1>2, <1>3
  <1>5. \A a \in 1 .. 3, q \in Rows(i), z0 \in 0 .. W - 1 :
          /\ q * W + z0 \in C
          /\ q * W + z0 = c => q = r /\ z0 = x
    <2> SUFFICES ASSUME NEW q \in Rows(i), NEW z0 \in 0 .. W - 1
                 PROVE  q * W + z0 \in C /\ (q * W + z0 = c => q = r /\ z0 = x)
      OBVIOUS
    <2>1. q \in 0 .. n - 1 /\ q \in Nat /\ r \in Nat
      BY <1>1 DEF Rows
    <2> HIDE DEF n, W, x
    <2>2. q * W + z0 \in C
      BY <1>1, <2>1, Place
    <2>3. q * W + z0 = c => q = r /\ z0 = x
      BY <1>1, <2>1, SamePlace
    <2> QED BY <2>2, <2>3
  <1>6. /\ e \in [1 .. 3 -> [C -> Values]]
        /\ \A a \in 1 .. 3, k \in C : e[a][k] = IF a = m /\ k = c THEN y ELSE d[a][k]
    <2>1. y \in Values
      BY <1>1
    <2> HIDE DEF c, C, y
    <2>2. e = [d EXCEPT ![m] = [d[m] EXCEPT ![c] = y]]
      BY <1>4
    <2>3. PICK f : f = [d[m] EXCEPT ![c] = y]
      OBVIOUS
    <2>4. f \in [C -> Values] /\ \A k \in C : f[k] = IF k = c THEN y ELSE d[m][k]
      BY <1>4, <2>1, <2>3
    <2>5. e \in [1 .. 3 -> [C -> Values]] /\ \A a \in 1 .. 3 : e[a] = IF a = m THEN f ELSE d[a]
      BY <1>4, <2>2, <2>3, <2>4
    <2> QED BY <2>4, <2>5
  <1>7. ASSUME NEW a \in 1 .. 3, NEW q \in Rows(i), NEW u \in Terms(i, a, q), Done(v, a, q, u)
        PROVE  e[a][q * W + WireOf(i, a, q, u)] = ValueOf(i, a, q, u)
    <2>1. u \in Nat /\ WireOf(i, a, q, u) \in 0 .. W - 1
      BY DEF Typed, Clean, Terms
    <2>2. CASE a = m /\ q = r /\ u = t
      BY <1>4, <1>6, <2>2
    <2>3. CASE ~(a = m /\ q = r /\ u = t)
      <3>1. Done(w, a, q, u)
        BY <1>7, <2>1, <2>3 DEF OneMore
      <3>2. d[a][q * W + WireOf(i, a, q, u)] = ValueOf(i, a, q, u)
        BY <3>1 DEF DenseHolds
      <3>3. ~(a = m /\ q * W + WireOf(i, a, q, u) = c)
        <4> SUFFICES ASSUME a = m, q * W + WireOf(i, a, q, u) = c PROVE FALSE
          OBVIOUS
        <4>1. q = r /\ WireOf(i, a, q, u) = x
          BY <1>5, <2>1
        <4>2. u = t
          BY <4>1 DEF Clean
        <4> QED BY <2>3, <4>1, <4>2
      <3>4. q * W + WireOf(i, a, q, u) \in C
        BY <1>5, <2>1
      <3> HIDE DEF c, C, W
      <3> QED BY <1>6, <3>2, <3>3, <3>4
    <2> QED BY <2>2, <2>3
  <1>8. ASSUME NEW a \in 1 .. 3, NEW q \in Rows(i), NEW z0 \in 0 .. W - 1,
               \A u \in Terms(i, a, q) : Done(v, a, q, u) => WireOf(i, a, q, u) # z0
        PROVE  e[a][q * W + z0] = 0
    <2>1. ~(a = m /\ q * W + z0 = c)
      <3> SUFFICES ASSUME a = m, q * W + z0 = c PROVE FALSE
        OBVIOUS
      <3>1. q = r /\ z0 = x
        BY <1>5
      <3>2. t \in Nat
        BY DEF Typed, Terms
      <3>3. Done(v, m, r, t)
        BY <3>2 DEF OneMore
      <3> QED BY <1>8, <3>1, <3>3
    <2>2. \A u \in Terms(i, a, q) : u \in Nat
      BY DEF Typed, Terms
    <2>3. \A u \in Terms(i, a, q) : Done(w, a, q, u) => WireOf(i, a, q, u) # z0
      BY <1>8, <2>2 DEF OneMore
    <2>4. d[a][q * W + z0] = 0
      BY <2>3 DEF DenseHolds
    <2>5. q * W + z0 \in C
      BY <1>5
    <2> HIDE DEF c, C, W
    <2> QED BY <1>6, <2>1, <2>4, <2>5
  <1>9. DenseHolds(i, e, v)
    <2> HIDE DEF c, x, y
    <2> QED BY <1>6, <1>7, <1>8 DEF DenseHolds
  <1> QED BY <1>4, <1>9

LEMMA Appended ==
    ASSUME NEW S, NEW q \in Seq(S), NEW e \in S
    PROVE  /\ Append(q, e) \in Seq(S)
           /\ Len(q) \in Nat /\ Len(Append(q, e)) = Len(q) + 1
           /\ Append(q, e)[Len(q) + 1] = e
           /\ \A k \in 1 .. Len(q) : Append(q, e)[k] = q[k]
  OBVIOUS

(***************************************************************************)
(* One term of the sparse lift, seen on the triplets of one matrix.        *)
(***************************************************************************)
LEMMA SparseGrows ==
    ASSUME NEW i, Typed(i), NEW m \in 1 .. 3, NEW r \in Rows(i), NEW t \in Terms(i, m, r),
           NEW w, NEW v, ~Done(w, m, r, t),
           OneMore(w, v, m, r, t),
           NEW q0, Triplets(i, q0, w, m),
           NEW q1, q1 = Append(q0, TripletOf(i, m, r, t))
    PROVE  Triplets(i, q1, v, m)
  <1>0. /\ q0 \in Seq(Rows(i) \X Nat \X Values)
        /\ Kept(i, q0, w, m) /\ Sound(i, q0, w, m) /\ (Clean(i) => Once(q0))
    BY DEF Triplets
  <1> DEFINE S == Rows(i) \X Nat \X Values
             e == TripletOf(i, m, r, t)
             n == Len(q0)
  <1>1. e \in S
    BY DEF Typed, TripletOf
  <1>2. /\ q1 \in Seq(S) /\ n \in Nat /\ Len(q1) = n + 1 /\ q1[n + 1] = e
        /\ \A k \in 1 .. n : q1[k] = q0[k]
    <2>1. q0 \in Seq(S)
      BY <1>0
    <2> HIDE DEF S, e
    <2> QED BY <1>1, <2>1, Appended DEF e
  <1> HIDE DEF S, n
  <1>3. \A k \in 1 .. Len(q1) : k = n + 1 \/ k \in 1 .. n
    BY <1>2
  <1>a. \A a \in 1 .. 3, q \in Rows(i) : \A u \in Terms(i, a, q) : u \in Nat
    BY DEF Typed, Terms
  <1>4. Kept(i, q1, v, m)
    <2> SUFFICES ASSUME NEW q \in Rows(i), NEW u \in Terms(i, m, q), Done(v, m, q, u)
                 PROVE  \E k \in 1 .. Len(q1) : q1[k] = TripletOf(i, m, q, u)
      BY DEF Kept
    <2>1. CASE q = r /\ u = t
      <3>1. n + 1 \in 1 .. Len(q1)
        BY <1>2
      <3> QED BY <1>2, <2>1, <3>1
    <2>2. CASE ~(q = r /\ u = t)
      <3>1. Done(w, m, q, u)
        BY <1>a, <2>2 DEF OneMore
      <3>2. PICK k \in 1 .. n : q0[k] = TripletOf(i, m, q, u)
        BY <1>0, <3>1 DEF Kept, n
      <3>3. k \in 1 .. Len(q1) /\ q1[k] = q0[k]
        BY <1>2
      <3> QED BY <3>2, <3>3
    <2> QED BY <2>1, <2>2
  <1>5. Sound(i, q1, v, m)
    <2> SUFFICES ASSUME NEW k \in 1 .. Len(q1)
                 PROVE  \E q \in Rows(i) : \E u \in Terms(i, m, q) : Done(v, m, q, u) /\ q1[k] = TripletOf(i, m, q, u)
      BY DEF Sound
    <2>1. CASE k = n + 1
      <3>1. Done(v, m, r, t)
        BY <1>a DEF OneMore
      <3> QED BY <1>2, <2>1, <3>1
    <2>2. CASE k \in 1 .. n
      <3>1. PICK q \in Rows(i) : \E u \in Terms(i, m, q) : Done(w, m, q, u) /\ q0[k] = TripletOf(i, m, q, u)
        BY <1>0, <2>2 DEF Sound, n
      <3>2. PICK u \in Terms(i, m, q) : Done(w, m, q, u) /\ q0[k] = TripletOf(i, m, q, u)
        BY <3>1
      <3>3. Done(v, m, q, u) /\ q1[k] = q0[k]
        BY <1>2, <1>a, <2>2, <3>2 DEF OneMore
      <3> QED BY <3>2, <3>3
    <2> QED BY <1>3, <2>1, <2>2
  <1>6. ASSUME Clean(i) PROVE Once(q1)
    <2>1. ASSUME NEW k \in 1 .. n PROVE ~(q0[k][1] = e[1] /\ q0[k][2] = e[2])
      <3>1. PICK q \in Rows(i) : \E u \in Terms(i, m, q) : Done(w, m, q, u) /\ q0[k] = TripletOf(i, m, q, u)
        BY <1>0 DEF Sound, n
      <3>2. PICK u \in Terms(i, m, q) : Done(w, m, q, u) /\ q0[k] = TripletOf(i, m, q, u)
        BY <3>1
      <3>3. q0[k][1] = q /\ q0[k][2] = WireOf(i, m, q, u) /\ e[1] = r /\ e[2] = WireOf(i, m, r, t)
        BY <3>2 DEF TripletOf
      <3>4. q = r /\ WireOf(i, m, q, u) = WireOf(i, m, r, t) => u = t
        BY <1>6 DEF Clean
      <3>5. ~(q = r /\ u = t)
        BY <3>2
      <3> QED BY <3>3, <3>4, <3>5, Zenon
    <2>2. ASSUME NEW j \in 1 .. Len(q1), NEW k \in 1 .. Len(q1), q1[j][1] = q1[k][1], q1[j][2] = q1[k][2]
          PROVE  j = k
      <3> HIDE DEF e
      <3>1. CASE j \in 1 .. n /\ k \in 1 .. n
        <4>1. q0[j][1] = q0[k][1] /\ q0[j][2] = q0[k][2]
          BY <1>2, <2>2, <3>1
        <4>2. \A a, b \in 1 .. n : q0[a][1] = q0[b][1] /\ q0[a][2] = q0[b][2] => a = b
          BY <1>0, <1>6 DEF Once, n
        <4> QED BY <3>1, <4>1, <4>2, Zenon
      <3>2. CASE j = n + 1 /\ k \in 1 .. n
        BY <1>2, <2>1, <2>2, <3>2
      <3>3. CASE j \in 1 .. n /\ k = n + 1
        BY <1>2, <2>1, <2>2, <3>3
      <3> QED BY <1>3, <3>1, <3>2, <3>3
    <2> QED BY <2>2 DEF Once
  <1> QED BY <1>2, <1>4, <1>5, <1>6 DEF S, Triplets

\* The same on all three: the triplets of the other two do not change.
LEMMA SparseStep ==
    ASSUME NEW i, Typed(i), NEW m \in 1 .. 3, NEW r \in Rows(i), NEW t \in Terms(i, m, r),
           NEW w, NEW v, ~Done(w, m, r, t),
           OneMore(w, v, m, r, t),
           NEW s, SparseHolds(i, s, w),
           NEW s1, s1 = [s EXCEPT ![m] = Append(@, TripletOf(i, m, r, t))]
    PROVE  SparseHolds(i, s1, v)
  <1> DEFINE S == Seq(Rows(i) \X Nat \X Values)
  <1>1. /\ s \in [1 .. 3 -> S]
        /\ \A n \in 1 .. 3 : Kept(i, s[n], w, n) /\ Sound(i, s[n], w, n) /\ (Clean(i) => Once(s[n]))
    BY DEF SparseHolds
  <1>2. PICK q0, q1 : q0 = s[m] /\ q1 = Append(q0, TripletOf(i, m, r, t))
    OBVIOUS
  <1>a. Triplets(i, q0, w, m)
    BY <1>1, <1>2 DEF Triplets
  <1>b. Triplets(i, q1, v, m)
    BY <1>2, <1>a, SparseGrows
  <1>c. q1 \in S /\ Kept(i, q1, v, m) /\ Sound(i, q1, v, m) /\ (Clean(i) => Once(q1))
    BY <1>b DEF Triplets
  <1> HIDE DEF S
  <1>3. s1 = [s EXCEPT ![m] = q1]
    BY <1>2
  <1>4. s1 \in [1 .. 3 -> S] /\ s1[m] = q1 /\ \A n \in 1 .. 3 : n # m => s1[n] = s[n]
    BY <1>1, <1>c, <1>3
  <1>5. ASSUME NEW n \in 1 .. 3, n # m
        PROVE  Kept(i, s[n], v, n) /\ Sound(i, s[n], v, n)
    <2>0. \A q \in Rows(i) : \A u \in Terms(i, n, q) : u \in Nat
      BY DEF Typed, Terms
    <2>1. \A q \in Rows(i) : \A u \in Terms(i, n, q) : Done(v, n, q, u) <=> Done(w, n, q, u)
      BY <1>5, <2>0, Zenon DEF OneMore
    <2>2. Kept(i, s[n], w, n) /\ Sound(i, s[n], w, n)
      BY <1>1
    <2> QED BY <2>1, <2>2 DEF Kept, Sound
  <1>6. ASSUME NEW n \in 1 .. 3
        PROVE  Kept(i, s1[n], v, n) /\ Sound(i, s1[n], v, n) /\ (Clean(i) => Once(s1[n]))
    <2>1. CASE n = m  BY <1>c, <1>4, <2>1, Zenon
    <2>2. CASE n # m  BY <1>1, <1>4, <1>5, <2>2, Zenon
    <2> QED BY <2>1, <2>2
  <1> QED BY <1>4, <1>6 DEF SparseHolds, S

(***************************************************************************)
(* The invariant of the lifts, step by step.                               *)
(***************************************************************************)
LEMMA InitLift == Init => LiftInv
  BY DEF Init, LiftInv, Lifting

LEMMA StartLiftLift == ASSUME ParseInv, LiftInv, StartLift PROVE LiftInv'
  <1>1. CASE Fail
    BY <1>1 DEF Fail, LiftInv, Lifting
  <1>2. CASE in.kind # "r1cs" /\ pc' = "lifted" /\ UNCHANGED parser
    BY <1>2 DEF parser, LiftInv, Lifting
  <1>3. CASE /\ in.kind = "r1cs" /\ header.fsb = 8
             /\ pc' = "lift"
             /\ dwalk' = Begin /\ swalk' = Begin
             /\ dense' = [m \in 1 .. 3 |-> [k \in 0 .. header.count * header.wires - 1 |-> 0]]
             /\ sparse' = [m \in 1 .. 3 |-> <<>>]
             /\ UNCHANGED <<parser, panic>>
    <2>1. pc = "parsed" /\ panic = FALSE
      BY DEF StartLift, LiftInv
    <2>2. items = in.what.items /\ header = in.what.header /\ Typed(in)
      BY <1>3, <2>1, LiftingFile
    <2>3. in' = in /\ header' = header /\ panic' = FALSE
      BY <1>3, <2>1 DEF parser
    <2>4. WalkOK(in, Begin)
      <3>1. in.what.header.count \in Nat /\ (0 < in.what.header.count => Len(in.what.items[3 * 0 + 1]) \in Nat)
        BY <2>2 DEF Typed, Rows
      <3> QED BY <3>1 DEF WalkOK, Begin
    <2>5. \A m \in 1 .. 3, r \in Rows(in) : \A t \in Terms(in, m, r) : ~Done(Begin, m, r, t)
      BY <2>2 DEF Typed, Done, Begin, Rows, Terms
    <2>6. DenseHolds(in, dense', Begin)
      <3>1. \A m \in 1 .. 3, r \in Rows(in), x \in 0 .. header.wires - 1 :
              r * header.wires + x \in 0 .. header.count * header.wires - 1
        BY <2>2, Place DEF Typed, Rows
      <3>2. dense' \in [1 .. 3 -> [0 .. header.count * header.wires - 1 -> Values]]
        BY <1>3 DEF Values
      <3>3. \A m \in 1 .. 3, r \in Rows(in), x \in 0 .. header.wires - 1 : dense'[m][r * header.wires + x] = 0
        BY <1>3, <3>1
      <3> QED BY <2>2, <2>5, <3>2, <3>3 DEF DenseHolds
    <2>7. SparseHolds(in, sparse', Begin)
      <3> DEFINE S == Rows(in) \X Nat \X Values
      <3>1. <<>> \in Seq(S) /\ Len(<<>>) = 0 /\ 1 .. 0 = {}
        OBVIOUS
      <3> HIDE DEF S
      <3>2. sparse' \in [1 .. 3 -> Seq(S)]
        BY <1>3, <3>1
      <3>3. ASSUME NEW m \in 1 .. 3
            PROVE  Kept(in, sparse'[m], Begin, m) /\ Sound(in, sparse'[m], Begin, m) /\ Once(sparse'[m])
        <4>1. sparse'[m] = <<>>
          BY <1>3
        <4> QED BY <2>5, <3>1, <4>1 DEF Kept, Sound, Once
      <3> QED BY <3>2, <3>3 DEF SparseHolds, S
    <2> QED BY <1>3, <2>3, <2>4, <2>6, <2>7 DEF LiftInv, Lifting
  <1> QED BY <1>1, <1>2, <1>3 DEF StartLift

\* The facts a step of either lift starts from.
LEMMA AtLift ==
    ASSUME ParseInv, LiftInv, pc = "lift"
    PROVE  /\ in.kind = "r1cs" /\ Lifting /\ header.fsb = 8
           /\ items = in.what.items /\ header = in.what.header /\ Typed(in)
           /\ WalkOK(in, dwalk) /\ WalkOK(in, swalk)
           /\ Clean(in) => panic = FALSE /\ DenseHolds(in, dense, dwalk)
           /\ SparseHolds(in, sparse, swalk)
  <1>1. in.kind = "r1cs" /\ Lifting /\ header.fsb = 8
    BY DEF LiftInv, Lifting
  <1> QED BY <1>1, LiftingFile DEF LiftInv

LEMMA DenseTermLift == ASSUME ParseInv, LiftInv, DenseTerm PROVE LiftInv'
  <1> DEFINE m == dwalk.matrix
             r == dwalk.row
             t == dwalk.term + 1
             cell == r * in.what.header.wires + WireOf(in, m, r, t)
  <1>1. /\ in.kind = "r1cs" /\ Lifting /\ header.fsb = 8
        /\ items = in.what.items /\ header = in.what.header /\ Typed(in)
        /\ WalkOK(in, dwalk) /\ WalkOK(in, swalk)
        /\ Clean(in) => panic = FALSE /\ DenseHolds(in, dense, dwalk)
        /\ SparseHolds(in, sparse, swalk)
    BY AtLift DEF DenseTerm
  <1>2. /\ pc = "lift" /\ pc' = "lift" /\ in' = in /\ header' = header /\ swalk' = swalk /\ sparse' = sparse
        /\ dwalk.matrix < 4 /\ dwalk.row < in.what.header.count
        /\ dwalk.term < Len(in.what.items[3 * dwalk.row + dwalk.matrix])
    BY <1>1 DEF DenseTerm, DenseRow, parser
  <1>3. \/ /\ cell \in DOMAIN dense[m]
           /\ dense' = [dense EXCEPT ![m][cell] = ValueOf(in, m, r, t)]
           /\ dwalk' = [dwalk EXCEPT !.term = @ + 1]
           /\ panic' = panic
        \/ cell \notin DOMAIN dense[m] /\ dwalk' = End
    BY <1>1 DEF DenseTerm, DenseRow, Cell, WireOf, ValueOf
  <1> DEFINE v == [dwalk EXCEPT !.term = @ + 1]
             e == [dense EXCEPT ![m][cell] = ValueOf(in, m, r, t)]
  <1>4. /\ WalkOK(in, v) /\ m \in 1 .. 3 /\ r \in Rows(in) /\ t \in Terms(in, m, r)
        /\ OneMore(dwalk, v, m, r, t)
        /\ ~Done(dwalk, m, r, t)
    BY <1>1, <1>2, WalkTerm
  <1>5. ASSUME Clean(in) PROVE cell \in DOMAIN dense[m] /\ DenseHolds(in, e, v)
    <2>1. DenseHolds(in, dense, dwalk)
      BY <1>1, <1>5
    <2> HIDE DEF m, r, t, v
    <2> QED BY <1>1, <1>4, <1>5, <2>1, DenseGrows
  <1>6. WalkOK(in, End)
    BY <1>1 DEF WalkOK, End, Typed
  <1>7. WalkOK(in, dwalk')
    BY <1>3, <1>4, <1>6
  <1>8. Clean(in) => panic' = FALSE /\ DenseHolds(in, dense', dwalk')
    <2> HIDE DEF cell, m
    <2> QED BY <1>1, <1>3, <1>5 DEF m
  <1> QED BY <1>1, <1>2, <1>7, <1>8 DEF LiftInv, Lifting

LEMMA DenseNextLift == ASSUME ParseInv, LiftInv, DenseNext PROVE LiftInv'
  <1>1. /\ in.kind = "r1cs" /\ Lifting /\ header.fsb = 8
        /\ items = in.what.items /\ header = in.what.header /\ Typed(in)
        /\ WalkOK(in, dwalk) /\ WalkOK(in, swalk)
        /\ Clean(in) => panic = FALSE /\ DenseHolds(in, dense, dwalk)
        /\ SparseHolds(in, sparse, swalk)
    BY AtLift DEF DenseNext
  <1>2. /\ pc' = "lift" /\ in' = in /\ header' = header /\ swalk' = swalk /\ sparse' = sparse
        /\ dense' = dense /\ panic' = panic
    BY DEF DenseNext, parser
  <1>3. WalkOK(in, dwalk') /\ SameDone(in, dwalk, dwalk')
    <2>1. /\ dwalk.matrix < 4
          /\ \/ /\ dwalk.row < in.what.header.count /\ dwalk.term = Len(in.what.items[3 * dwalk.row + dwalk.matrix])
                /\ dwalk' = [dwalk EXCEPT !.row = @ + 1, !.term = 0]
             \/ /\ dwalk.row = in.what.header.count
                /\ dwalk' = [matrix |-> dwalk.matrix + 1, row |-> 0, term |-> 0]
      BY <1>1 DEF DenseNext, DenseRow
    <2> QED BY <1>1, <2>1, WalkNext DEF SameDone
  <1>4. Clean(in) => panic' = FALSE /\ DenseHolds(in, dense', dwalk')
    BY <1>1, <1>2, <1>3, DenseSame
  <1> QED BY <1>1, <1>2, <1>3, <1>4 DEF LiftInv, Lifting

LEMMA SparseTermLift == ASSUME ParseInv, LiftInv, SparseTerm PROVE LiftInv'
  <1> DEFINE m == swalk.matrix
             r == swalk.row
             t == swalk.term + 1
             v == [swalk EXCEPT !.term = @ + 1]
  <1>1. /\ in.kind = "r1cs" /\ Lifting /\ header.fsb = 8
        /\ items = in.what.items /\ header = in.what.header /\ Typed(in)
        /\ WalkOK(in, dwalk) /\ WalkOK(in, swalk)
        /\ Clean(in) => panic = FALSE /\ DenseHolds(in, dense, dwalk)
        /\ SparseHolds(in, sparse, swalk)
    BY AtLift DEF SparseTerm
  <1>2. /\ pc' = "lift" /\ in' = in /\ header' = header /\ dwalk' = dwalk /\ dense' = dense /\ panic' = panic
        /\ swalk' = v
        /\ swalk.matrix < 4 /\ swalk.row < in.what.header.count
        /\ swalk.term < Len(in.what.items[3 * swalk.row + swalk.matrix])
    BY <1>1 DEF SparseTerm, SparseRow, parser
  <1>3. sparse' = [sparse EXCEPT ![m] = Append(@, TripletOf(in, m, r, t))]
    BY <1>1 DEF SparseTerm, SparseRow, TripletOf, WireOf, ValueOf
  <1>4. /\ WalkOK(in, v) /\ m \in 1 .. 3 /\ r \in Rows(in) /\ t \in Terms(in, m, r)
        /\ OneMore(swalk, v, m, r, t)
        /\ ~Done(swalk, m, r, t)
    BY <1>1, <1>2, WalkTerm
  <1>5. SparseHolds(in, sparse', v)
    <2> HIDE DEF m, r, t, v
    <2>1. PICK s1 : s1 = sparse'
      OBVIOUS
    <2>2. SparseHolds(in, s1, v)
      BY <1>1, <1>3, <1>4, <2>1, SparseStep
    <2> QED BY <2>1, <2>2
  <1> HIDE DEF v
  <1> QED BY <1>1, <1>2, <1>4, <1>5 DEF LiftInv, Lifting

LEMMA SparseNextLift == ASSUME ParseInv, LiftInv, SparseNext PROVE LiftInv'
  <1>1. /\ in.kind = "r1cs" /\ Lifting /\ header.fsb = 8
        /\ items = in.what.items /\ header = in.what.header /\ Typed(in)
        /\ WalkOK(in, dwalk) /\ WalkOK(in, swalk)
        /\ Clean(in) => panic = FALSE /\ DenseHolds(in, dense, dwalk)
        /\ SparseHolds(in, sparse, swalk)
    BY AtLift DEF SparseNext
  <1>2. /\ pc' = "lift" /\ in' = in /\ header' = header /\ dwalk' = dwalk /\ sparse' = sparse
        /\ dense' = dense /\ panic' = panic
    BY DEF SparseNext, parser
  <1>3. WalkOK(in, swalk') /\ SameDone(in, swalk, swalk')
    <2>1. /\ swalk.matrix < 4
          /\ \/ /\ swalk.row < in.what.header.count /\ swalk.term = Len(in.what.items[3 * swalk.row + swalk.matrix])
                /\ swalk' = [swalk EXCEPT !.row = @ + 1, !.term = 0]
             \/ /\ swalk.row = in.what.header.count
                /\ swalk' = [matrix |-> swalk.matrix + 1, row |-> 0, term |-> 0]
      BY <1>1 DEF SparseNext, SparseRow
    <2> QED BY <1>1, <2>1, WalkNext DEF SameDone
  <1>4. SparseHolds(in, sparse', swalk')
    BY <1>1, <1>2, <1>3, SparseSame
  <1> QED BY <1>1, <1>2, <1>3, <1>4 DEF LiftInv, Lifting

LEMMA LiftStep == ASSUME ParseInv, LiftInv, [Next]_vars PROVE LiftInv'
  <1>1. ASSUME Open \/ Section \/ EndScan \/ Combo \/ Wire \/ EndBody PROVE LiftInv'
    <2>1. pc \in {"open", "scan", "body"} /\ pc' \in {"open", "scan", "body", "parsed", "error"} /\ panic' = panic
      BY <1>1 DEF Open, Section, EndScan, Combo, Wire, EndBody, Fail, lift
    <2> QED BY <2>1 DEF LiftInv, Lifting
  <1>2. ASSUME EndLift PROVE LiftInv'
    BY <1>2 DEF EndLift, parser, lift, LiftInv, Lifting
  <1>3. ASSUME UNCHANGED vars PROVE LiftInv'
    <2>1. /\ pc' = pc /\ in' = in /\ header' = header /\ dwalk' = dwalk /\ swalk' = swalk
          /\ dense' = dense /\ sparse' = sparse /\ panic' = panic
      BY <1>3 DEF vars, parser, lift
    <2> QED BY <2>1 DEF LiftInv, Lifting
  <1> QED BY <1>1, <1>2, <1>3, StartLiftLift, DenseTermLift, DenseNextLift, SparseTermLift, SparseNextLift
          DEF Next, Finished
-----------------------------------------------------------------------------
LEMMA Invariant == Spec => []Inv
  <1>1. Init => Inv
    BY InitParse, InitLift DEF Inv
  <1>2. Inv /\ [Next]_vars => Inv'
    BY ParseStep, LiftStep DEF Inv
  <1> QED BY <1>1, <1>2, PTL DEF Spec

(***************************************************************************)
(* parse_circom_r1cs and parse_circom_wtns, for every file circom may have *)
(* written, of any field width, with its sections in any order, and cut    *)
(* anywhere: a value they return is the one that was written.              *)
(***************************************************************************)
THEOREM ParserReturnsWhatWasWritten == Spec => []ParsesWhatWasWritten
  <1>1. Inv => ParsesWhatWasWritten
    BY DEF Inv, ParseInv
  <1> QED BY <1>1, Invariant, PTL

(***************************************************************************)
(* And they refuse no such file that is complete and meant for them, nor   *)
(* does the lift, unless its field is not eight bytes wide.                *)
(***************************************************************************)
THEOREM CompleteFilesAreAccepted == Spec => []CompleteFilesParse
  <1>1. Inv => CompleteFilesParse
    BY DEF Inv, ParseInv
  <1> QED BY <1>1, Invariant, PTL

\* When a lift is through, every term is done.
LEMMA AllDone ==
    ASSUME Inv, Lifted
    PROVE  /\ items = in.what.items /\ header = in.what.header /\ Typed(in)
           /\ Clean(in) => panic = FALSE /\ DenseHolds(in, dense, dwalk)
           /\ SparseHolds(in, sparse, swalk)
           /\ \A m \in 1 .. 3 : \A r, t : Done(dwalk, m, r, t) /\ Done(swalk, m, r, t)
  <1>1. Lifting /\ pc = "lifted" /\ in.kind = "r1cs"
    BY DEF Lifted, Lifting
  <1>2. header.fsb = 8 /\ dwalk.matrix = 4 /\ swalk.matrix = 4
    BY <1>1 DEF Inv, LiftInv
  <1>3. \A m \in 1 .. 3 : \A r, t : Done(dwalk, m, r, t) /\ Done(swalk, m, r, t)
    BY <1>2 DEF Done
  <1> QED BY <1>1, <1>2, <1>3, LiftingFile DEF Inv, LiftInv

LEMMA CleanFile ==
    ASSUME Inv, Lifted, EachWireOnce
    PROVE  Clean(in)
  <1>1. items = in.what.items /\ header = in.what.header /\ Typed(in)
    BY AllDone
  <1>2. \A m \in 1 .. 3, r \in Rows(in) : 3 * r + m \in 1 .. Len(items)
    <2>1. Len(items) = 3 * header.count /\ header.count \in Nat
      <3>1. in \in Inputs /\ in.kind = "r1cs"
        BY DEF Inv, ParseInv, Lifted
      <3> QED BY <1>1, <3>1, ItemTyped DEF ItemCount, Typed
    <2> QED BY <1>1, <2>1 DEF Rows
  <1>3. ASSUME NEW m \in 1 .. 3, NEW r \in Rows(in)
        PROVE  \A t \in Terms(in, m, r) :
                 /\ WireOf(in, m, r, t) < in.what.header.wires
                 /\ \A u \in Terms(in, m, r) : WireOf(in, m, r, t) = WireOf(in, m, r, u) => t = u
    <2>1. PICK k \in 1 .. Len(items) : k = 3 * r + m
      BY <1>2
    <2>2. \A t \in 1 .. Len(items[k]) :
            /\ items[k][t][1] < header.wires
            /\ \A u \in 1 .. Len(items[k]) : items[k][t][1] = items[k][u][1] => t = u
      BY Zenon DEF EachWireOnce
    <2> QED BY <1>1, <2>1, <2>2, Zenon DEF Terms, WireOf
  <1> QED BY <1>3 DEF Clean

(***************************************************************************)
(* circom_to_neo_mats and circom_to_neo_sparse_mats, however wide the      *)
(* field and long the file: they make the same matrices of every file      *)
(* whose linear combinations name wires below n_wires and none twice, and  *)
(* the dense one does not panic on it.                                     *)
(***************************************************************************)
THEOREM LiftsAreOneMatrix == Spec => []LiftsAgree
  <1>1. Inv => LiftsAgree
    <2> SUFFICES ASSUME Inv, Lifted, EachWireOnce PROVE SameMatrices
      BY DEF LiftsAgree
    <2> DEFINE W == header.wires
    <2>1. /\ header = in.what.header /\ Typed(in) /\ Clean(in) /\ panic = FALSE
          /\ DenseHolds(in, dense, dwalk) /\ SparseHolds(in, sparse, swalk)
          /\ \A m \in 1 .. 3 : \A r, t : Done(dwalk, m, r, t) /\ Done(swalk, m, r, t)
      BY AllDone, CleanFile
    <2>2. ASSUME NEW m \in 1 .. 3, NEW r \in 0 .. header.count - 1, NEW x \in 0 .. W - 1
          PROVE  LET entries == {k \in 1 .. Len(sparse[m]) : sparse[m][k][1] = r /\ sparse[m][k][2] = x}
                     entry == dense[m][r * W + x]
                 IN  /\ entries = {} => entry = 0
                     /\ \A k \in entries : entries = {k} /\ entry = sparse[m][k][3]
      <3> DEFINE q == sparse[m]
                 entries == {k \in 1 .. Len(q) : q[k][1] = r /\ q[k][2] = x}
                 entry == dense[m][r * W + x]
      <3>0. r \in Rows(in)
        BY <2>1 DEF Rows
      <3>1. Kept(in, q, swalk, m) /\ Sound(in, q, swalk, m) /\ Once(q)
        BY <2>1 DEF SparseHolds
      <3> HIDE DEF q
      <3>2. ASSUME entries = {} PROVE entry = 0
        <4>1. ASSUME NEW t \in Terms(in, m, r) PROVE WireOf(in, m, r, t) # x
          <5>1. PICK k \in 1 .. Len(q) : q[k] = TripletOf(in, m, r, t)
            BY <2>1, <3>0, <3>1 DEF Kept
          <5>2. q[k][1] = r /\ q[k][2] = WireOf(in, m, r, t)
            BY <5>1 DEF TripletOf
          <5> QED BY <3>2, <5>2
        <4> QED BY <2>1, <3>0, <4>1 DEF DenseHolds
      <3>3. ASSUME NEW k \in entries PROVE entries = {k} /\ entry = q[k][3]
        <4>0. k \in 1 .. Len(q) /\ q[k][1] = r /\ q[k][2] = x
          OBVIOUS
        <4>1. \A j \in entries : j = k
          BY <3>1, <4>0 DEF Once
        <4>2. PICK r1 \in Rows(in) : \E t \in Terms(in, m, r1) : q[k] = TripletOf(in, m, r1, t)
          BY <3>1, <4>0 DEF Sound
        <4>3. PICK t \in Terms(in, m, r1) : q[k] = TripletOf(in, m, r1, t)
          BY <4>2
        <4>4. r1 = r /\ WireOf(in, m, r1, t) = x /\ q[k][3] = ValueOf(in, m, r1, t)
          BY <4>0, <4>3 DEF TripletOf
        <4>5. dense[m][r1 * W + WireOf(in, m, r1, t)] = ValueOf(in, m, r1, t)
          BY <2>1, <4>3 DEF DenseHolds
        <4> HIDE DEF entries
        <4> QED BY <3>3, <4>1, <4>4, <4>5
      <3> HIDE DEF entries, entry
      <3>4. (entries = {} => entry = 0) /\ \A k \in entries : entries = {k} /\ entry = q[k][3]
        BY <3>2, <3>3
      <3> QED BY <3>4 DEF entries, entry, q
    <2> QED BY <2>1, <2>2 DEF SameMatrices
  <1> QED BY <1>1, Invariant, PTL

(***************************************************************************)
(* Every triplet of circom_to_neo_sparse_mats is a term circom wrote, in   *)
(* its row and matrix, and every term has one.                             *)
(***************************************************************************)
THEOREM LiftKeepsEveryTerm == Spec => []LiftsWhatWasWritten
  <1>1. Inv => LiftsWhatWasWritten
    <2> SUFFICES ASSUME Inv, Lifted, NEW m \in 1 .. 3
                 PROVE  /\ \A r \in 0 .. header.count - 1 : \A t \in 1 .. Len(in.what.items[3 * r + m]) :
                             \E k \in 1 .. Len(sparse[m]) : sparse[m][k] = Triplet(m, r, t)
                        /\ \A k \in 1 .. Len(sparse[m]) :
                             \E r \in 0 .. header.count - 1 : \E t \in 1 .. Len(in.what.items[3 * r + m]) :
                                 sparse[m][k] = Triplet(m, r, t)
      BY DEF LiftsWhatWasWritten
    <2>1. /\ header = in.what.header /\ SparseHolds(in, sparse, swalk)
          /\ \A r, t : Done(swalk, m, r, t)
      BY AllDone
    <2>2. Kept(in, sparse[m], swalk, m) /\ Sound(in, sparse[m], swalk, m)
      BY <2>1 DEF SparseHolds
    <2>3. Rows(in) = 0 .. header.count - 1 /\ \A r, t : Triplet(m, r, t) = TripletOf(in, m, r, t)
      BY <2>1 DEF Rows, Triplet, TripletOf, WireOf, ValueOf
    <2>4. ASSUME NEW r \in 0 .. header.count - 1, NEW t \in 1 .. Len(in.what.items[3 * r + m])
          PROVE  \E k \in 1 .. Len(sparse[m]) : sparse[m][k] = Triplet(m, r, t)
      <3>1. r \in Rows(in) /\ t \in Terms(in, m, r) /\ Done(swalk, m, r, t)
        BY <2>1, <2>3 DEF Terms
      <3> QED BY <2>2, <2>3, <3>1 DEF Kept
    <2>5. ASSUME NEW k \in 1 .. Len(sparse[m])
          PROVE  \E r \in 0 .. header.count - 1 : \E t \in 1 .. Len(in.what.items[3 * r + m]) :
                     sparse[m][k] = Triplet(m, r, t)
      <3>1. PICK r \in Rows(in) : \E t \in Terms(in, m, r) : sparse[m][k] = TripletOf(in, m, r, t)
        BY <2>2 DEF Sound
      <3>2. PICK t \in Terms(in, m, r) : sparse[m][k] = TripletOf(in, m, r, t)
        BY <3>1
      <3> QED BY <2>3, <3>2 DEF Terms
    <2> QED BY <2>4, <2>5
  <1> QED BY <1>1, Invariant, PTL
=============================================================================
