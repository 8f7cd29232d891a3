------------------------ MODULE SlhPrimitives_proofs ------------------------
(***************************************************************************)
(* Every value the primitives pack, hash or return is canonical, no sum or *)
(* product of a round exceeds a u128, two calls that fed the same states   *)
(* to the permutation are the same call, and the reduce is the padded tree *)
(* over its leaves, for every field and round constants that satisfy       *)
(* FieldAssumption and every set of calls.                                 *)
(***************************************************************************)
EXTENDS SlhPrimitives, SequenceTheorems, WellFoundedInduction, TLAPS

Elem == 0 .. P - 1
Wide == 0 .. WORD * WORD - 1
U64  == 0 .. WORD - 1

LEMMA ReduceInField ==
    ASSUME NEW x \in Int
    PROVE  reduce(x) \in Elem
  BY FieldAssumption, SMT DEF reduce, Elem

LEMMA CanonicalInField ==
    ASSUME NEW v \in U64
    PROVE  to_canonical(v) \in Elem
  <1>1. v \in Int
    BY FieldAssumption, SMT DEF U64
  <1>2. reduce(v) \in Elem
    BY <1>1, ReduceInField
  <1>3. v < P => v \in Elem
    BY FieldAssumption, SMT DEF U64, Elem
  <1> QED
    BY <1>2, <1>3 DEF to_canonical

\* The product of two elements fits a u128, and so does the sum of two u64.
LEMMA ProductFits ==
    ASSUME NEW a \in Elem, NEW b \in Elem
    PROVE  a * b \in Wide
  <1>1. a * b \in Nat
    BY FieldAssumption, SMT DEF Elem
  <1>2. a * b <= a * WORD
    BY FieldAssumption, SMT DEF Elem
  <1>3. a * WORD <= (WORD - 1) * WORD
    BY FieldAssumption, SMT DEF Elem
  <1>4. (WORD - 1) * WORD < WORD * WORD
    BY FieldAssumption, SMT
  <1>5. WORD * WORD \in Nat /\ a * WORD \in Nat /\ (WORD - 1) * WORD \in Int
    BY FieldAssumption, SMT DEF Elem
  <1> HIDE DEF WORD
  <1> QED
    BY <1>1, <1>2, <1>3, <1>4, <1>5, SMT DEF Wide

LEMMA SumFits ==
    ASSUME NEW a \in Elem, NEW c \in U64
    PROVE  a + c \in Wide
  <1>1. a + c < 2 * WORD
    BY FieldAssumption, SMT DEF Elem, U64
  <1>2. 2 * WORD <= WORD * WORD
    BY FieldAssumption, SMT
  <1> QED
    BY <1>1, <1>2, FieldAssumption, SMT DEF Elem, U64, Wide

LEMMA MulInField ==
    ASSUME NEW a \in Elem, NEW b \in Elem
    PROVE  mul(a, b) \in Elem
  <1>1. a * b \in Int
    BY ProductFits DEF Wide
  <1> QED
    BY <1>1, ReduceInField DEF mul

LEMMA PowInField ==
    ASSUME NEW x \in Elem
    PROVE  pow7(x) \in Elem /\ Pow7Wides(x) \subseteq Wide
  <1> DEFINE x2 == mul(x, x)
             x4 == mul(x2, x2)
             x3 == mul(x, x2)
  <1>1. x2 \in Elem /\ x4 \in Elem /\ x3 \in Elem
    BY MulInField
  <1>2. mul(x3, x4) \in Elem
    BY <1>1, MulInField
  <1>3. x * x \in Wide /\ x2 * x2 \in Wide /\ x * x2 \in Wide /\ x3 * x4 \in Wide
    BY <1>1, ProductFits
  <1> HIDE DEF x2, x3, x4
  <1> QED
    BY <1>2, <1>3, Zenon DEF pow7, Pow7Wides, x2, x3, x4

\* Twelve elements weighted with the MDS coefficients.
LEMMA WeightedSum ==
    ASSUME NEW a \in [Lanes -> Elem]
    PROVE  a[0] * 17 + a[1] * 15 + a[2] * 41 + a[3] * 16 + a[4] * 2 + a[5] * 28 + a[6] * 13
             + a[7] * 13 + a[8] * 39 + a[9] * 18 + a[10] * 34 + a[11] * 20 \in 0 .. 256 * (P - 1)
  <1>1. P \in Nat /\ P >= 4
    BY FieldAssumption
  <1> DEFINE b(n) == a[n]
  <1>2. \A n \in Lanes : b(n) \in 0 .. P - 1
    BY DEF Elem
  <1>3. /\ b(0) \in 0 .. P - 1 /\ b(1) \in 0 .. P - 1 /\ b(2) \in 0 .. P - 1 /\ b(3) \in 0 .. P - 1
        /\ b(4) \in 0 .. P - 1 /\ b(5) \in 0 .. P - 1 /\ b(6) \in 0 .. P - 1 /\ b(7) \in 0 .. P - 1
        /\ b(8) \in 0 .. P - 1 /\ b(9) \in 0 .. P - 1 /\ b(10) \in 0 .. P - 1 /\ b(11) \in 0 .. P - 1
    BY <1>2 DEF Lanes
  <1> HIDE DEF b
  <1>4. b(0) * 17 + b(1) * 15 + b(2) * 41 + b(3) * 16 + b(4) * 2 + b(5) * 28 \in 0 .. 119 * (P - 1)
    BY <1>1, <1>3, SMT
  <1>5. b(6) * 13 + b(7) * 13 + b(8) * 39 + b(9) * 18 + b(10) * 34 + b(11) * 20 \in 0 .. 137 * (P - 1)
    BY <1>1, <1>3, SMT
  <1>6. b(0) * 17 + b(1) * 15 + b(2) * 41 + b(3) * 16 + b(4) * 2 + b(5) * 28
          + b(6) * 13 + b(7) * 13 + b(8) * 39 + b(9) * 18 + b(10) * 34 + b(11) * 20 \in 0 .. 256 * (P - 1)
    BY <1>1, <1>3, <1>4, <1>5, SMT
  <1> QED
    BY <1>6 DEF b

LEMMA MdsSumFits ==
    ASSUME NEW post \in [Lanes -> Elem], NEW k \in Lanes
    PROVE  MdsSum(post, k) \in Wide
  <1> DEFINE a     == [n \in Lanes |-> post[(n + k) % 12]]
             d     == post[k] * MDS_DIAG[k + 1]
             sum   == a[0] * 17 + a[1] * 15 + a[2] * 41 + a[3] * 16 + a[4] * 2 + a[5] * 28 + a[6] * 13
                         + a[7] * 13 + a[8] * 39 + a[9] * 18 + a[10] * 34 + a[11] * 20
             bound == WORD * WORD
  <1>1. a \in [Lanes -> Elem]
    <2>1. \A n \in Lanes : (n + k) % 12 \in Lanes
      BY SMT DEF Lanes
    <2> QED
      BY <2>1
  <1>2. sum \in 0 .. 256 * (P - 1)
    <2> HIDE DEF a
    <2> QED
      BY <1>1, WeightedSum
  <1>3. MdsSum(post, k) = sum + d
    <2> DEFINE t(n) == post[(n + k) % 12] * MDS_CIRC[n + 1]
    <2>1. MdsSum(post, k) =
            t(0) + t(1) + t(2) + t(3) + t(4) + t(5) + t(6) + t(7) + t(8) + t(9) + t(10) + t(11) + d
      BY DEF MdsSum
    <2>2. /\ t(0) = a[0] * 17 /\ t(1) = a[1] * 15 /\ t(2) = a[2] * 41 /\ t(3) = a[3] * 16
          /\ t(4) = a[4] * 2 /\ t(5) = a[5] * 28 /\ t(6) = a[6] * 13 /\ t(7) = a[7] * 13
          /\ t(8) = a[8] * 39 /\ t(9) = a[9] * 18 /\ t(10) = a[10] * 34 /\ t(11) = a[11] * 20
      BY SMT DEF MDS_CIRC, Lanes
    <2> HIDE DEF t, a, d
    <2> QED
      BY <2>1, <2>2, Zenon
  <1>4. post[k] \in Elem /\ MDS_DIAG[k + 1] \in 0 .. 8
    BY SMT DEF MDS_DIAG, Lanes
  <1>5. d \in Nat /\ d <= 8 * (P - 1)
    BY <1>4, FieldAssumption, SMT DEF Elem
  <1>6. P \in Nat /\ P >= 4
    BY FieldAssumption
  <1>7. bound \in Int /\ 264 * (P - 1) < bound
    BY FieldAssumption, SMT
  <1> HIDE DEF sum, d, bound
  <1>8. MdsSum(post, k) \in 0 .. 264 * (P - 1)
    BY <1>2, <1>3, <1>5, <1>6, SMT
  <1>9. MdsSum(post, k) \in 0 .. bound - 1
    BY <1>6, <1>7, <1>8, SMT
  <1> QED
    BY <1>9 DEF bound, Wide

\* A round keeps the lanes in the field and never leaves a u128.
LEMMA RoundInField ==
    ASSUME NEW s \in [Lanes -> Elem], NEW t \in 0 .. ROUNDS - 1
    PROVE  RoundOf(s, t) \in [Lanes -> Elem] /\ RoundWides(s, t) \subseteq Wide
  <1> DEFINE post == PostSBox(s, t)
             sum  == AddConstants(s, t)
  <1>1. \A n \in Lanes : ROUND_CONSTANTS[t][n] \in U64
    BY FieldAssumption DEF U64
  <1>2. \A n \in Lanes : s[n] + ROUND_CONSTANTS[t][n] \in Wide
    BY <1>1, SumFits
  <1>3. \A n \in Lanes : sum[n] \in Elem
    BY <1>2, ReduceInField DEF AddConstants, add, Wide
  <1>4. post \in [Lanes -> Elem]
    BY <1>3, PowInField DEF PostSBox
  <1>5. \A n \in Lanes : Pow7Wides(sum[n]) \subseteq Wide
    BY <1>3, PowInField
  <1>6. \A k \in Lanes : MdsSum(post, k) \in Wide
    BY <1>4, MdsSumFits
  <1>7. RoundOf(s, t) \in [Lanes -> Elem]
    <2>1. \A k \in Lanes : MdsSum(post, k) \in Int
      BY <1>6 DEF Wide
    <2>2. \A k \in Lanes : reduce(MdsSum(post, k)) \in Elem
      BY <2>1, ReduceInField
    <2> QED
      BY <2>2 DEF RoundOf, mds_layer
  <1>8. RoundWides(s, t) \subseteq Wide
    BY <1>2, <1>5, <1>6 DEF RoundWides
  <1> QED
    BY <1>7, <1>8

LEMMA AbsorbInField ==
    ASSUME NEW x \in Seq(U64)
    PROVE  Absorb(x) \in [Lanes -> Elem]
  <1>1. 0 \in Elem
    BY FieldAssumption, SMT DEF Elem
  <1>2. ASSUME NEW n \in Lanes, n < Len(x)
        PROVE  to_canonical(x[n + 1]) \in Elem
    BY <1>2, CanonicalInField, SMT DEF Lanes
  <1> QED
    BY <1>1, <1>2 DEF Absorb

LEMMA OverwriteInField ==
    ASSUME NEW x \in Seq(U64), NEW s \in [Lanes -> Elem]
    PROVE  Overwrite(s, x) \in [Lanes -> Elem]
  <1>2. ASSUME NEW n \in Lanes, n < Len(x)
        PROVE  to_canonical(x[n + 1]) \in Elem
    BY <1>2, CanonicalInField, SMT DEF Lanes
  <1> QED
    BY <1>2 DEF Overwrite

LEMMA PackInField ==
    ASSUME NEW v \in Value
    PROVE  pack(v) \in Elem \X Elem
  <1>1. v[1] \in Int /\ v[2] \in Int
    BY FieldAssumption, SMT DEF Value
  <1> QED
    BY <1>1, ReduceInField DEF pack
-----------------------------------------------------------------------------
\* Pairs of words, as the sequences that a frame is made of.
LEMMA PairIsSeq ==
    ASSUME NEW S, NEW a \in S, NEW b \in S
    PROVE  <<a, b>> \in Seq(S) /\ Len(<<a, b>>) = 2
  OBVIOUS

LEMMA ElemsAreSeqs ==
    ASSUME NEW e \in Elems
    PROVE  e \in Seq(U64) /\ Len(e) = 2
  <1>1. PICK a \in Elem, b \in Elem : e = <<a, b>>
    BY DEF Elems, Elem
  <1>2. a \in U64 /\ b \in U64
    BY FieldAssumption, SMT DEF Elem, U64
  <1> QED
    BY <1>1, <1>2, PairIsSeq

LEMMA PackIsElems ==
    ASSUME NEW v \in Value
    PROVE  pack(v) \in Elems
  BY PackInField DEF Elems, Elem

LEMMA OneIsSeq ==
    ASSUME NEW t \in 0 .. 3
    PROVE  <<t>> \in Seq(U64) /\ Len(<<t>>) = 1
  <1>1. t \in U64
    BY FieldAssumption, SMT DEF U64
  <1> QED
    BY <1>1

LEMMA Joined ==
    ASSUME NEW S, NEW x \in Seq(S), NEW y \in Seq(S)
    PROVE  x \o y \in Seq(S) /\ Len(x \o y) = Len(x) + Len(y)
  BY ConcatProperties

LEMMA ElementIsSeq ==
    ASSUME NEW s \in Seq(Elems), NEW n \in 1 .. Len(s)
    PROVE  s[n] \in Seq(U64) /\ Len(s[n]) = 2
  <1>1. s[n] \in Elems
    BY ElementOfSeq
  <1> QED
    BY <1>1, ElemsAreSeqs

\* The lengths of the calls' inputs are those of the source's types.
LEMMA CallFacts ==
    ASSUME NEW c \in Calls
    PROVE  /\ c.prim \in Prims /\ c.seed \in Value /\ c.ms \in Seq(Value) /\ Len(c.ms) >= 1
           /\ c.prim = "Hmsg" => c.adrs[1] \in Value /\ c.adrs[2] \in Value
           /\ c.prim # "Hmsg" => c.adrs \in Seq(U64) /\ Len(c.adrs) = 7
           /\ c.prim = "H" => Len(c.ms) = 2
  BY CallAssumption DEF U64

(***************************************************************************)
(* The invariant: types, and which inputs a call has at each point.        *)
(***************************************************************************)
IInv ==
    /\ pc \in {"idle", "reduce", "frame"} \cup Permuting
    /\ call \in Calls
    /\ lanes \in [Lanes -> Elem]
    /\ r \in Nat
    /\ cur \in Seq(Elems)
    /\ nxt \in Seq(Elems)
    /\ out \in Seq(Elem)
    /\ pc # "idle" => Len(cur) >= 1
    /\ pc # "idle" /\ call.prim = "H" => Len(cur) = 2
    /\ pc \in {"reduce", "node"} => call.prim \in Trees
    /\ pc \in {"block1", "block2"} => call.prim = "H"
    /\ pc \in {"half1", "half2"} => call.prim = "Hmsg"

LEMMA TaggedIsSeq ==
    ASSUME IInv, pc # "idle", call.prim # "Hmsg"
    PROVE  Tagged \in Seq(U64) /\ Len(Tagged) = (IF call.prim = "H" THEN 14 ELSE 12)
  <1> DEFINE head == <<Tag(call.prim)>>
             seed == pack(call.seed)
             adrs == call.adrs
             tail == IF call.prim = "H" THEN cur[1] \o cur[2] ELSE cur[1]
  <1>1. head \in Seq(U64) /\ Len(head) = 1
    <2>1. Tag(call.prim) \in 0 .. 3
      BY CallFacts DEF IInv, Tag, Prims
    <2> HIDE DEF Tag
    <2> QED
      BY <2>1, OneIsSeq
  <1>2. seed \in Seq(U64) /\ Len(seed) = 2
    BY CallFacts, PackIsElems, ElemsAreSeqs DEF IInv
  <1>3. adrs \in Seq(U64) /\ Len(adrs) = 7
    BY CallFacts DEF IInv
  <1>4. cur \in Seq(Elems) /\ 1 \in 1 .. Len(cur) /\ (call.prim = "H" => 2 \in 1 .. Len(cur))
    <2>1. cur \in Seq(Elems) /\ Len(cur) >= 1 /\ (call.prim = "H" => Len(cur) = 2)
      BY DEF IInv
    <2>2. Len(cur) \in Nat
      BY <2>1, LenProperties
    <2> HIDE DEF Elems
    <2> QED
      BY <2>1, <2>2, SMT
  <1>5. cur[1] \in Seq(U64) /\ Len(cur[1]) = 2
    BY <1>4, ElementIsSeq
  <1>6. tail \in Seq(U64) /\ Len(tail) = (IF call.prim = "H" THEN 2 + 2 ELSE 2)
    <2>1. CASE call.prim = "H"
      <3>1. cur[2] \in Seq(U64) /\ Len(cur[2]) = 2
        BY <1>4, <2>1, ElementIsSeq
      <3> QED
        <4> DEFINE x == cur[1]
                   y == cur[2]
        <4>1. x \in Seq(U64) /\ y \in Seq(U64) /\ Len(x) = 2 /\ Len(y) = 2
          BY <1>5, <3>1
        <4>2. tail = x \o y
          BY <2>1
        <4> HIDE DEF x, y, tail
        <4>3. x \o y \in Seq(U64) /\ Len(x \o y) = 2 + 2
          BY <4>1, Joined, ZenonT(60)
        <4> QED
          BY <4>2, <4>3, <2>1
    <2>2. CASE call.prim # "H"
      BY <1>5, <2>2
    <2> QED
      BY <2>1, <2>2
  <1> HIDE DEF head, seed, adrs, tail
  <1>7. head \o seed \in Seq(U64) /\ Len(head \o seed) = 1 + 2
    BY <1>1, <1>2, Joined, Zenon
  <1>8. /\ (head \o seed) \o adrs \in Seq(U64)
        /\ Len((head \o seed) \o adrs) = (1 + 2) + 7
    <2> DEFINE x == head \o seed
    <2>1. x \in Seq(U64) /\ Len(x) = 1 + 2
      BY <1>7
    <2> HIDE DEF x
    <2>2. x \o adrs \in Seq(U64) /\ Len(x \o adrs) = Len(x) + Len(adrs)
      BY <2>1, <1>3, Joined, Zenon
    <2>3. x \o adrs \in Seq(U64) /\ Len(x \o adrs) = (1 + 2) + 7
      BY <2>1, <2>2, <1>3, Zenon
    <2> QED
      BY <2>3 DEF x
  <1>9. /\ ((head \o seed) \o adrs) \o tail \in Seq(U64)
        /\ Len(((head \o seed) \o adrs) \o tail) = ((1 + 2) + 7) + Len(tail)
    BY <1>8, <1>6, Joined, Zenon
  <1>10. Tagged = ((head \o seed) \o adrs) \o tail
    BY DEF Tagged, head, seed, adrs, tail
  <1>11. Len(Tagged) = ((1 + 2) + 7) + (IF call.prim = "H" THEN 2 + 2 ELSE 2)
    BY <1>6, <1>9, <1>10, Zenon
  <1>12. ((1 + 2) + 7) + (IF call.prim = "H" THEN 2 + 2 ELSE 2) = (IF call.prim = "H" THEN 14 ELSE 12)
    BY SMT
  <1> HIDE DEF Tagged
  <1> QED
    BY <1>9, <1>10, <1>11, <1>12, Zenon

LEMMA HalfIsSeq ==
    ASSUME IInv, pc # "idle", call.prim = "Hmsg", NEW t \in 0 .. 1
    PROVE  HalfInputs(t) \in Seq(U64)
  <1> DEFINE a == pack(call.adrs[1])
             b == pack(call.seed)
             c == pack(call.adrs[2])
  <1>1. <<t>> \in Seq(U64)
    BY OneIsSeq
  <1>2. a \in Seq(U64) /\ b \in Seq(U64) /\ c \in Seq(U64)
    BY CallFacts, PackIsElems, ElemsAreSeqs DEF IInv
  <1>3. cur[1] \in Seq(U64)
    BY ElementIsSeq DEF IInv
  <1> HIDE DEF a, b, c
  <1>4. <<t>> \o a \in Seq(U64)
    BY <1>1, <1>2, Joined
  <1>5. (<<t>> \o a) \o b \in Seq(U64)
    BY <1>4, <1>2, Joined
  <1>6. ((<<t>> \o a) \o b) \o c \in Seq(U64)
    BY <1>5, <1>2, Joined
  <1>7. (((<<t>> \o a) \o b) \o c) \o cur[1] \in Seq(U64)
    BY <1>6, <1>3, Joined
  <1> QED
    BY <1>7 DEF HalfInputs, a, b, c

LEMMA PartIsSeq ==
    ASSUME NEW s \in Seq(U64), Len(s) = 14, NEW m \in 1 .. 14, NEW n \in 1 .. 14
    PROVE  SubSeq(s, m, n) \in Seq(U64)
  <1>1. \A j \in m .. n : s[j] \in U64
    <2>1. \A j \in 1 .. Len(s) : s[j] \in U64
      BY ElementOfSeq
    <2> QED
      BY <2>1
  <1> QED
    BY <1>1, SubSeqProperties

LEMMA SqueezeInField ==
    ASSUME NEW s \in [Lanes -> Elem]
    PROVE  Squeeze(s) \in Elems /\ Squeeze(s) \in Seq(Elem)
  <1>1. s[0] \in Elem /\ s[1] \in Elem
    BY DEF Lanes
  <1> QED
    BY <1>1, PairIsSeq DEF Squeeze, Elems, Elem

\* Cutting the upper half to six bytes does not enlarge it.
LEMMA LowInField ==
    ASSUME NEW v \in Elems
    PROVE  Low14(v) \in Seq(Elem)
  <1>1. PICK a \in Elem, b \in Elem : v = <<a, b>>
    BY DEF Elems, Elem
  <1> DEFINE m == BYTE^6
  <1>2. m \in Nat \ {0}
    BY FieldAssumption
  <1> HIDE DEF m
  <1>3. b % m \in Elem
    BY <1>2, FieldAssumption, SMT DEF Elem
  <1>4. Low14(v) = <<a, b % m>>
    BY <1>1 DEF Low14, m
  <1> QED
    BY <1>3, <1>4, PairIsSeq
-----------------------------------------------------------------------------
LEMMA InvInit ==
    Init => IInv
  <1> SUFFICES ASSUME Init PROVE IInv
    OBVIOUS
  <1>1. 0 \in Elem
    BY FieldAssumption, SMT DEF Elem
  <1>2. lanes \in [Lanes -> Elem]
    BY <1>1 DEF Init
  <1> QED
    BY <1>2, EmptySeq DEF Init, IInv

\* What a started call packs: one pair for each input.
LEMMA StartPacks ==
    ASSUME NEW ms \in Seq(Value)
    PROVE  /\ [k \in DOMAIN ms |-> pack(ms[k])] \in Seq(Elems)
           /\ Len([k \in DOMAIN ms |-> pack(ms[k])]) = Len(ms)
  <1> DEFINE f == [k \in 1 .. Len(ms) |-> pack(ms[k])]
  <1>1. Len(ms) \in Nat /\ DOMAIN ms = 1 .. Len(ms)
    BY LenProperties
  <1>2. \A k \in 1 .. Len(ms) : ms[k] \in Value
    BY ElementOfSeq
  <1>3. \A k \in 1 .. Len(ms) : pack(ms[k]) \in Elems
    BY <1>2, PackIsElems
  <1>4. f \in Seq(Elems) /\ Len(f) = Len(ms)
    BY <1>1, <1>3
  <1> QED
    BY <1>1, <1>4

LEMMA InvStart ==
    ASSUME IInv, NEW c \in Calls, Start(c)
    PROVE  IInv'
  <1>1. cur' \in Seq(Elems) /\ Len(cur') = Len(c.ms)
    BY CallFacts, StartPacks DEF Start
  <1>2. Len(c.ms) >= 1 /\ (c.prim = "H" => Len(c.ms) = 2)
    BY CallFacts
  <1>3. nxt' \in Seq(Elems)
    BY EmptySeq DEF Start
  <1>4. call' = c /\ lanes' = lanes /\ r' = r /\ out' = out
    BY DEF Start
  <1>5. \/ pc' = "reduce" /\ c.prim \in Trees
        \/ pc' = "frame"
    BY DEF Start
  <1> QED
    BY <1>1, <1>2, <1>3, <1>4, <1>5 DEF IInv

LEMMA InvReduceNode ==
    ASSUME IInv, ReduceNode
    PROVE  IInv'
  <1> DEFINE n == 2 * Len(nxt) + 1
             x == cur[n]
             y == Right(n)
  <1>1. Len(nxt) \in Nat /\ Len(cur) \in Nat
    BY LenProperties DEF IInv
  <1>2. n \in 1 .. Len(cur)
    BY <1>1, SMT DEF ReduceNode, Pairs
  <1>3. x \in Seq(U64)
    BY <1>2, ElementIsSeq DEF IInv
  <1>4. y \in Seq(U64)
    <2>1. CASE n + 1 <= Len(cur)
      <3>1. n + 1 \in 1 .. Len(cur)
        BY <1>1, <1>2, <2>1, SMT
      <3> HIDE DEF n
      <3> QED
        BY <3>1, <2>1, ElementIsSeq DEF IInv, Right
    <2>2. CASE ~(n + 1 <= Len(cur))
      <3>1. 0 \in U64
        BY FieldAssumption, SMT DEF U64
      <3>2. y = <<0, 0>>
        BY <2>2 DEF Right
      <3> QED
        BY <3>1, <3>2, PairIsSeq
    <2> QED
      BY <2>1, <2>2
  <1>5. lanes' = Absorb(x \o y) /\ r' = 0 /\ pc' = "node" /\ pc = "reduce"
    BY DEF ReduceNode, Feed
  <1> HIDE DEF x, y
  <1>6. x \o y \in Seq(U64)
    BY <1>3, <1>4, Joined
  <1>7. lanes' \in [Lanes -> Elem]
    BY <1>5, <1>6, AbsorbInField
  <1>8. UNCHANGED <<call, cur, nxt, out>>
    BY DEF ReduceNode
  <1> QED
    BY <1>5, <1>7, <1>8 DEF IInv, Permuting

LEMMA InvRound ==
    ASSUME IInv, Round
    PROVE  IInv'
  <1>1. r \in 0 .. ROUNDS - 1 /\ r + 1 \in Nat
    BY FieldAssumption, SMT DEF IInv, Round, ROUNDS
  <1>2. lanes' \in [Lanes -> Elem]
    BY <1>1, RoundInField DEF IInv, Round
  <1>3. r' \in Nat /\ UNCHANGED <<pc, call, cur, nxt, out>>
    BY <1>1 DEF Round
  <1> QED
    BY <1>2, <1>3 DEF IInv

LEMMA InvReduceSteps ==
    ASSUME IInv, EndNode \/ EndLevel \/ EndReduce
    PROVE  IInv'
  <1>1. CASE EndNode
    <2>1. nxt' \in Seq(Elems)
      BY <1>1, SqueezeInField, AppendProperties DEF IInv, EndNode
    <2> QED
      BY <1>1, <2>1 DEF IInv, EndNode
  <1>2. CASE EndLevel
    <2>1. Len(nxt) >= 1
      <3>1. Len(cur) \in Nat
        BY LenProperties DEF IInv
      <3> QED
        BY <1>2, <3>1, SMT DEF EndLevel, Pairs
    <2>2. call.prim # "H"
      BY <1>2 DEF EndLevel, IInv, Trees
    <2>3. <<>> \in Seq(Elems)
      BY EmptySeq
    <2> QED
      BY <1>2, <2>1, <2>2, <2>3 DEF IInv, EndLevel
  <1>3. CASE EndReduce
    BY <1>3 DEF IInv, EndReduce
  <1> QED
    BY <1>1, <1>2, <1>3

LEMMA InvFrame ==
    ASSUME IInv, Frame
    PROVE  IInv'
  <1>1. call.prim # "Hmsg" => Tagged \in Seq(U64) /\ (call.prim = "H" => Len(Tagged) = 14)
    BY TaggedIsSeq DEF Frame
  <1>2. CASE call.prim \in {"F", "Tk", "Tlen"} /\ Feed("only", Absorb(Tagged))
    <2>1. lanes' \in [Lanes -> Elem]
      BY <1>1, <1>2, AbsorbInField DEF Feed
    <2> QED
      BY <1>2, <2>1 DEF IInv, Frame, Feed, Permuting
  <1>3. CASE call.prim = "H" /\ Feed("block1", Absorb(SubSeq(Tagged, 1, 8)))
    <2>1. SubSeq(Tagged, 1, 8) \in Seq(U64)
      BY <1>1, <1>3, PartIsSeq
    <2>2. lanes' \in [Lanes -> Elem]
      BY <1>3, <2>1, AbsorbInField DEF Feed
    <2> QED
      BY <1>3, <2>2 DEF IInv, Frame, Feed, Permuting
  <1>4. CASE call.prim = "Hmsg" /\ Feed("half1", Absorb(HalfInputs(0)))
    <2>1. HalfInputs(0) \in Seq(U64)
      BY <1>4, HalfIsSeq DEF Frame
    <2>2. lanes' \in [Lanes -> Elem]
      BY <1>4, <2>1, AbsorbInField DEF Feed
    <2> QED
      BY <1>4, <2>2 DEF IInv, Frame, Feed, Permuting
  <1> QED
    BY <1>2, <1>3, <1>4 DEF Frame

LEMMA InvClosing ==
    ASSUME IInv, SecondBlock \/ SecondHalf \/ Return
    PROVE  IInv'
  <1>1. CASE SecondBlock
    <2>1. call.prim = "H" /\ pc # "idle"
      BY <1>1 DEF IInv, SecondBlock
    <2>2. Tagged \in Seq(U64) /\ Len(Tagged) = 14
      BY <2>1, TaggedIsSeq
    <2>3. SubSeq(Tagged, 9, 14) \in Seq(U64)
      BY <2>2, PartIsSeq
    <2>4. lanes' \in [Lanes -> Elem]
      BY <1>1, <2>3, OverwriteInField DEF IInv, SecondBlock, Feed
    <2> QED
      BY <1>1, <2>1, <2>4 DEF IInv, SecondBlock, Feed, Permuting
  <1>2. CASE SecondHalf
    <2>1. call.prim = "Hmsg" /\ pc # "idle"
      BY <1>2 DEF IInv, SecondHalf
    <2>2. lanes' \in [Lanes -> Elem]
      BY <1>2, <2>1, HalfIsSeq, AbsorbInField DEF SecondHalf, Feed
    <2>3. out' \in Seq(Elem)
      BY <1>2, SqueezeInField DEF IInv, SecondHalf
    <2> QED
      BY <1>2, <2>1, <2>2, <2>3 DEF IInv, SecondHalf, Feed, Permuting
  <1>3. CASE Return
    <2>1. Squeeze(lanes) \in Seq(Elem) /\ Low14(Squeeze(lanes)) \in Seq(Elem)
      BY SqueezeInField, LowInField DEF IInv
    <2>2. out' \in Seq(Elem)
      BY <1>3, <2>1, Joined DEF IInv, Return
    <2> QED
      BY <1>3, <2>2 DEF IInv, Return
  <1> QED
    BY <1>1, <1>2, <1>3

\* The property is the invariant, unfolded, and what a round computes.
LEMMA InvImplies ==
    IInv => AlwaysCanonical
  <1> SUFFICES ASSUME IInv PROVE AlwaysCanonical
    OBVIOUS
  <1>1. \A n \in Lanes : lanes[n] \in 0 .. P - 1
    BY DEF IInv, Elem
  <1>2. \A k \in DOMAIN cur : cur[k] \in Elems
    BY LenProperties, ElementOfSeq DEF IInv
  <1>3. \A k \in DOMAIN nxt : nxt[k] \in Elems
    BY LenProperties, ElementOfSeq DEF IInv
  <1>4. \A k \in DOMAIN out : out[k] \in 0 .. P - 1
    BY LenProperties, ElementOfSeq DEF IInv, Elem
  <1>5. ASSUME r < ROUNDS
        PROVE  RoundWides(lanes, r) \subseteq Wide
    <2>1. r \in 0 .. ROUNDS - 1
      BY <1>5, FieldAssumption, SMT DEF IInv, ROUNDS
    <2> QED
      BY <2>1, RoundInField DEF IInv
  <1> QED
    BY <1>1, <1>2, <1>3, <1>4, <1>5 DEF AlwaysCanonical, Wide

LEMMA StepInv == IInv /\ [Next]_vars => IInv'
  <1> SUFFICES ASSUME IInv, [Next]_vars PROVE IInv'
    OBVIOUS
  <1>1. ASSUME NEW c \in Calls, Start(c) PROVE IInv'
    BY <1>1, InvStart
  <1>2. CASE UNCHANGED vars
    BY <1>2 DEF vars, IInv
  <1> QED
    BY <1>1, <1>2, InvReduceNode, InvRound, InvReduceSteps, InvFrame, InvClosing
       DEF Next, Step, Finished

(***************************************************************************)
(* Whatever is called, everything packed, hashed or returned is below the  *)
(* prime, so the assertions of unpack_fe2_to_bytes16 hold, and no u128 of  *)
(* a round overflows.                                                      *)
(***************************************************************************)
THEOREM ValuesCanonical == Spec => []AlwaysCanonical
  BY StepInv, InvInit, InvImplies, PTL DEF Spec
-----------------------------------------------------------------------------
\* What the frames of primitives.rs hold, by the call and the pairs of its inputs.
TaggedOf(c, p) ==
    ((<<Tag(c.prim)>> \o pack(c.seed)) \o c.adrs) \o (IF c.prim = "H" THEN p[1] \o p[2] ELSE p[1])
HalfOf(c, p, t) ==
    (((<<t>> \o pack(c.adrs[1])) \o pack(c.seed)) \o pack(c.adrs[2])) \o p[1]

\* A call and its pairs as they are once the reduce is over.
Ready(c, p) == c \in Calls /\ p \in Seq(Elems) /\ Len(p) = (IF c.prim = "H" THEN 2 ELSE 1)

\* Sequences of u64 by their length, and their concatenation element by element.
Words(x, l) == x \in Seq(U64) /\ Len(x) = l
Joint(w, x, lx, y, ly) ==
    /\ Words(w, lx + ly)
    /\ \A n \in 1 .. lx : w[n] = x[n]
    /\ \A n \in 1 .. ly : w[lx + n] = y[n]

LEMMA JointOf ==
    ASSUME NEW lx \in Nat, NEW ly \in Nat, NEW x, NEW y, Words(x, lx), Words(y, ly)
    PROVE  Joint(x \o y, x, lx, y, ly)
  <1>1. x \in Seq(U64) /\ Len(x) = lx /\ y \in Seq(U64) /\ Len(y) = ly
    BY DEF Words
  <1>2. Words(x \o y, lx + ly)
    BY <1>1, Joined DEF Words
  <1>3. ASSUME NEW n \in 1 .. lx PROVE (x \o y)[n] = x[n]
    BY <1>1, ConcatProperties
  <1>4. ASSUME NEW n \in 1 .. ly PROVE (x \o y)[lx + n] = y[n]
    BY <1>1, ConcatProperties
  <1> QED
    BY <1>2, <1>3, <1>4 DEF Joint

LEMMA CanonicalIsItself == ASSUME NEW e \in Elem PROVE to_canonical(e) = e
  BY FieldAssumption, SMT DEF Elem, to_canonical

\* A pair of elements is determined by its halves, canonical as they are.
LEMMA ElemsByCanonical ==
    ASSUME NEW x \in Elems, NEW y \in Elems,
           to_canonical(x[1]) = to_canonical(y[1]), to_canonical(x[2]) = to_canonical(y[2])
    PROVE  x = y
  <1>1. x[1] \in Elem /\ x[2] \in Elem /\ y[1] \in Elem /\ y[2] \in Elem
    BY DEF Elems, Elem
  <1>2. x[1] = y[1] /\ x[2] = y[2]
    BY <1>1, CanonicalIsItself
  <1>3. x = <<x[1], x[2]>> /\ y = <<y[1], y[2]>>
    BY DEF Elems
  <1> QED
    BY <1>2, <1>3

LEMMA AbsorbAt ==
    ASSUME NEW x \in Seq(U64), NEW l \in 1 .. 12, Len(x) = l, NEW n \in 1 .. l
    PROVE  Absorb(x)[n - 1] = to_canonical(x[n])
  <1>1. n - 1 \in Lanes /\ n - 1 < Len(x) /\ (n - 1) + 1 = n
    BY SMT DEF Lanes
  <1> QED
    BY <1>1 DEF Absorb

LEMMA OverwriteAt ==
    ASSUME NEW s, NEW x \in Seq(U64), NEW l \in 1 .. 12, Len(x) = l, NEW n \in 1 .. l
    PROVE  Overwrite(s, x)[n - 1] = to_canonical(x[n])
  <1>1. n - 1 \in Lanes /\ n - 1 < Len(x) /\ (n - 1) + 1 = n
    BY SMT DEF Lanes
  <1> QED
    BY <1>1 DEF Overwrite

\* The parts of the fourteen words that slh_h absorbs one after the other.
LEMMA PartAt ==
    ASSUME NEW s \in Seq(U64), Len(s) = 14, NEW m \in 1 .. 14, NEW n \in m .. 14
    PROVE  /\ Len(SubSeq(s, m, n)) = n - m + 1
           /\ \A k \in 1 .. n - m + 1 : SubSeq(s, m, n)[k] = s[m + k - 1]
  <1>1. \A j \in m .. n : s[j] \in U64
    <2>1. \A j \in 1 .. Len(s) : s[j] \in U64
      BY ElementOfSeq
    <2> QED
      BY <2>1
  <1> QED
    BY <1>1, SubSeqProperties

\* Where the tag, the seed, the address and the inputs are in a tagged frame.
LEMMA TaggedWords ==
    ASSUME NEW c, NEW p, Ready(c, p), c.prim # "Hmsg"
    PROVE  LET T == TaggedOf(c, p)
           IN  /\ T \in Seq(U64) /\ Len(T) = (IF c.prim = "H" THEN 14 ELSE 12)
               /\ T[1] = Tag(c.prim) /\ Tag(c.prim) \in 0 .. 3
               /\ T[2] = pack(c.seed)[1] /\ T[3] = pack(c.seed)[2]
               /\ \A k \in 1 .. 7 : T[3 + k] = c.adrs[k]
               /\ T[11] = p[1][1] /\ T[12] = p[1][2]
               /\ c.prim = "H" => T[13] = p[2][1] /\ T[14] = p[2][2]
  <1> DEFINE h == <<Tag(c.prim)>>
             s == pack(c.seed)
             a == c.adrs
             t == IF c.prim = "H" THEN p[1] \o p[2] ELSE p[1]
             lt == IF c.prim = "H" THEN 4 ELSE 2
  <1>0. Tag(c.prim) \in 0 .. 3
    BY CallFacts DEF Ready, Tag, Prims
  <1>1. Words(h, 1) /\ h[1] = Tag(c.prim)
    <2> HIDE DEF Tag
    <2> QED
      BY <1>0, OneIsSeq DEF Words
  <1>2. Words(s, 2)
    BY CallFacts, PackIsElems, ElemsAreSeqs DEF Ready, Words
  <1>3. Words(a, 7)
    BY CallFacts DEF Ready, Words
  <1>4. Words(p[1], 2) /\ (c.prim = "H" => Words(p[2], 2))
    <2>1. p \in Seq(Elems) /\ 1 \in 1 .. Len(p) /\ (c.prim = "H" => 2 \in 1 .. Len(p))
      BY DEF Ready
    <2> QED
      BY <2>1, ElementIsSeq DEF Words
  <1>5. /\ Words(t, lt) /\ t[1] = p[1][1] /\ t[2] = p[1][2]
        /\ c.prim = "H" => t[3] = p[2][1] /\ t[4] = p[2][2]
    <2>1. CASE c.prim = "H"
      <3>1. PICK w : w = p[1] \o p[2] /\ Joint(w, p[1], 2, p[2], 2)
        BY <1>4, <2>1, JointOf, Zenon
      <3>2. t = w
        BY <2>1, <3>1, Zenon
      <3> HIDE DEF t
      <3>3. Words(w, 4) /\ w[1] = p[1][1] /\ w[2] = p[1][2] /\ w[3] = p[2][1] /\ w[4] = p[2][2]
        <4>1. Joint(w, p[1], 2, p[2], 2)
          BY <3>1
        <4> QED
          BY <4>1 DEF Joint
      <3> QED
        BY <2>1, <3>2, <3>3
    <2>2. CASE c.prim # "H"
      BY <1>4, <2>2
    <2> QED
      BY <2>1, <2>2
  <1> HIDE DEF h, s, a, t
  <1>6. PICK u : u = h \o s /\ Joint(u, h, 1, s, 2)
    BY <1>1, <1>2, JointOf, Zenon
  <1>7. Words(u, 3) /\ u[1] = h[1] /\ u[2] = s[1] /\ u[3] = s[2]
    <2>1. Joint(u, h, 1, s, 2)
      BY <1>6
    <2> QED
      BY <2>1 DEF Joint
  <1>8. PICK v : v = u \o a /\ Joint(v, u, 3, a, 7)
    BY <1>3, <1>7, JointOf, Zenon
  <1>9. /\ Words(v, 10) /\ v[1] = u[1] /\ v[2] = u[2] /\ v[3] = u[3]
        /\ \A k \in 1 .. 7 : v[3 + k] = a[k]
    <2>1. Joint(v, u, 3, a, 7)
      BY <1>8
    <2> QED
      BY <2>1 DEF Joint
  <1>10. lt \in Nat /\ lt >= 2 /\ 10 \in Nat /\ (c.prim = "H" => lt = 4)
    OBVIOUS
  <1>11. PICK w : w = v \o t /\ Joint(w, v, 10, t, lt)
    BY <1>5, <1>9, <1>10, JointOf, Zenon
  <1>12. TaggedOf(c, p) = w
    BY <1>6, <1>8, <1>11, Zenon DEF TaggedOf, h, s, a, t
  <1>13. Words(w, 10 + lt) /\ (\A n \in 1 .. 10 : w[n] = v[n]) /\ \A n \in 1 .. lt : w[10 + n] = t[n]
    BY <1>11, Zenon DEF Joint
  <1>14. w[1] = Tag(c.prim) /\ w[2] = s[1] /\ w[3] = s[2]
    BY <1>1, <1>7, <1>9, <1>13
  <1>15. \A k \in 1 .. 7 : w[3 + k] = a[k]
    BY <1>9, <1>13
  <1>16. w[11] = t[1] /\ w[12] = t[2] /\ (c.prim = "H" => w[13] = t[3] /\ w[14] = t[4])
    <2>1. w[10 + 1] = t[1] /\ w[10 + 2] = t[2]
      BY <1>10, <1>13
    <2>2. c.prim = "H" => w[10 + 3] = t[3] /\ w[10 + 4] = t[4]
      BY <1>10, <1>13
    <2> QED
      BY <2>1, <2>2
  <1>17. 10 + lt = (IF c.prim = "H" THEN 14 ELSE 12)
    OBVIOUS
  <1> HIDE DEF lt
  <1> QED
    BY <1>0, <1>5, <1>12, <1>13, <1>14, <1>15, <1>16, <1>17, Zenon DEF Words, s, a

\* Where the randomizer, the seed, the root and the message are in either half of hash30.
LEMMA HalfWords ==
    ASSUME NEW c, NEW p, Ready(c, p), c.prim = "Hmsg", NEW t \in 0 .. 1
    PROVE  LET W == HalfOf(c, p, t)
           IN  /\ Words(W, 9) /\ W[1] = t
               /\ W[2] = pack(c.adrs[1])[1] /\ W[3] = pack(c.adrs[1])[2]
               /\ W[4] = pack(c.seed)[1] /\ W[5] = pack(c.seed)[2]
               /\ W[6] = pack(c.adrs[2])[1] /\ W[7] = pack(c.adrs[2])[2]
               /\ W[8] = p[1][1] /\ W[9] = p[1][2]
  <1> DEFINE h == <<t>>
             a == pack(c.adrs[1])
             s == pack(c.seed)
             b == pack(c.adrs[2])
             q == p[1]
  <1>1. Words(h, 1) /\ h[1] = t
    BY OneIsSeq DEF Words
  <1>2. Words(a, 2) /\ Words(s, 2) /\ Words(b, 2)
    BY CallFacts, PackIsElems, ElemsAreSeqs DEF Ready, Words
  <1>3. Words(q, 2)
    <2>1. p \in Seq(Elems) /\ 1 \in 1 .. Len(p)
      BY DEF Ready
    <2> QED
      BY <2>1, ElementIsSeq DEF Words
  <1> HIDE DEF h, a, s, b, q
  <1>4. PICK u : u = h \o a /\ Joint(u, h, 1, a, 2)
    BY <1>1, <1>2, JointOf, Zenon
  <1>5. Words(u, 3) /\ u[1] = t /\ u[2] = a[1] /\ u[3] = a[2]
    <2>1. Joint(u, h, 1, a, 2)
      BY <1>4
    <2> QED
      BY <1>1, <2>1 DEF Joint
  <1>6. PICK v : v = u \o s /\ Joint(v, u, 3, s, 2)
    BY <1>2, <1>5, JointOf, Zenon
  <1>7. Words(v, 5) /\ v[1] = u[1] /\ v[2] = u[2] /\ v[3] = u[3] /\ v[4] = s[1] /\ v[5] = s[2]
    <2>1. Joint(v, u, 3, s, 2)
      BY <1>6
    <2> QED
      BY <2>1 DEF Joint
  <1>8. PICK w : w = v \o b /\ Joint(w, v, 5, b, 2)
    BY <1>2, <1>7, JointOf, Zenon
  <1>9. /\ Words(w, 7) /\ w[1] = v[1] /\ w[2] = v[2] /\ w[3] = v[3] /\ w[4] = v[4] /\ w[5] = v[5]
        /\ w[6] = b[1] /\ w[7] = b[2]
    <2>1. Joint(w, v, 5, b, 2)
      BY <1>8
    <2> QED
      BY <2>1 DEF Joint
  <1>10. PICK x : x = w \o q /\ Joint(x, w, 7, q, 2)
    BY <1>3, <1>9, JointOf, Zenon
  <1>11. /\ Words(x, 9) /\ \A n \in 1 .. 7 : x[n] = w[n]
         /\ x[8] = q[1] /\ x[9] = q[2]
    <2>1. Joint(x, w, 7, q, 2)
      BY <1>10
    <2> QED
      BY <2>1 DEF Joint
  <1>12. x[1] = w[1] /\ x[2] = w[2] /\ x[3] = w[3] /\ x[4] = w[4] /\ x[5] = w[5] /\ x[6] = w[6] /\ x[7] = w[7]
    BY <1>11
  <1>13. HalfOf(c, p, t) = x
    BY <1>4, <1>6, <1>8, <1>10, Zenon DEF HalfOf, h, a, s, b, q
  <1> QED
    BY <1>5, <1>7, <1>9, <1>11, <1>12, <1>13, Zenon DEF a, s, b, q
-----------------------------------------------------------------------------
\* f is what the closing hash of call c on the pairs p feeds to permute.
Framed(c, p, f) ==
    /\ Ready(c, p)
    /\ \/ c.prim \in {"F", "Tk", "Tlen"} /\ f = <<Absorb(TaggedOf(c, p))>>
       \/ /\ c.prim = "H"
          /\ \E s : f = <<Absorb(SubSeq(TaggedOf(c, p), 1, 8)),
                          Overwrite(s, SubSeq(TaggedOf(c, p), 9, 14))>>
       \/ c.prim = "Hmsg" /\ f = <<Absorb(HalfOf(c, p, 0)), Absorb(HalfOf(c, p, 1))>>

\* Every word of a tagged frame is in the states, canonical.
Lane(c, f, n) == IF c.prim = "H" /\ n > 8 THEN f[2][n - 9] ELSE f[1][n - 1]

LEMMA TaggedLanes ==
    ASSUME NEW c, NEW p, NEW f, Framed(c, p, f), c.prim # "Hmsg",
           NEW n \in 1 .. (IF c.prim = "H" THEN 14 ELSE 12)
    PROVE  Lane(c, f, n) = to_canonical(TaggedOf(c, p)[n])
  <1> DEFINE T == TaggedOf(c, p)
  <1>0. Ready(c, p)
    BY Zenon DEF Framed
  <1>1. T \in Seq(U64) /\ Len(T) = (IF c.prim = "H" THEN 14 ELSE 12)
    BY <1>0, TaggedWords
  <1> HIDE DEF T
  <1>2. CASE c.prim # "H"
    <2>1. f = <<Absorb(T)>>
      BY <1>2 DEF Framed, T
    <2>2. Absorb(T)[n - 1] = to_canonical(T[n])
      <3>1. T \in Seq(U64) /\ Len(T) = 12 /\ n \in 1 .. 12 /\ 12 \in 1 .. 12
        BY <1>1, <1>2
      <3> QED
        BY <3>1, AbsorbAt, Zenon
    <2> QED
      BY <1>2, <2>1, <2>2 DEF Lane, T
  <1>3. CASE c.prim = "H"
    <2>1. PICK s : f = <<Absorb(SubSeq(T, 1, 8)), Overwrite(s, SubSeq(T, 9, 14))>>
      BY <1>3, Zenon DEF Framed, T
    <2>2. T \in Seq(U64) /\ Len(T) = 14
      BY <1>1, <1>3
    <2>3. CASE n \in 1 .. 8
      <3> DEFINE x == SubSeq(T, 1, 8)
      <3>1. x \in Seq(U64) /\ Len(x) = 8 /\ x[n] = T[n]
        <4>1. 1 \in 1 .. 14 /\ 8 \in 1 .. 14 /\ n \in 1 .. 8 /\ (1 + n) - 1 = n
          BY <2>3
        <4>2. x[n] = T[(1 + n) - 1]
          BY <2>2, <4>1, PartAt
        <4> QED
          BY <2>2, <4>1, <4>2, PartIsSeq, PartAt, SMTT(40)
      <3> HIDE DEF x
      <3>2. Absorb(x)[n - 1] = to_canonical(x[n])
        <4>1. x \in Seq(U64) /\ Len(x) = 8 /\ n \in 1 .. 8 /\ 8 \in 1 .. 12
          BY <2>3, <3>1
        <4> QED
          BY <4>1, AbsorbAt, Zenon
      <3>3. f[1] = Absorb(x) /\ ~(n > 8)
        BY <2>1, <2>3 DEF x
      <3> QED
        BY <1>3, <3>1, <3>2, <3>3, Zenon DEF Lane, T
    <2>4. CASE n \in 9 .. 14
      <3> DEFINE y == SubSeq(T, 9, 14)
                 m == n - 8
      <3>0. m \in 1 .. 6 /\ n - 9 = m - 1 /\ n > 8
        BY <2>4
      <3>1. y \in Seq(U64) /\ Len(y) = 6 /\ y[m] = T[n]
        <4>1. 9 \in 1 .. 14 /\ 14 \in 1 .. 14 /\ m \in 1 .. 6 /\ (9 + m) - 1 = n
          BY <2>4
        <4> HIDE DEF m
        <4>2. y[m] = T[(9 + m) - 1]
          BY <2>2, <4>1, PartAt
        <4>3. 14 \in 9 .. 14 /\ 14 - 9 + 1 = 6
          OBVIOUS
        <4>4. Len(y) = 14 - 9 + 1
          BY <2>2, <4>1, <4>3, PartAt, Zenon
        <4>5. y \in Seq(U64)
          BY <2>2, <4>1, PartIsSeq
        <4> QED
          BY <4>2, <4>1, <4>3, <4>4, <4>5, Zenon
      <3> HIDE DEF y, m
      <3>2. Overwrite(s, y)[m - 1] = to_canonical(y[m])
        BY <3>0, <3>1, OverwriteAt
      <3>3. f[2] = Overwrite(s, y)
        BY <2>1 DEF y
      <3> QED
        BY <1>3, <3>0, <3>1, <3>2, <3>3, Zenon DEF Lane, T
    <2> QED
      BY <1>3, <2>3, <2>4
  <1> QED
    BY <1>2, <1>3

\* Two frames fed alike, of which neither or both are hash30's, are of one call.
LEMMA TaggedInjective ==
    ASSUME NEW c, NEW p, NEW d, NEW q, NEW f, Framed(c, p, f), Framed(d, q, f),
           c.prim # "Hmsg", d.prim # "Hmsg"
    PROVE  /\ c.prim = d.prim /\ pack(c.seed) = pack(d.seed) /\ p = q
           /\ \A k \in 1 .. 7 : to_canonical(c.adrs[k]) = to_canonical(d.adrs[k])
  <1> DEFINE T == TaggedOf(c, p)
             U == TaggedOf(d, q)
             can(x) == to_canonical(x)
  <1>0. Ready(c, p) /\ Ready(d, q)
    BY Zenon DEF Framed
  <1>1. /\ T[1] = Tag(c.prim) /\ Tag(c.prim) \in 0 .. 3
        /\ T[2] = pack(c.seed)[1] /\ T[3] = pack(c.seed)[2]
        /\ \A k \in 1 .. 7 : T[3 + k] = c.adrs[k]
        /\ T[11] = p[1][1] /\ T[12] = p[1][2]
        /\ c.prim = "H" => T[13] = p[2][1] /\ T[14] = p[2][2]
    BY <1>0, TaggedWords
  <1>2. /\ U[1] = Tag(d.prim) /\ Tag(d.prim) \in 0 .. 3
        /\ U[2] = pack(d.seed)[1] /\ U[3] = pack(d.seed)[2]
        /\ \A k \in 1 .. 7 : U[3 + k] = d.adrs[k]
        /\ U[11] = q[1][1] /\ U[12] = q[1][2]
        /\ d.prim = "H" => U[13] = q[2][1] /\ U[14] = q[2][2]
    BY <1>0, TaggedWords
  <1>3. \A n \in 1 .. (IF c.prim = "H" THEN 14 ELSE 12) : Lane(c, f, n) = can(T[n])
    BY TaggedLanes
  <1>4. \A n \in 1 .. (IF d.prim = "H" THEN 14 ELSE 12) : Lane(d, f, n) = can(U[n])
    BY TaggedLanes
  <1> HIDE DEF T, U, can
  <1>5. c.prim = d.prim
    <2>1. Lane(c, f, 1) = can(T[1]) /\ Lane(d, f, 1) = can(U[1])
      BY <1>3, <1>4
    <2>2. Lane(c, f, 1) = f[1][0] /\ Lane(d, f, 1) = f[1][0]
      BY DEF Lane
    <2>3. \A t \in 0 .. 3 : can(t) = t
      <3>1. \A t \in 0 .. 3 : t \in Elem
        BY FieldAssumption, SMT DEF Elem
      <3> QED
        BY <3>1, CanonicalIsItself DEF can
    <2>a. can(T[1]) = can(U[1])
      BY <2>1, <2>2
    <2>b. can(T[1]) = Tag(c.prim) /\ can(U[1]) = Tag(d.prim)
      BY <1>1, <1>2, <2>3
    <2>4. Tag(c.prim) = Tag(d.prim)
      BY <2>a, <2>b
    <2>5. c.prim \in {"F", "H", "Tk", "Tlen"} /\ d.prim \in {"F", "H", "Tk", "Tlen"}
      BY CallFacts, <1>0 DEF Ready, Prims
    <2> QED
      BY <2>4, <2>5 DEF Tag
  <1>6. \A n \in 1 .. (IF c.prim = "H" THEN 14 ELSE 12) : can(T[n]) = can(U[n])
    <2>1. \A n : Lane(c, f, n) = Lane(d, f, n)
      BY <1>5, Zenon DEF Lane
    <2> QED
      BY <1>3, <1>4, <1>5, <2>1, Zenon
  <1>7. /\ can(T[2]) = can(U[2]) /\ can(T[3]) = can(U[3])
        /\ can(T[11]) = can(U[11]) /\ can(T[12]) = can(U[12])
        /\ c.prim = "H" => can(T[13]) = can(U[13]) /\ can(T[14]) = can(U[14])
    BY <1>6
  <1>8. \A k \in 1 .. 7 : can(T[3 + k]) = can(U[3 + k])
    <2>1. \A k \in 1 .. 7 : 3 + k \in 1 .. (IF c.prim = "H" THEN 14 ELSE 12)
      OBVIOUS
    <2> QED
      BY <1>6, <2>1
  <1>9. \A x, y \in Elems : can(x[1]) = can(y[1]) /\ can(x[2]) = can(y[2]) => x = y
    BY ElemsByCanonical DEF can
  <1>10. pack(c.seed) = pack(d.seed)
    <2>1. pack(c.seed) \in Elems /\ pack(d.seed) \in Elems
      BY <1>0, CallFacts, PackIsElems DEF Ready
    <2> QED
      BY <1>1, <1>2, <1>7, <1>9, <2>1
  <1>11. p = q
    <2>1. /\ p \in Seq(Elems) /\ Len(p) = (IF c.prim = "H" THEN 2 ELSE 1)
          /\ q \in Seq(Elems) /\ Len(q) = (IF c.prim = "H" THEN 2 ELSE 1)
      BY <1>0, <1>5, Zenon DEF Ready
    <2>2. p[1] \in Elems /\ q[1] \in Elems /\ (c.prim = "H" => p[2] \in Elems /\ q[2] \in Elems)
      BY <2>1, ElementOfSeq
    <2>3. p[1] = q[1]
      BY <1>1, <1>2, <1>7, <1>9, <2>2
    <2>4. c.prim = "H" => p[2] = q[2]
      BY <1>1, <1>2, <1>5, <1>7, <1>9, <2>2
    <2>5. \A n \in 1 .. Len(p) : p[n] = q[n]
      BY <2>1, <2>3, <2>4
    <2> QED
      BY <2>1, <2>5, SeqEqual
  <1> QED
    BY <1>1, <1>2, <1>5, <1>8, <1>10, <1>11, Zenon DEF can

LEMMA HalfInjective ==
    ASSUME NEW c, NEW p, NEW d, NEW q, NEW f, Framed(c, p, f), Framed(d, q, f),
           c.prim = "Hmsg", d.prim = "Hmsg"
    PROVE  /\ pack(c.seed) = pack(d.seed) /\ p = q
           /\ pack(c.adrs[1]) = pack(d.adrs[1]) /\ pack(c.adrs[2]) = pack(d.adrs[2])
  <1> DEFINE V == HalfOf(c, p, 0)
             W == HalfOf(d, q, 0)
             can(x) == to_canonical(x)
  <1>0. Ready(c, p) /\ Ready(d, q) /\ 0 \in 0 .. 1
    <2>1. Ready(c, p) /\ Ready(d, q)
      BY Zenon DEF Framed
    <2> QED
      BY <2>1
  <1>1. /\ V \in Seq(U64) /\ Len(V) = 9
        /\ V[2] = pack(c.adrs[1])[1] /\ V[3] = pack(c.adrs[1])[2]
        /\ V[4] = pack(c.seed)[1] /\ V[5] = pack(c.seed)[2]
        /\ V[6] = pack(c.adrs[2])[1] /\ V[7] = pack(c.adrs[2])[2]
        /\ V[8] = p[1][1] /\ V[9] = p[1][2]
    BY <1>0, HalfWords DEF Words
  <1>2. /\ W \in Seq(U64) /\ Len(W) = 9
        /\ W[2] = pack(d.adrs[1])[1] /\ W[3] = pack(d.adrs[1])[2]
        /\ W[4] = pack(d.seed)[1] /\ W[5] = pack(d.seed)[2]
        /\ W[6] = pack(d.adrs[2])[1] /\ W[7] = pack(d.adrs[2])[2]
        /\ W[8] = q[1][1] /\ W[9] = q[1][2]
    BY <1>0, HalfWords DEF Words
  <1>3. Absorb(V) = Absorb(W)
    <2>1. f = <<Absorb(V), Absorb(HalfOf(c, p, 1))>> /\ f = <<Absorb(W), Absorb(HalfOf(d, q, 1))>>
      BY Zenon DEF Framed
    <2> HIDE DEF V, W
    <2> QED
      BY <2>1
  <1> HIDE DEF V, W
  <1>4. \A n \in 1 .. 9 : can(V[n]) = can(W[n])
    <2>1. 9 \in 1 .. 12
      OBVIOUS
    <2>2. \A n \in 1 .. 9 : Absorb(V)[n - 1] = can(V[n])
      BY <1>1, <2>1, AbsorbAt
    <2>3. \A n \in 1 .. 9 : Absorb(W)[n - 1] = can(W[n])
      BY <1>2, <2>1, AbsorbAt
    <2> HIDE DEF can
    <2> QED
      BY <1>3, <2>2, <2>3, Zenon
  <1> HIDE DEF can
  <1>5. /\ can(V[2]) = can(W[2]) /\ can(V[3]) = can(W[3]) /\ can(V[4]) = can(W[4])
        /\ can(V[5]) = can(W[5]) /\ can(V[6]) = can(W[6]) /\ can(V[7]) = can(W[7])
        /\ can(V[8]) = can(W[8]) /\ can(V[9]) = can(W[9])
    BY <1>4
  <1>6. \A x, y \in Elems : can(x[1]) = can(y[1]) /\ can(x[2]) = can(y[2]) => x = y
    BY ElemsByCanonical DEF can
  <1>7. /\ pack(c.seed) \in Elems /\ pack(c.adrs[1]) \in Elems /\ pack(c.adrs[2]) \in Elems
        /\ pack(d.seed) \in Elems /\ pack(d.adrs[1]) \in Elems /\ pack(d.adrs[2]) \in Elems
    BY <1>0, CallFacts, PackIsElems DEF Ready
  <1>8. p = q
    <2>1. p \in Seq(Elems) /\ Len(p) = 1 /\ q \in Seq(Elems) /\ Len(q) = 1
      BY <1>0 DEF Ready
    <2>2. p[1] \in Elems /\ q[1] \in Elems
      <3>1. 1 \in 1 .. Len(p) /\ 1 \in 1 .. Len(q)
        BY <2>1
      <3> QED
        BY <2>1, <3>1, ElementOfSeq
    <2>3. p[1] = q[1]
      BY <1>1, <1>2, <1>5, <1>6, <2>2
    <2>4. \A n \in 1 .. Len(p) : p[n] = q[n]
      BY <2>1, <2>3
    <2> QED
      BY <2>1, <2>4, SeqEqual
  <1> QED
    BY <1>1, <1>2, <1>5, <1>6, <1>7, <1>8

\* slh_hmsg begins with sub-tag 0, as slh_f does, but feeds two states where slh_f,
\* slh_tk and slh_tlen feed one; slh_h feeds two, and begins with tag 1.
LEMMA HalvesAreNotTagged ==
    ASSUME NEW c, NEW p, NEW d, NEW q, NEW f, Framed(c, p, f), Framed(d, q, f), c.prim = "Hmsg"
    PROVE  d.prim = "Hmsg"
  <1> SUFFICES ASSUME d.prim # "Hmsg" PROVE FALSE
    OBVIOUS
  <1> DEFINE V == HalfOf(c, p, 0)
             U == TaggedOf(d, q)
  <1>1. Ready(c, p) /\ Ready(d, q)
    BY Zenon DEF Framed
  <1>2. V \in Seq(U64) /\ Len(V) = 9 /\ V[1] = 0
    <2>1. 0 \in 0 .. 1
      OBVIOUS
    <2> QED
      BY <1>1, <2>1, HalfWords DEF Words
  <1>3. f = <<Absorb(V), Absorb(HalfOf(c, p, 1))>>
    BY Zenon DEF Framed
  <1> HIDE DEF V
  <1>4. d.prim = "H"
    <2>1. ASSUME d.prim \in {"F", "Tk", "Tlen"} PROVE FALSE
      <3>1. f = <<Absorb(U)>>
        BY <2>1 DEF Framed
      <3> HIDE DEF U
      <3>2. Len(f) = 1 /\ Len(f) = 2
        BY <1>3, <3>1
      <3> QED
        BY <3>2
    <2> QED
      BY <2>1 DEF Framed
  <1>5. 0 \in Elem /\ 1 \in Elem
    BY FieldAssumption, SMT DEF Elem
  <1>6. f[1][0] = 0
    <2>1. 9 \in 1 .. 12 /\ 1 \in 1 .. 9 /\ 1 - 1 = 0
      OBVIOUS
    <2>2. Absorb(V)[1 - 1] = to_canonical(V[1])
      BY <1>2, <2>1, AbsorbAt, Zenon
    <2>3. to_canonical(V[1]) = 0
      BY <1>2, <1>5, CanonicalIsItself
    <2>4. f[1] = Absorb(V)
      BY <1>3
    <2> QED
      BY <2>1, <2>2, <2>3, <2>4
  <1>7. f[1][0] = 1
    <2>1. 1 \in 1 .. (IF d.prim = "H" THEN 14 ELSE 12)
      OBVIOUS
    <2>2. Lane(d, f, 1) = to_canonical(U[1])
      BY <2>1, TaggedLanes
    <2>3. U[1] = 1
      <3>1. U[1] = Tag(d.prim)
        BY <1>1, TaggedWords
      <3> QED
        BY <1>4, <3>1 DEF Tag
    <2>4. Lane(d, f, 1) = f[1][0]
      BY DEF Lane
    <2> QED
      BY <1>5, <2>2, <2>3, <2>4, CanonicalIsItself
  <1> QED
    BY <1>6, <1>7

(***************************************************************************)
(* The second invariant: what the closing hash has fed so far, and that    *)
(* every logged call has fed its whole frame.                              *)
(***************************************************************************)
FInv ==
    /\ pc \in {"frame", "only", "block1", "block2", "half1", "half2"} => Ready(call, cur)
    /\ pc = "reduce" => fed = <<>>
    /\ pc = "frame" => fed = <<>>
    /\ pc = "only" => fed = <<Absorb(TaggedOf(call, cur))>> /\ call.prim \in {"F", "Tk", "Tlen"}
    /\ pc = "block1" => fed = <<Absorb(SubSeq(TaggedOf(call, cur), 1, 8))>>
    /\ pc = "block2" => \E s : fed = <<Absorb(SubSeq(TaggedOf(call, cur), 1, 8)),
                                       Overwrite(s, SubSeq(TaggedOf(call, cur), 9, 14))>>
    /\ pc = "half1" => fed = <<Absorb(HalfOf(call, cur, 0))>>
    /\ pc = "half2" => fed = <<Absorb(HalfOf(call, cur, 0)), Absorb(HalfOf(call, cur, 1))>>
    /\ \A e \in log : Framed(e.call, e.pairs, e.fed)

LEMMA FrameNames ==
    ASSUME IInv, pc # "idle"
    PROVE  /\ call.prim # "Hmsg" => Tagged = TaggedOf(call, cur)
           /\ call.prim = "Hmsg" => HalfInputs(0) = HalfOf(call, cur, 0)
                                    /\ HalfInputs(1) = HalfOf(call, cur, 1)
  <1>1. Tagged = TaggedOf(call, cur)
    BY Zenon DEF Tagged, TaggedOf
  <1>2. HalfInputs(0) = HalfOf(call, cur, 0) /\ HalfInputs(1) = HalfOf(call, cur, 1)
    BY Zenon DEF HalfInputs, HalfOf
  <1> QED
    BY <1>1, <1>2

LEMMA AppendTo == ASSUME NEW x, NEW y PROVE Append(<<>>, x) = <<x>> /\ Append(<<x>>, y) = <<x, y>>
  <1> DEFINE S == {x, y}
  <1>1. <<>> \in Seq(S) /\ Len(<<>>) = 0 /\ <<x>> \in Seq(S) /\ Len(<<x>>) = 1 /\ x \in S /\ y \in S
    OBVIOUS
  <1>2. <<x, y>> \in Seq(S) /\ Len(<<x, y>>) = 2 /\ <<x, y>>[1] = x /\ <<x, y>>[2] = y /\ <<x>>[1] = x
    OBVIOUS
  <1> HIDE DEF S
  <1>3. Append(<<>>, x) = <<x>>
    <2> DEFINE s == Append(<<>>, x)
    <2>1. s \in Seq(S) /\ Len(s) = 1 /\ s[1] = x
      BY <1>1, AppendProperties
    <2> QED
      BY <1>1, <1>2, <2>1, SeqEqual
  <1>4. Append(<<x>>, y) = <<x, y>>
    <2> DEFINE s == Append(<<x>>, y)
               t == <<x, y>>
    <2>1. s \in Seq(S) /\ Len(s) = 2 /\ s[1] = x /\ s[2] = y
      BY <1>1, <1>2, AppendProperties
    <2>2. t \in Seq(S) /\ Len(t) = 2 /\ t[1] = x /\ t[2] = y
      BY <1>2
    <2> HIDE DEF s, t
    <2>3. s = t
      BY <2>1, <2>2, SeqEqual
    <2> QED
      BY <2>3 DEF s, t
  <1> QED
    BY <1>3, <1>4

LEMMA FInit == Init => FInv
  BY DEF Init, FInv

LEMMA FStart ==
    ASSUME IInv, FInv, NEW c \in Calls, Start(c)
    PROVE  FInv'
  <1>1. cur' \in Seq(Elems) /\ Len(cur') = Len(c.ms)
    BY CallFacts, StartPacks DEF Start
  <1>2. pc' = (IF c.prim \in Trees THEN "reduce" ELSE "frame") /\ call' = c /\ fed' = <<>> /\ log' = log
    BY DEF Start
  <1>3. pc' = "frame" => Ready(call', cur')
    <2>1. c.prim \notin Trees => c.prim \in {"F", "H"}
      BY CallFacts DEF Trees, Prims
    <2>2. (c.prim = "F" => Len(c.ms) = 1) /\ (c.prim = "H" => Len(c.ms) = 2)
      BY CallAssumption
    <2> QED
      BY <1>1, <1>2, <2>1, <2>2 DEF Ready
  <1> QED
    BY <1>2, <1>3 DEF FInv

\* The steps of the reduce and the rounds leave frames alone.
LEMMA FReduce ==
    ASSUME IInv, FInv, ReduceNode \/ Round \/ EndNode \/ EndLevel \/ EndReduce \/ UNCHANGED vars
    PROVE  FInv'
  <1>1. CASE ReduceNode
    <2>1. pc' = "node" /\ log' = log
      BY <1>1 DEF ReduceNode, Feed
    <2> QED
      BY <2>1 DEF FInv
  <1>2. CASE Round
    <2>1. UNCHANGED <<pc, call, cur, fed, log>>
      BY <1>2 DEF Round
    <2> QED
      BY <2>1, Zenon DEF FInv
  <1>3. CASE EndNode
    <2>1. pc' = "reduce" /\ log' = log /\ fed' = <<>>
      BY <1>3 DEF EndNode
    <2> QED
      BY <2>1 DEF FInv
  <1>4. CASE EndLevel
    <2>1. pc = "reduce" /\ pc' = "reduce" /\ log' = log /\ fed' = fed
      BY <1>4 DEF EndLevel
    <2> QED
      BY <2>1 DEF FInv
  <1>5. CASE EndReduce
    <2>1. pc = "reduce" /\ pc' = "frame" /\ log' = log /\ fed' = fed /\ call' = call /\ cur' = cur
      BY <1>5 DEF EndReduce
    <2>2. Ready(call, cur)
      <3>1. call \in Calls /\ cur \in Seq(Elems) /\ call.prim # "H"
        BY <2>1 DEF IInv, Trees
      <3> QED
        BY <1>5, <3>1 DEF EndReduce, Ready
    <2> QED
      BY <2>1, <2>2 DEF FInv
  <1>6. CASE UNCHANGED vars
    BY <1>6, Zenon DEF vars, FInv
  <1> QED
    BY <1>1, <1>2, <1>3, <1>4, <1>5, <1>6

LEMMA FFrame ==
    ASSUME IInv, FInv, Frame
    PROVE  FInv'
  <1>1. pc = "frame" /\ fed = <<>> /\ Ready(call, cur) /\ call' = call /\ cur' = cur /\ log' = log
    BY DEF Frame, FInv
  <1>2. CASE call.prim \in {"F", "Tk", "Tlen"} /\ Feed("only", Absorb(Tagged))
    <2>1. pc' = "only" /\ fed' = Append(fed, Absorb(Tagged)) /\ Tagged = TaggedOf(call, cur)
      BY <1>1, <1>2, FrameNames DEF Feed
    <2>2. fed' = <<Absorb(TaggedOf(call', cur'))>>
      BY <1>1, <2>1, AppendTo, Zenon
    <2> QED
      BY <1>1, <1>2, <2>1, <2>2 DEF FInv
  <1>3. CASE call.prim = "H" /\ Feed("block1", Absorb(SubSeq(Tagged, 1, 8)))
    <2>1. /\ pc' = "block1" /\ fed' = Append(fed, Absorb(SubSeq(Tagged, 1, 8)))
          /\ Tagged = TaggedOf(call, cur)
      BY <1>1, <1>3, FrameNames DEF Feed
    <2>2. fed' = <<Absorb(SubSeq(TaggedOf(call', cur'), 1, 8))>>
      BY <1>1, <2>1, AppendTo, Zenon
    <2> QED
      BY <1>1, <2>1, <2>2 DEF FInv
  <1>4. CASE call.prim = "Hmsg" /\ Feed("half1", Absorb(HalfInputs(0)))
    <2>1. /\ pc' = "half1" /\ fed' = Append(fed, Absorb(HalfInputs(0)))
          /\ HalfInputs(0) = HalfOf(call, cur, 0)
      BY <1>1, <1>4, FrameNames DEF Feed
    <2>2. fed' = <<Absorb(HalfOf(call', cur', 0))>>
      BY <1>1, <2>1, AppendTo, Zenon
    <2> QED
      BY <1>1, <2>1, <2>2 DEF FInv
  <1> QED
    BY <1>2, <1>3, <1>4 DEF Frame

LEMMA FClosing ==
    ASSUME IInv, FInv, SecondBlock \/ SecondHalf \/ Return
    PROVE  FInv'
  <1>1. CASE SecondBlock
    <2>1. /\ pc = "block1" /\ pc' = "block2" /\ call' = call /\ cur' = cur /\ log' = log
          /\ fed' = Append(fed, Overwrite(lanes, SubSeq(Tagged, 9, 14)))
      BY <1>1 DEF SecondBlock, Feed
    <2>2. Tagged = TaggedOf(call, cur)
      BY <2>1, FrameNames DEF IInv
    <2>3. fed = <<Absorb(SubSeq(TaggedOf(call, cur), 1, 8))>> /\ Ready(call, cur)
      BY <2>1 DEF FInv
    <2>4. fed' = <<Absorb(SubSeq(TaggedOf(call', cur'), 1, 8)),
                   Overwrite(lanes, SubSeq(TaggedOf(call', cur'), 9, 14))>>
      BY <2>1, <2>2, <2>3, AppendTo, Zenon
    <2> QED
      BY <2>1, <2>3, <2>4 DEF FInv
  <1>2. CASE SecondHalf
    <2>1. /\ pc = "half1" /\ pc' = "half2" /\ call' = call /\ cur' = cur /\ log' = log
          /\ fed' = Append(fed, Absorb(HalfInputs(1)))
      BY <1>2 DEF SecondHalf, Feed
    <2>2. HalfInputs(1) = HalfOf(call, cur, 1)
      BY <2>1, FrameNames DEF IInv
    <2>3. fed = <<Absorb(HalfOf(call, cur, 0))>> /\ Ready(call, cur)
      BY <2>1 DEF FInv
    <2>4. fed' = <<Absorb(HalfOf(call', cur', 0)), Absorb(HalfOf(call', cur', 1))>>
      BY <2>1, <2>2, <2>3, AppendTo, Zenon
    <2> QED
      BY <2>1, <2>3, <2>4 DEF FInv
  <1>3. CASE Return
    <2>1. /\ pc \in {"only", "block2", "half2"} /\ pc' = "idle"
          /\ log' = log \cup {[call |-> call, pairs |-> cur, fed |-> fed]}
      BY <1>3 DEF Return
    <2>2. Ready(call, cur)
      BY <2>1 DEF FInv
    <2>3. Framed(call, cur, fed)
      <3>1. CASE pc = "only"  BY <2>2, <3>1, Zenon DEF FInv, Framed
      <3>2. CASE pc = "block2"
        <4>1. call.prim = "H"  BY <3>2 DEF IInv
        <4> QED  BY <2>2, <3>2, <4>1, Zenon DEF FInv, Framed
      <3>3. CASE pc = "half2"
        <4>1. call.prim = "Hmsg"  BY <3>3 DEF IInv
        <4> QED  BY <2>2, <3>3, <4>1, Zenon DEF FInv, Framed
      <3> QED
        BY <2>1, <3>1, <3>2, <3>3
    <2>4. \A e \in log' : Framed(e.call, e.pairs, e.fed)
      <3>1. \A e \in log : Framed(e.call, e.pairs, e.fed)
        BY Zenon DEF FInv
      <3> QED
        BY <2>1, <2>3, <3>1
    <2> QED
      BY <2>1, <2>4 DEF FInv
  <1> QED
    BY <1>1, <1>2, <1>3

LEMMA FramesStep == IInv /\ FInv /\ [Next]_vars => FInv'
  <1> SUFFICES ASSUME IInv, FInv, [Next]_vars PROVE FInv'
    OBVIOUS
  <1> QED
    BY FStart, FReduce, FFrame, FClosing DEF Next, Step, Finished

(***************************************************************************)
(* At every field size, and whatever is called: two calls whose closing    *)
(* hashes feed the same states are of the same primitive, with the same    *)
(* seed, address (randomizer and root for slh_hmsg) and pairs hashed, as   *)
(* field elements; the pairs are the inputs of slh_f and slh_h and what    *)
(* the others' inputs reduce to.  Neither the two blocks of slh_h nor the  *)
(* canonical form that poseidon_gl gives its inputs loses one of them.     *)
(***************************************************************************)
THEOREM FramesTellCallsApart == Spec => []SameFrameSameCall
  <1>1. FInv => SameFrameSameCall
    <2> SUFFICES ASSUME FInv, NEW a \in log, NEW b \in log, a.fed = b.fed
                 PROVE  Determined(a) = Determined(b)
      BY DEF SameFrameSameCall
    <2>1. Framed(a.call, a.pairs, a.fed) /\ Framed(b.call, b.pairs, a.fed)
      <3>1. \A e \in log : Framed(e.call, e.pairs, e.fed)
        BY Zenon DEF FInv
      <3> QED
        BY <3>1
    <2>2. CASE a.call.prim = "Hmsg"
      <3>1. b.call.prim = "Hmsg"
        BY <2>1, <2>2, HalvesAreNotTagged
      <3>2. /\ pack(a.call.seed) = pack(b.call.seed) /\ a.pairs = b.pairs
            /\ pack(a.call.adrs[1]) = pack(b.call.adrs[1]) /\ pack(a.call.adrs[2]) = pack(b.call.adrs[2])
        BY <2>1, <2>2, <3>1, HalfInjective
      <3> QED
        BY <2>2, <3>1, <3>2 DEF Determined
    <2>3. CASE a.call.prim # "Hmsg"
      <3>1. b.call.prim # "Hmsg"
        BY <2>1, <2>3, HalvesAreNotTagged
      <3>2. /\ a.call.prim = b.call.prim
            /\ pack(a.call.seed) = pack(b.call.seed) /\ a.pairs = b.pairs
            /\ \A k \in 1 .. 7 : to_canonical(a.call.adrs[k]) = to_canonical(b.call.adrs[k])
        BY <2>1, <2>3, <3>1, TaggedInjective
      <3> QED
        BY <2>3, <3>1, <3>2 DEF Determined
    <2> QED
      BY <2>2, <2>3
  <1> QED
    BY <1>1, FramesStep, StepInv, InvInit, FInit, PTL DEF Spec
-----------------------------------------------------------------------------
\* A set of natural numbers has a least element.
LEMMA Least ==
    ASSUME NEW T, T \subseteq Nat, T # {}
    PROVE  \E m \in T : \A k \in T : m <= k
  <1>1. \E x \in T : \A y \in T : ~ (<<y, x>> \in OpToRel(<, Nat))
    BY NatLessThanWellFounded, WFMin
  <1>2. PICK x \in T : \A y \in T : ~ (<<y, x>> \in OpToRel(<, Nat))
    BY <1>1
  <1>3. \A y \in T : ~(y < x)
    <2>1. ASSUME NEW y \in T, y < x PROVE FALSE
      <3>1. <<y, x>> \in OpToRel(<, Nat)  BY <2>1 DEF OpToRel
      <3> QED BY <3>1, <1>2
    <2> QED BY <2>1
  <1> QED BY <1>3

\* Induction, for a set instead of a predicate.
LEMMA SetInduct ==
    ASSUME NEW T, 0 \in T, \A n \in Nat : n \in T => n + 1 \in T
    PROVE  Nat \subseteq T
  <1> DEFINE B == Nat \ T
  <1>1. SUFFICES ASSUME B # {} PROVE FALSE OBVIOUS
  <1>2. PICK m \in B : \A k \in B : m <= k  BY <1>1, Least
  <1>3. m # 0 /\ m - 1 \in Nat /\ m - 1 \in T BY <1>2
  <1> QED BY <1>3, <1>2

\* The functions on 0 .. n that start at v0 and go on with st.
Begins(V, v0, st, n) ==
  {g \in [0 .. n -> V] : g[0] = v0 /\ \A k \in 0 .. n - 1 : g[k + 1] = st[k][g[k]]}

\* Two beginnings agree as far as both go, and there is one of every length.
LEMMA BeginsUnique ==
    ASSUME NEW V, NEW v0 \in V, NEW st \in [Nat -> [V -> V]], NEW n \in Nat, NEW m \in Nat,
           NEW g \in Begins(V, v0, st, n), NEW h \in Begins(V, v0, st, m)
    PROVE  \A k \in Nat : k <= n /\ k <= m => g[k] = h[k]
  <1> DEFINE T == {k \in Nat : k <= n /\ k <= m => g[k] = h[k]}
  <1>1. 0 \in T  BY DEF Begins
  <1>2. ASSUME NEW k \in Nat, k \in T PROVE k + 1 \in T
    <2> SUFFICES ASSUME k + 1 <= n, k + 1 <= m PROVE g[k + 1] = h[k + 1]  BY <1>2
    <2>1. k \in 0 .. n - 1 /\ k \in 0 .. m - 1 /\ g[k] = h[k]  BY <1>2
    <2> QED  BY <2>1 DEF Begins
  <1> HIDE DEF T
  <1>3. Nat \subseteq T  BY <1>1, <1>2, SetInduct
  <1> QED  BY <1>3 DEF T

LEMMA BeginsExists ==
    ASSUME NEW V, NEW v0 \in V, NEW st \in [Nat -> [V -> V]]
    PROVE  \A n \in Nat : \E g : g \in Begins(V, v0, st, n)
  <1> DEFINE T == {n \in Nat : \E g : g \in Begins(V, v0, st, n)}
  <1>1. 0 \in T
    <2> DEFINE g == [k \in 0 .. 0 |-> v0]
    <2>1. g \in Begins(V, v0, st, 0)  BY DEF Begins
    <2> QED  BY <2>1
  <1>2. ASSUME NEW n \in Nat, n \in T PROVE n + 1 \in T
    <2>1. PICK g : g \in Begins(V, v0, st, n)  BY <1>2
    <2> DEFINE h == [k \in 0 .. n + 1 |-> IF k = n + 1 THEN st[n][g[n]] ELSE g[k]]
    <2>2. g \in [0 .. n -> V] /\ g[0] = v0 /\ \A k \in 0 .. n - 1 : g[k + 1] = st[k][g[k]]
      BY <2>1 DEF Begins
    <2>3. n \in 0 .. n /\ g[n] \in V /\ st[n][g[n]] \in V  BY <2>2
    <2>4. h \in [0 .. n + 1 -> V]
      <3>1. \A k \in 0 .. n + 1 : k # n + 1 => k \in 0 .. n  OBVIOUS
      <3> QED  BY <2>2, <2>3, <3>1
    <2>5. h[0] = v0  BY <2>2
    <2>6. ASSUME NEW k \in 0 .. (n + 1) - 1 PROVE h[k + 1] = st[k][h[k]]
      <3>1. CASE k = n  BY <3>1
      <3>2. CASE k # n
        <4>1. k \in 0 .. n - 1 /\ k + 1 # n + 1 /\ k # n + 1 /\ k + 1 \in 0 .. n + 1 /\ k \in 0 .. n + 1  BY <3>2
        <4> QED  BY <2>2, <4>1
      <3> QED  BY <3>1, <3>2
    <2> HIDE DEF h
    <2>7. h \in Begins(V, v0, st, n + 1)  BY <2>4, <2>5, <2>6 DEF Begins
    <2> QED  BY <2>7
  <1> HIDE DEF T
  <1>3. Nat \subseteq T  BY <1>1, <1>2, SetInduct
  <1> QED  BY <1>3 DEF T

\* The functions on the natural numbers that start at v0 and go on with st.
Solutions(V, v0, st) == {f \in [Nat -> V] : f[0] = v0 /\ \A k \in Nat : f[k + 1] = st[k][f[k]]}

\* Every recursion over the natural numbers has a solution.
LEMMA RecursionExists ==
    ASSUME NEW V, NEW v0 \in V, NEW st \in [Nat -> [V -> V]]
    PROVE  \E f : f \in Solutions(V, v0, st)
  <1> DEFINE f == [n \in Nat |-> (CHOOSE g : g \in Begins(V, v0, st, n))[n]]
  <1>1. ASSUME NEW n \in Nat
        PROVE  \E g \in Begins(V, v0, st, n) : f[n] = g[n]
    <2>1. (CHOOSE g : g \in Begins(V, v0, st, n)) \in Begins(V, v0, st, n)  BY BeginsExists
    <2> QED  BY <2>1
  <1> HIDE DEF f
  <1>2. ASSUME NEW n \in Nat PROVE f[n] \in V
    BY <1>1 DEF Begins
  <1>3. f \in [Nat -> V]  BY <1>2 DEF f
  <1>4. f[0] = v0  BY <1>1 DEF Begins
  <1>5. ASSUME NEW k \in Nat PROVE f[k + 1] = st[k][f[k]]
    <2>1. PICK g \in Begins(V, v0, st, k) : f[k] = g[k]  BY <1>1
    <2>2. PICK h \in Begins(V, v0, st, k + 1) : f[k + 1] = h[k + 1]  BY <1>1
    <2>3. h[k] = g[k]  BY BeginsUnique
    <2>4. h[k + 1] = st[k][h[k]]  BY DEF Begins
    <2> QED  BY <2>1, <2>2, <2>3, <2>4
  <1>6. f \in Solutions(V, v0, st)  BY <1>3, <1>4, <1>5 DEF Solutions
  <1> QED  BY <1>6

\* Span doubles.
LEMMA SpanFacts ==
    /\ Span[0] = 1
    /\ \A k \in Nat : Span[k] \in Nat \ {0} /\ Span[k + 1] = 2 * Span[k] /\ Span[k] > k
  <1> DEFINE st == [k \in Nat |-> [v \in Nat |-> 2 * v]]
  <1>1. st \in [Nat -> [Nat -> Nat]]
    OBVIOUS
  <1>2. PICK f \in [Nat -> Nat] : f[0] = 1 /\ \A k \in Nat : f[k + 1] = st[k][f[k]]
    <2> HIDE DEF st
    <2>1. 1 \in Nat
      OBVIOUS
    <2>2. PICK f : f \in Solutions(Nat, 1, st)
      BY <1>1, <2>1, RecursionExists
    <2> QED
      BY <2>2 DEF Solutions
  <1>3. f = [k \in Nat |-> IF k = 0 THEN 1 ELSE 2 * f[k - 1]]
    <2>1. ASSUME NEW k \in Nat PROVE f[k] = IF k = 0 THEN 1 ELSE 2 * f[k - 1]
      <3>1. CASE k = 0
        BY <1>2, <3>1
      <3>2. CASE k # 0
        <4>1. k - 1 \in Nat /\ (k - 1) + 1 = k /\ f[k - 1] \in Nat
          BY <1>2, <3>2
        <4> QED
          BY <1>2, <3>2, <4>1
      <3> QED
        BY <3>1, <3>2
    <2> QED
      BY <1>2, <2>1
  <1>4. Span = [k \in Nat |-> IF k = 0 THEN 1 ELSE 2 * Span[k - 1]]
    <2>1. \E g : g = [k \in Nat |-> IF k = 0 THEN 1 ELSE 2 * g[k - 1]]
      BY <1>3, Zenon
    <2>2. Span = CHOOSE g : g = [k \in Nat |-> IF k = 0 THEN 1 ELSE 2 * g[k - 1]]
      BY Zenon DEF Span
    <2> QED
      BY <2>1, <2>2, Zenon
  <1>5. Span[0] = 1
    BY <1>4
  <1>6. ASSUME NEW k \in Nat PROVE Span[k + 1] = 2 * Span[k]
    <2>1. k + 1 \in Nat /\ k + 1 # 0 /\ (k + 1) - 1 = k
      OBVIOUS
    <2>2. Span[k + 1] = IF k + 1 = 0 THEN 1 ELSE 2 * Span[(k + 1) - 1]
      BY <1>4, <2>1
    <2> QED
      BY <2>1, <2>2
  <1> DEFINE T == {k \in Nat : Span[k] \in Nat \ {0} /\ Span[k] > k}
  <1>7. 0 \in T /\ \A k \in Nat : k \in T => k + 1 \in T
    BY <1>5, <1>6
  <1> HIDE DEF T
  <1>8. Nat \subseteq T
    BY <1>7, SetInduct
  <1> QED
    BY <1>5, <1>6, <1>8 DEF T

\* The permutation: round k is st[k].
Rounds == [k \in Nat |-> [s \in [Lanes -> Elem] |-> IF k < ROUNDS THEN RoundOf(s, k) ELSE s]]
RoundsFrom(s) == CHOOSE f : f \in Solutions([Lanes -> Elem], s, Rounds)
HashOf(s) == Squeeze(RoundsFrom(s)[ROUNDS])

LEMMA RoundsFromFacts ==
    ASSUME NEW s \in [Lanes -> Elem]
    PROVE  /\ RoundsFrom(s)[0] = s
           /\ \A k \in Nat : RoundsFrom(s)[k] \in [Lanes -> Elem]
           /\ \A k \in 0 .. ROUNDS - 1 : RoundsFrom(s)[k + 1] = RoundOf(RoundsFrom(s)[k], k)
           /\ HashOf(s) \in Elems
  <1> DEFINE V == [Lanes -> Elem]
             f == RoundsFrom(s)
  <1>1. ROUNDS \in Nat
    BY FieldAssumption DEF ROUNDS
  <1>2. ASSUME NEW k \in Nat, NEW v \in V
        PROVE  (IF k < ROUNDS THEN RoundOf(v, k) ELSE v) \in V
    <2>1. k < ROUNDS => k \in 0 .. ROUNDS - 1
      BY <1>1
    <2> QED
      BY <2>1, RoundInField
  <1>3. Rounds \in [Nat -> [V -> V]]
    BY <1>2 DEF Rounds
  <1>4. \E g : g \in Solutions(V, s, Rounds)
    <2> HIDE DEF V
    <2>1. s \in V
      BY DEF V
    <2> QED
      BY <1>3, <2>1, RecursionExists
  <1>5. f \in Solutions(V, s, Rounds)
    BY <1>4 DEF RoundsFrom
  <1> HIDE DEF f
  <1>6. f \in [Nat -> V] /\ f[0] = s /\ \A k \in Nat : f[k + 1] = Rounds[k][f[k]]
    BY <1>5 DEF Solutions
  <1>7. ASSUME NEW k \in 0 .. ROUNDS - 1 PROVE f[k + 1] = RoundOf(f[k], k)
    <2>1. k \in Nat /\ k < ROUNDS /\ f[k] \in V
      BY <1>1, <1>6
    <2>2. Rounds[k][f[k]] = RoundOf(f[k], k)
      BY <2>1 DEF Rounds
    <2> QED
      BY <1>6, <2>1, <2>2
  <1>8. Squeeze(f[ROUNDS]) \in Elems
    BY <1>1, <1>6, SqueezeInField
  <1> QED
    BY <1>6, <1>7, <1>8 DEF f, HashOf

\* The children of a node are what a permutation absorbs.
NodeOf(l, right) == HashOf(Absorb(l \o right))

LEMMA NodeInField ==
    ASSUME NEW l \in Elems, NEW right \in Elems
    PROVE  Absorb(l \o right) \in [Lanes -> Elem] /\ NodeOf(l, right) \in Elems
  <1>1. l \o right \in Seq(U64)
    BY ElemsAreSeqs, Joined
  <1>2. Absorb(l \o right) \in [Lanes -> Elem]
    BY <1>1, AbsorbInField
  <1> QED
    BY <1>2, RoundsFromFacts DEF NodeOf

Nil == <<0, 0>>

LEMMA NilInField == Nil \in Elems
  <1>1. 0 \in 0 .. P - 1
    BY FieldAssumption
  <1> QED
    BY <1>1 DEF Nil, Elems

(***************************************************************************)
(* PaddedTree with the values instead of what the history has of them.     *)
(***************************************************************************)
Bottom(ms) == [n \in 0 .. Len(ms) |-> IF n < Len(ms) THEN pack(ms[n + 1]) ELSE Nil]
Above(count) ==
    [z \in Nat |-> [f \in [0 .. count -> Elems] |->
        [n \in 0 .. count |-> IF n * Span[z + 1] >= count THEN Nil ELSE NodeOf(f[2 * n], f[2 * n + 1])]]]
Tree(ms) == CHOOSE f : f \in Solutions([0 .. Len(ms) -> Elems], Bottom(ms), Above(Len(ms)))

\* A multiple of the span that is below the count has its factor below the count.
LEMMA Multiples ==
    ASSUME NEW s \in Nat \ {0}, NEW a \in Nat, NEW b \in Nat
    PROVE  /\ a * s \in Nat
           /\ a <= b => a * s <= b * s
           /\ a <= a * s
           /\ a * (2 * s) = (2 * a) * s
  <1>1. a * s \in Nat /\ a <= a * s /\ a * (2 * s) = (2 * a) * s
    OBVIOUS
  <1>2. a <= b => a * s <= b * s
    <2> SUFFICES ASSUME a <= b PROVE a * s <= b * s
      OBVIOUS
    <2>1. PICK c \in Nat : b = a + c
      <3>1. b - a \in Nat /\ b = a + (b - a)
        OBVIOUS
      <3> QED
        BY <3>1
    <2>2. (a + c) * s = a * s + c * s /\ c * s \in Nat
      OBVIOUS
    <2> QED
      BY <1>1, <2>1, <2>2
  <1> QED
    BY <1>1, <1>2

LEMMA ChildrenFit ==
    ASSUME NEW count \in Nat, NEW z \in Nat, NEW n \in Nat, n * Span[z + 1] < count
    PROVE  2 * n \in 0 .. count /\ 2 * n + 1 \in 0 .. count
  <1>1. PICK s \in Nat \ {0} : s = Span[z] /\ Span[z + 1] = 2 * s
    BY SpanFacts
  <1>2. n * (2 * s) = (2 * n) * s /\ 2 * n <= (2 * n) * s /\ (2 * n) * s \in Nat
    BY Multiples
  <1>3. (2 * n) * s < count
    BY <1>1, <1>2
  <1> QED
    BY <1>2, <1>3

LEMMA TreeFacts ==
    ASSUME NEW ms \in Seq(Value)
    PROVE  /\ Tree(ms)[0] = Bottom(ms)
           /\ \A z \in Nat : Tree(ms)[z] \in [0 .. Len(ms) -> Elems]
           /\ \A z \in Nat : \A n \in 0 .. Len(ms) :
                Tree(ms)[z + 1][n] = IF n * Span[z + 1] >= Len(ms) THEN Nil
                                     ELSE NodeOf(Tree(ms)[z][2 * n], Tree(ms)[z][2 * n + 1])
  <1> DEFINE N == Len(ms)
             V == [0 .. N -> Elems]
             f == Tree(ms)
  <1>1. N \in Nat
    BY LenProperties
  <1>2. Bottom(ms) \in V
    <2>1. ASSUME NEW n \in 0 .. N, n < N PROVE pack(ms[n + 1]) \in Elems
      <3>1. n + 1 \in 1 .. Len(ms)
        BY <1>1, <2>1
      <3>2. ms[n + 1] \in Value
        BY <3>1, ElementOfSeq
      <3> QED
        BY <3>2, PackIsElems
    <2> QED
      BY <2>1, NilInField DEF Bottom
  <1>3. ASSUME NEW z \in Nat, NEW g \in V, NEW n \in 0 .. N
        PROVE  (IF n * Span[z + 1] >= N THEN Nil ELSE NodeOf(g[2 * n], g[2 * n + 1])) \in Elems
    <2>1. CASE n * Span[z + 1] >= N
      BY <2>1, NilInField
    <2>2. CASE ~(n * Span[z + 1] >= N)
      <3>0. n \in Nat /\ z + 1 \in Nat
        BY <1>1
      <3>1. n \in Nat /\ Span[z + 1] \in Nat \ {0}
        BY <3>0, SpanFacts, Zenon
      <3>2. n * Span[z + 1] \in Nat
        BY <3>1, Multiples
      <3>3. n * Span[z + 1] < N
        BY <1>1, <2>2, <3>2
      <3>4. 2 * n \in 0 .. N /\ 2 * n + 1 \in 0 .. N
        BY <1>1, <3>1, <3>3, ChildrenFit
      <3>5. g[2 * n] \in Elems /\ g[2 * n + 1] \in Elems
        BY <3>4
      <3>6. NodeOf(g[2 * n], g[2 * n + 1]) \in Elems
        BY <3>5, NodeInField
      <3> QED
        BY <2>2, <3>6
    <2> QED
      BY <2>1, <2>2
  <1>4. Above(N) \in [Nat -> [V -> V]]
    BY <1>3 DEF Above
  <1>5. \E g : g \in Solutions(V, Bottom(ms), Above(N))
    <2> HIDE DEF V
    <2> QED
      BY <1>2, <1>4, RecursionExists
  <1>6. f \in Solutions(V, Bottom(ms), Above(N))
    BY <1>5 DEF Tree
  <1> HIDE DEF f
  <1>7. f \in [Nat -> V] /\ f[0] = Bottom(ms) /\ \A k \in Nat : f[k + 1] = Above(N)[k][f[k]]
    BY <1>6 DEF Solutions
  <1>8. ASSUME NEW z \in Nat, NEW n \in 0 .. N
        PROVE  f[z + 1][n] = IF n * Span[z + 1] >= N THEN Nil ELSE NodeOf(f[z][2 * n], f[z][2 * n + 1])
    <2>1. f[z] \in V /\ f[z + 1] = Above(N)[z][f[z]]
      BY <1>7
    <2> QED
      BY <2>1 DEF Above
  <1> QED
    BY <1>7, <1>8 DEF f

\* What the history has of node n above level y, and the reduce at level z of the tree over ms:
\* w is that level, x the next one as far as it goes, h has all the nodes so far.
Got(ms, y, n) == <<Absorb(Tree(ms)[y][2 * n] \o Tree(ms)[y][2 * n + 1]), Tree(ms)[y + 1][n]>>
Level(ms, w, x, h, z) ==
    /\ \A g \in 0 .. z - 1 : Span[g] < Len(ms)
    /\ (Len(w) - 1) * Span[z] < Len(ms) /\ Len(ms) <= Len(w) * Span[z]
    /\ \A n \in 0 .. Len(w) - 1 : w[n + 1] = Tree(ms)[z][n]
    /\ Len(x) <= (Len(w) + 1) \div 2
    /\ \A n \in 0 .. Len(x) - 1 : x[n + 1] = Tree(ms)[z + 1][n] /\ Got(ms, z, n) \in h
    /\ \A y \in 0 .. z - 1 : \A n \in 0 .. Len(ms) : n * Span[y + 1] < Len(ms) => Got(ms, y, n) \in h

NodeAt == 2 * Len(nxt) + 1      \* the node that the reduce hashes

(***************************************************************************)
(* The third invariant: the reduce is at some level of the tree, and what  *)
(* permute is at is a state of the permutation of what it was handed.      *)
(***************************************************************************)
TInv ==
    /\ \A d \in nodes : d[2] = HashOf(d[1])
    /\ pc \in {"reduce", "node"} => \E z \in Nat : Level(call.ms, cur, nxt, nodes, z)
    /\ pc = "node" => /\ Len(cur) > 1 /\ Len(nxt) < Pairs /\ r <= ROUNDS
                      /\ fed = <<Absorb(cur[NodeAt] \o Right(NodeAt))>>
                      /\ lanes = RoundsFrom(Absorb(cur[NodeAt] \o Right(NodeAt)))[r]
    /\ pc = "frame" /\ call.prim \in Trees =>
         Len(cur) = 1 /\ \E z \in Nat : Level(call.ms, cur, nxt, nodes, z)

\* Beyond the leaves everything is missing.
LEMMA BeyondIsNil ==
    ASSUME NEW ms \in Seq(Value), NEW z \in Nat, NEW n \in 0 .. Len(ms), n * Span[z] >= Len(ms)
    PROVE  Tree(ms)[z][n] = Nil
  <1>1. Len(ms) \in Nat /\ n \in Nat
    BY LenProperties
  <1>2. CASE z = 0
    <2>1. n * Span[z] = n
      BY <1>1, <1>2, SpanFacts
    <2>2. ~(n < Len(ms))
      BY <1>1, <2>1
    <2> QED
      BY <1>2, <2>2, TreeFacts DEF Bottom
  <1>3. CASE z # 0
    <2>1. z - 1 \in Nat /\ z = (z - 1) + 1
      BY <1>3
    <2>2. PICK y \in Nat : z = y + 1
      BY <2>1
    <2>3. Tree(ms)[y + 1][n] = IF n * Span[y + 1] >= Len(ms) THEN Nil
                               ELSE NodeOf(Tree(ms)[y][2 * n], Tree(ms)[y][2 * n + 1])
      BY TreeFacts
    <2> QED
      BY <2>2, <2>3
  <1> QED
    BY <1>2, <1>3

\* Where the reduce pairs nodes of its level, they are the children of the tree's node.
LEMMA PairsAreChildren ==
    ASSUME NEW ms \in Seq(Value), NEW w \in Seq(Elems), NEW x, NEW h, NEW z \in Nat, Level(ms, w, x, h, z),
           NEW k \in Nat, k < (Len(w) + 1) \div 2
    PROVE  /\ k \in 0 .. Len(ms) /\ k * Span[z + 1] < Len(ms)
           /\ Tree(ms)[z][2 * k] \in Elems /\ Tree(ms)[z][2 * k + 1] \in Elems
           /\ w[2 * k + 1] = Tree(ms)[z][2 * k]
           /\ (IF 2 * k + 2 <= Len(w) THEN w[2 * k + 2] ELSE Nil) = Tree(ms)[z][2 * k + 1]
           /\ Tree(ms)[z + 1][k] = NodeOf(Tree(ms)[z][2 * k], Tree(ms)[z][2 * k + 1])
  <1> DEFINE N == Len(ms)
             L == Len(w)
             t == Tree(ms)
  <1>1. N \in Nat /\ L \in Nat
    BY LenProperties
  <1>2. /\ (L - 1) * Span[z] < N /\ N <= L * Span[z]
        /\ \A n \in 0 .. L - 1 : w[n + 1] = t[z][n]
    BY DEF Level
  <1>3. PICK s \in Nat \ {0} : s = Span[z] /\ Span[z + 1] = 2 * s
    BY SpanFacts
  <1>t. /\ t[z] \in [0 .. N -> Elems]
        /\ \A n \in 0 .. N : t[z + 1][n] = IF n * Span[z + 1] >= N THEN Nil ELSE NodeOf(t[z][2 * n], t[z][2 * n + 1])
        /\ \A n \in 0 .. N : n * Span[z] >= N => t[z][n] = Nil
    BY TreeFacts, BeyondIsNil
  <1> HIDE DEF N, L, t
  <1>4. 2 * k <= L - 1 /\ L - 1 \in Nat /\ 2 * k \in Nat
    BY <1>1 DEF L
  <1>5. (2 * k) * s <= (L - 1) * s /\ (2 * k) * s \in Nat /\ (L - 1) * s \in Nat
    BY <1>4, Multiples
  <1>6. k * Span[z + 1] = (2 * k) * s
    BY <1>3, Multiples
  <1>s. (L - 1) * s < N /\ N <= L * s
    BY <1>2, <1>3, Zenon
  <1>7. k * Span[z + 1] < N /\ k * Span[z + 1] \in Nat
    <2>1. PICK p \in Nat : p = (2 * k) * s
      BY <1>5
    <2>2. PICK q \in Nat : q = (L - 1) * s
      BY <1>5
    <2>3. p <= q /\ q < N
      BY <1>5, <1>s, <2>1, <2>2, Zenon
    <2>4. p < N
      BY <1>1, <2>1, <2>2, <2>3
    <2> QED
      BY <1>6, <2>1, <2>4, Zenon
  <1>8. 2 * k \in 0 .. N /\ 2 * k + 1 \in 0 .. N
    BY <1>1, <1>7, ChildrenFit
  <1>9. k \in 0 .. N
    BY <1>1, <1>8
  <1>10. w[2 * k + 1] = t[z][2 * k]
    BY <1>2, <1>4
  <1>11. (IF 2 * k + 2 <= L THEN w[2 * k + 2] ELSE Nil) = t[z][2 * k + 1]
    <2>1. CASE 2 * k + 2 <= L
      <3>1. 2 * k + 1 \in 0 .. L - 1 /\ (2 * k + 1) + 1 = 2 * k + 2
        BY <1>1, <2>1
      <3>2. w[(2 * k + 1) + 1] = t[z][2 * k + 1]
        BY <1>2, <3>1
      <3> QED
        BY <2>1, <3>1, <3>2
    <2>2. CASE ~(2 * k + 2 <= L)
      <3>1. 2 * k + 1 \in Nat /\ L <= 2 * k + 1
        BY <1>1, <2>2
      <3>2. L * s <= (2 * k + 1) * s /\ L * s \in Nat /\ (2 * k + 1) * s \in Nat
        BY <1>1, <3>1, Multiples
      <3>3. (2 * k + 1) * Span[z] >= N
        <4>1. PICK p \in Nat : p = (2 * k + 1) * s
          BY <3>2
        <4>2. PICK q \in Nat : q = L * s
          BY <3>2
        <4>3. q <= p /\ N <= q
          BY <1>s, <3>2, <4>1, <4>2, Zenon
        <4>4. p >= N
          BY <1>1, <4>1, <4>2, <4>3
        <4> QED
          BY <1>3, <4>1, <4>4, Zenon
      <3> QED
        BY <1>t, <1>8, <2>2, <3>3
    <2> QED
      BY <2>1, <2>2
  <1>12. t[z + 1][k] = NodeOf(t[z][2 * k], t[z][2 * k + 1])
    <2>1. ~(k * Span[z + 1] >= N)
      BY <1>1, <1>7
    <2> QED
      BY <1>t, <1>9, <2>1
  <1>13. t[z][2 * k] \in Elems /\ t[z][2 * k + 1] \in Elems
    BY <1>t, <1>8
  <1> QED
    BY <1>7, <1>9, <1>10, <1>11, <1>12, <1>13 DEF N, L, t

\* What node NodeAt hashes, and that it is the next one of the level above.
LEMMA NodeIsNext ==
    ASSUME IInv, NEW z \in Nat, Level(call.ms, cur, nxt, nodes, z), Len(nxt) < Pairs
    PROVE  /\ Len(nxt) \in 0 .. Len(call.ms) /\ Len(nxt) * Span[z + 1] < Len(call.ms)
           /\ Absorb(cur[NodeAt] \o Right(NodeAt)) \in [Lanes -> Elem]
           /\ Got(call.ms, z, Len(nxt)) = <<Absorb(cur[NodeAt] \o Right(NodeAt)),
                                            HashOf(Absorb(cur[NodeAt] \o Right(NodeAt)))>>
  <1> DEFINE k == Len(nxt)
             ms == call.ms
             a == Tree(ms)[z][2 * k]
             b == Tree(ms)[z][2 * k + 1]
  <1>1. k \in Nat /\ Len(cur) \in Nat /\ ms \in Seq(Value) /\ cur \in Seq(Elems)
    BY LenProperties, CallFacts DEF IInv
  <1>2. k < (Len(cur) + 1) \div 2
    BY DEF Pairs
  <1>3. /\ k \in 0 .. Len(ms) /\ k * Span[z + 1] < Len(ms)
        /\ a \in Elems /\ b \in Elems
        /\ cur[2 * k + 1] = a
        /\ (IF 2 * k + 2 <= Len(cur) THEN cur[2 * k + 2] ELSE Nil) = b
        /\ Tree(ms)[z + 1][k] = NodeOf(a, b)
    <2> HIDE DEF k, ms
    <2> QED
      BY <1>1, <1>2, PairsAreChildren DEF ms
  <1>4. Right(NodeAt) = b
    <2>1. NodeAt + 1 = 2 * k + 2
      BY <1>1 DEF NodeAt
    <2> HIDE DEF k, a, b, ms
    <2> QED
      BY <1>3, <2>1 DEF Right, Nil
  <1>5. cur[NodeAt] = a
    BY <1>3 DEF NodeAt
  <1>6. Got(ms, z, k) = <<Absorb(a \o b), NodeOf(a, b)>>
    BY <1>3 DEF Got
  <1> HIDE DEF a, b, k, ms
  <1>7. Absorb(a \o b) \in [Lanes -> Elem]
    BY <1>3, NodeInField
  <1> QED
    BY <1>3, <1>4, <1>5, <1>6, <1>7 DEF NodeOf, k, ms

\* PaddedTree, row by row.
PaddedRow(ms, f, z) ==
    [n \in 0 .. Len(ms) |-> IF n * Span[z] >= Len(ms) THEN {Nil}
                            ELSE IF z = 0 THEN {pack(ms[n + 1])}
                            ELSE Hashed(f[z - 1][2 * n], f[z - 1][2 * n + 1])]

LEMMA PaddedFacts ==
    ASSUME NEW ms \in Seq(Value), NEW z \in Nat
    PROVE  PaddedTree(ms)[z] = PaddedRow(ms, PaddedTree(ms), z)
  <1> DEFINE N == Len(ms)
             W == {Nil} \cup {pack(ms[k]) : k \in 1 .. N} \cup {d[2] : d \in nodes}
             V == [0 .. N -> SUBSET W]
             b == [n \in 0 .. N |-> IF n * Span[0] >= N THEN {Nil} ELSE {pack(ms[n + 1])}]
             up(g, y) == [n \in 0 .. N |-> IF n * Span[y + 1] >= N THEN {Nil}
                                           ELSE Hashed(g[2 * n], g[2 * n + 1])]
             st == [y \in Nat |-> [g \in V |-> up(g, y)]]
  <1>1. N \in Nat
    BY LenProperties
  <1>2. b \in V
    <2>1. ASSUME NEW n \in 0 .. N PROVE b[n] \in SUBSET W
      <3>1. n * Span[0] = n
        BY <1>1, SpanFacts
      <3>2. ~(n * Span[0] >= N) => n + 1 \in 1 .. N
        BY <1>1, <3>1
      <3> QED
        BY <3>2
    <2> QED
      BY <2>1
  <1>3. \A s, t : Hashed(s, t) \subseteq W
    BY DEF Hashed
  <1>4. ASSUME NEW y \in Nat, NEW g \in V PROVE up(g, y) \in V
    <2>1. ASSUME NEW n \in 0 .. N
          PROVE  (IF n * Span[y + 1] >= N THEN {Nil} ELSE Hashed(g[2 * n], g[2 * n + 1])) \in SUBSET W
      BY <1>3
    <2> HIDE DEF W
    <2> QED
      BY <2>1
  <1>5. st \in [Nat -> [V -> V]]
    <2> HIDE DEF V, up
    <2> QED
      BY <1>4
  <1>6. PICK f : f \in [Nat -> V] /\ f[0] = b /\ \A y \in Nat : f[y + 1] = up(f[y], y)
    <2> HIDE DEF V, up, b, st
    <2>1. PICK f : f \in Solutions(V, b, st)
      BY <1>2, <1>5, RecursionExists
    <2>2. f \in [Nat -> V] /\ f[0] = b /\ \A y \in Nat : f[y + 1] = st[y][f[y]]
      BY <2>1 DEF Solutions
    <2>3. \A y \in Nat : f[y + 1] = up(f[y], y)
      BY <2>2 DEF st
    <2> QED
      BY <2>2, <2>3
  <1>7. f = [y \in Nat |-> PaddedRow(ms, f, y)]
    <2>1. ASSUME NEW y \in Nat PROVE f[y] = PaddedRow(ms, f, y)
      <3>1. CASE y = 0
        BY <1>6, <3>1 DEF PaddedRow
      <3>2. CASE y # 0
        <4>1. PICK x \in Nat : y = x + 1
          <5>1. y - 1 \in Nat /\ y = (y - 1) + 1
            BY <3>2
          <5> QED
            BY <5>1
        <4>2. (x + 1) - 1 = x /\ x + 1 # 0
          OBVIOUS
        <4>3. PaddedRow(ms, f, x + 1) = up(f[x], x)
          BY <4>2 DEF PaddedRow
        <4> HIDE DEF up
        <4> QED
          BY <1>6, <4>1, <4>3
      <3> QED
        BY <3>1, <3>2
    <2> HIDE DEF V
    <2> QED
      BY <1>6, <2>1
  <1>8. PaddedTree(ms) = CHOOSE g : g = [y \in Nat |-> PaddedRow(ms, g, y)]
    BY Zenon DEF PaddedTree, PaddedRow, Nil
  <1>9. PaddedTree(ms) = [y \in Nat |-> PaddedRow(ms, PaddedTree(ms), y)]
    <2>1. \E g : g = [y \in Nat |-> PaddedRow(ms, g, y)]
      BY <1>7, Zenon
    <2> QED
      BY <1>8, <2>1, Zenon
  <1> QED
    BY <1>9, Zenon

\* If all of the tree's nodes below level z are in the history, which holds only
\* results of the permutation, PaddedTree has exactly the tree's values up to there.
LEMMA PaddedIsTree ==
    ASSUME NEW ms \in Seq(Value), NEW z \in Nat,
           \A d \in nodes : d[2] = HashOf(d[1]),
           \A y \in 0 .. z - 1 : \A n \in 0 .. Len(ms) : n * Span[y + 1] < Len(ms) => Got(ms, y, n) \in nodes
    PROVE  \A n \in 0 .. Len(ms) : PaddedTree(ms)[z][n] = {Tree(ms)[z][n]}
  <1> DEFINE N == Len(ms)
             T == {y \in Nat : y <= z => \A n \in 0 .. N : PaddedTree(ms)[y][n] = {Tree(ms)[y][n]}}
  <1>1. N \in Nat
    BY LenProperties
  <1>2. 0 \in T
    <2> SUFFICES ASSUME NEW n \in 0 .. N PROVE PaddedTree(ms)[0][n] = {Tree(ms)[0][n]}
      OBVIOUS
    <2>1. n * Span[0] = n
      BY <1>1, SpanFacts
    <2>2. PaddedTree(ms)[0][n] = IF n >= N THEN {Nil} ELSE {pack(ms[n + 1])}
      <3>1. PaddedTree(ms)[0] = PaddedRow(ms, PaddedTree(ms), 0)
        BY PaddedFacts
      <3> QED
        BY <2>1, <3>1 DEF PaddedRow
    <2>3. Tree(ms)[0][n] = IF n < N THEN pack(ms[n + 1]) ELSE Nil
      BY TreeFacts DEF Bottom
    <2> QED
      BY <1>1, <2>2, <2>3
  <1>3. ASSUME NEW y \in Nat, y \in T PROVE y + 1 \in T
    <2> SUFFICES ASSUME y + 1 <= z, NEW n \in 0 .. N
                 PROVE  PaddedTree(ms)[y + 1][n] = {Tree(ms)[y + 1][n]}
      OBVIOUS
    <2> DEFINE l == Tree(ms)[y][2 * n]
               right == Tree(ms)[y][2 * n + 1]
    <2>1. y \in 0 .. z - 1 /\ \A m \in 0 .. N : PaddedTree(ms)[y][m] = {Tree(ms)[y][m]}
      BY <1>3
    <2>2. y + 1 \in Nat /\ y + 1 # 0 /\ (y + 1) - 1 = y
      OBVIOUS
    <2>3. PaddedTree(ms)[y + 1] = PaddedRow(ms, PaddedTree(ms), y + 1)
      BY <2>2, PaddedFacts
    <2>4. PaddedTree(ms)[y + 1][n] = IF n * Span[y + 1] >= N THEN {Nil}
                                     ELSE Hashed(PaddedTree(ms)[y][2 * n], PaddedTree(ms)[y][2 * n + 1])
      BY <2>2, <2>3 DEF PaddedRow
    <2>5. Tree(ms)[y + 1][n] = IF n * Span[y + 1] >= N THEN Nil ELSE NodeOf(l, right)
      BY TreeFacts
    <2>6. CASE n * Span[y + 1] >= N
      BY <2>4, <2>5, <2>6
    <2>7. CASE ~(n * Span[y + 1] >= N)
      <3>1. n \in Nat /\ n * Span[y + 1] \in Nat
        <4>0. n \in Nat
          BY <1>1
        <4>1. n \in Nat /\ Span[y + 1] \in Nat \ {0}
          BY <4>0, <2>2, SpanFacts, Zenon
        <4> QED
          BY <4>1, Multiples
      <3>2. n * Span[y + 1] < N
        <4>1. PICK p \in Nat : p = n * Span[y + 1]
          BY <3>1
        <4> QED
          BY <1>1, <2>7, <4>1
      <3>3. 2 * n \in 0 .. N /\ 2 * n + 1 \in 0 .. N
        BY <1>1, <3>1, <3>2, ChildrenFit
      <3>4. PaddedTree(ms)[y][2 * n] = {l} /\ PaddedTree(ms)[y][2 * n + 1] = {right}
        BY <2>1, <3>3
      <3>5. <<Absorb(l \o right), NodeOf(l, right)>> \in nodes
        <4>1. Got(ms, y, n) \in nodes
          BY <2>1, <3>2
        <4> QED
          BY <2>5, <2>7, <4>1 DEF Got
      <3>6. Hashed({l}, {right}) = {NodeOf(l, right)}
        <4> HIDE DEF l, right
        <4>1. ASSUME NEW d \in nodes, d[1] = Absorb(l \o right) PROVE d[2] = NodeOf(l, right)
          BY <4>1 DEF NodeOf
        <4>2. NodeOf(l, right) \in Hashed({l}, {right})
          <5> DEFINE d == <<Absorb(l \o right), NodeOf(l, right)>>
          <5>1. d \in nodes /\ d[1] = Absorb(l \o right) /\ d[2] = NodeOf(l, right)
            BY <3>5
          <5> HIDE DEF d
          <5> QED
            BY <5>1 DEF Hashed
        <4> QED
          BY <4>1, <4>2 DEF Hashed
      <3> QED
        BY <2>4, <2>5, <2>7, <3>4, <3>6
    <2> QED
      BY <2>6, <2>7
  <1> HIDE DEF T
  <1>4. Nat \subseteq T
    BY <1>2, <1>3, SetInduct
  <1>5. z \in T
    BY <1>4
  <1> QED
    BY <1>5 DEF T

\* The level whose span is the first to reach the count is the height.
LEMMA HeightIs ==
    ASSUME NEW count \in Nat, NEW z \in Nat, Span[z] >= count, \A g \in 0 .. z - 1 : Span[g] < count
    PROVE  Height(count) = z
  <1> DEFINE ok(h) == Span[h] >= count /\ \A g \in 0 .. h - 1 : Span[g] < count
  <1>1. z \in 0 .. count
    <2>1. CASE z = 0
      BY <2>1
    <2>2. CASE z # 0
      <3>1. z - 1 \in Nat /\ z - 1 \in 0 .. z - 1
        BY <2>2
      <3>2. Span[z - 1] < count /\ Span[z - 1] > z - 1 /\ Span[z - 1] \in Nat
        BY <3>1, SpanFacts
      <3> QED
        BY <3>1, <3>2
    <2> QED
      BY <2>1, <2>2
  <1>2. ok(z)
    OBVIOUS
  <1>3. ASSUME NEW h \in 0 .. count, ok(h) PROVE h = z
    <2>1. Span[h] \in Nat /\ Span[z] \in Nat
      BY SpanFacts
    <2>2. ~(h < z)
      <3> SUFFICES ASSUME h < z PROVE FALSE
        OBVIOUS
      <3>1. h \in 0 .. z - 1
        OBVIOUS
      <3> QED
        BY <2>1, <3>1, <1>3
    <2>3. ~(z < h)
      <3> SUFFICES ASSUME z < h PROVE FALSE
        OBVIOUS
      <3>1. z \in 0 .. h - 1
        OBVIOUS
      <3> QED
        BY <2>1, <3>1, <1>3
    <2> QED
      BY <2>2, <2>3
  <1>4. Height(count) = CHOOSE h \in 0 .. count : ok(h)
    BY DEF Height
  <1> HIDE DEF ok
  <1> QED
    BY <1>1, <1>2, <1>3, <1>4
-----------------------------------------------------------------------------
LEMMA TInit == Init => TInv
  BY DEF Init, TInv

LEMMA TStart ==
    ASSUME NEW c \in Calls, Start(c)
    PROVE  TInv'
  <1> DEFINE ms == c.ms
             N == Len(ms)
  <1>1. /\ pc' = (IF c.prim \in Trees THEN "reduce" ELSE "frame") /\ call' = c
        /\ nxt' = <<>> /\ nodes' = {}
        /\ cur' = [k \in DOMAIN ms |-> pack(ms[k])]
    BY DEF Start
  <1>2. ms \in Seq(Value) /\ N \in Nat /\ N >= 1
    BY CallFacts, LenProperties
  <1>3. Len(cur') = N /\ \A n \in 0 .. N - 1 : cur'[n + 1] = pack(ms[n + 1])
    <2>1. DOMAIN ms = 1 .. N
      BY <1>2, LenProperties
    <2>2. Len(cur') = N
      BY <1>1, <1>2, StartPacks
    <2>3. \A n \in 0 .. N - 1 : n + 1 \in 1 .. N
      BY <1>2
    <2> QED
      BY <1>1, <2>1, <2>2, <2>3
  <1> HIDE DEF ms, N
  <1>4. Level(ms, cur', <<>>, {}, 0)
    <2>1. Span[0] = 1 /\ (N - 1) * Span[0] < N /\ N <= N * Span[0]
      BY <1>2, SpanFacts
    <2>2. \A n \in 0 .. N - 1 : Tree(ms)[0][n] = pack(ms[n + 1])
      <3>1. Tree(ms)[0] = Bottom(ms)
        BY <1>2, TreeFacts
      <3> QED
        BY <1>2, <3>1 DEF Bottom, N
    <2>3. Len(<<>>) = 0 /\ 0 <= (N + 1) \div 2
      BY <1>2
    <2> QED
      BY <1>2, <1>3, <2>1, <2>2, <2>3 DEF Level, N
  <1>5. pc' = "reduce" => \E z \in Nat : Level(call'.ms, cur', nxt', nodes', z)
    BY <1>1, <1>4 DEF ms
  <1>6. /\ \/ pc' = "reduce"
           \/ pc' = "frame" /\ call'.prim \notin Trees
        /\ nodes' = {}
    BY <1>1
  <1> QED
    BY <1>5, <1>6 DEF TInv

LEMMA TReduceNode ==
    ASSUME IInv, FInv, TInv, ReduceNode
    PROVE  TInv'
  <1> DEFINE s == Absorb(cur[NodeAt] \o Right(NodeAt))
  <1>1. /\ pc = "reduce" /\ Len(cur) > 1 /\ Len(nxt) < Pairs
        /\ pc' = "node" /\ lanes' = s /\ r' = 0
        /\ UNCHANGED <<call, cur, nxt, nodes>>
    BY DEF ReduceNode, Feed, NodeAt
  <1>2. fed' = <<s>>
    <2>1. fed = <<>>
      BY <1>1 DEF FInv
    <2> QED
      BY <2>1, AppendTo DEF ReduceNode, Feed, NodeAt
  <1>3. PICK z \in Nat : Level(call.ms, cur, nxt, nodes, z)
    BY <1>1 DEF TInv
  <1>4. s \in [Lanes -> Elem]
    BY <1>1, <1>3, NodeIsNext
  <1>5. NodeAt' = NodeAt /\ Right(NodeAt)' = Right(NodeAt) /\ Pairs' = Pairs
    BY <1>1 DEF NodeAt, Right, Pairs
  <1>6. RoundsFrom(s)[0] = s /\ 0 <= ROUNDS
    <2> HIDE DEF s
    <2>1. ROUNDS \in Nat
      BY FieldAssumption DEF ROUNDS
    <2> QED
      BY <1>4, <2>1, RoundsFromFacts
  <1>7. s' = s
    BY <1>1, <1>5
  <1> HIDE DEF s
  <1>8. /\ \A d \in nodes' : d[2] = HashOf(d[1])
        /\ \E y \in Nat : Level(call'.ms, cur', nxt', nodes', y)
    BY <1>1, <1>3 DEF TInv
  <1>9. /\ Len(cur') > 1 /\ Len(nxt') < Pairs' /\ r' <= ROUNDS
        /\ fed' = <<s>> /\ lanes' = RoundsFrom(s)[r']
    BY <1>1, <1>2, <1>5, <1>6
  <1>10. pc' = "node"
    BY <1>1
  <1>11. fed' = <<s'>> /\ lanes' = RoundsFrom(s')[r']
    BY <1>7, <1>9
  <1> QED
    BY <1>8, <1>9, <1>10, <1>11 DEF TInv, s

LEMMA TRound ==
    ASSUME IInv, TInv, Round
    PROVE  TInv'
  <1> DEFINE s == Absorb(cur[NodeAt] \o Right(NodeAt))
  <1>1. /\ pc \in Permuting /\ r < ROUNDS /\ lanes' = RoundOf(lanes, r) /\ r' = r + 1
        /\ UNCHANGED <<pc, call, cur, nxt, fed, nodes>>
    BY DEF Round
  <1>2. NodeAt' = NodeAt /\ Right(NodeAt)' = Right(NodeAt) /\ Pairs' = Pairs
    BY <1>1 DEF NodeAt, Right, Pairs
  <1>3. /\ \A d \in nodes' : d[2] = HashOf(d[1])
        /\ pc' # "frame" /\ pc' # "reduce"
    BY <1>1 DEF TInv, Permuting
  <1>4. CASE pc = "node"
    <2>1. PICK z \in Nat : Level(call.ms, cur, nxt, nodes, z)
      BY <1>4 DEF TInv
    <2>2. Len(cur) > 1 /\ Len(nxt) < Pairs /\ fed = <<s>> /\ lanes = RoundsFrom(s)[r]
      BY <1>4 DEF TInv
    <2>3. s \in [Lanes -> Elem]
      BY <2>1, <2>2, NodeIsNext
    <2>4. r \in 0 .. ROUNDS - 1 /\ r + 1 <= ROUNDS
      <3>1. ROUNDS \in Nat /\ r \in Nat
        BY FieldAssumption DEF ROUNDS, IInv
      <3> QED
        BY <1>1, <3>1
    <2>5. s' = s
      BY <1>1, <1>2
    <2> HIDE DEF s
    <2>6. lanes' = RoundsFrom(s)[r']
      BY <1>1, <2>2, <2>3, <2>4, RoundsFromFacts
    <2>7. /\ pc' = "node" /\ Len(cur') > 1 /\ Len(nxt') < Pairs' /\ r' <= ROUNDS
          /\ fed' = <<s'>> /\ lanes' = RoundsFrom(s')[r']
          /\ \E y \in Nat : Level(call'.ms, cur', nxt', nodes', y)
      BY <1>1, <1>2, <1>4, <2>1, <2>2, <2>4, <2>5, <2>6
    <2> QED
      BY <1>3, <2>7 DEF TInv, s
  <1>5. CASE pc # "node"
    BY <1>1, <1>3, <1>5 DEF TInv
  <1> QED
    BY <1>4, <1>5

\* A node more of the next level.
LEMMA LevelAppend ==
    ASSUME NEW ms, NEW w, NEW x \in Seq(Elems), NEW h, NEW z \in Nat, Level(ms, w, x, h, z),
           Len(x) < (Len(w) + 1) \div 2, Len(w) \in Nat,
           NEW v \in Elems, v = Tree(ms)[z + 1][Len(x)],
           NEW e, e = Got(ms, z, Len(x))
    PROVE  Level(ms, w, Append(x, v), h \cup {e}, z)
  <1> DEFINE k == Len(x)
             y == Append(x, v)
             g == h \cup {e}
  <1>1. k \in Nat
    BY LenProperties
  <1>2. Len(y) = k + 1 /\ y[k + 1] = v /\ \A n \in 1 .. k : y[n] = x[n]
    BY AppendProperties
  <1> HIDE DEF y, g
  <1>3. Len(y) <= (Len(w) + 1) \div 2
    BY <1>1, <1>2
  <1>4. ASSUME NEW n \in 0 .. Len(y) - 1
        PROVE  y[n + 1] = Tree(ms)[z + 1][n] /\ Got(ms, z, n) \in g
    <2>1. CASE n = k
      BY <1>2, <2>1 DEF g
    <2>2. CASE n # k
      <3>1. n \in 0 .. k - 1 /\ n + 1 \in 1 .. k
        BY <1>1, <1>2, <2>2
      <3>2. x[n + 1] = Tree(ms)[z + 1][n] /\ Got(ms, z, n) \in h
        BY <3>1 DEF Level
      <3> QED
        BY <1>2, <3>1, <3>2 DEF g
    <2> QED
      BY <2>1, <2>2
  <1>5. \A m \in 0 .. z - 1 : \A n \in 0 .. Len(ms) : n * Span[m + 1] < Len(ms) => Got(ms, m, n) \in g
    BY DEF Level, g
  <1>6. /\ \A m \in 0 .. z - 1 : Span[m] < Len(ms)
        /\ (Len(w) - 1) * Span[z] < Len(ms) /\ Len(ms) <= Len(w) * Span[z]
        /\ \A n \in 0 .. Len(w) - 1 : w[n + 1] = Tree(ms)[z][n]
    BY DEF Level
  <1>7. Level(ms, w, y, g, z)
    BY <1>3, <1>4, <1>5, <1>6 DEF Level
  <1> QED
    BY <1>7 DEF y, g

LEMMA TEndNode ==
    ASSUME IInv, TInv, EndNode
    PROVE  TInv'
  <1> DEFINE s == Absorb(cur[NodeAt] \o Right(NodeAt))
             v == HashOf(s)
  <1>1. /\ pc = "node" /\ r = ROUNDS /\ pc' = "reduce"
        /\ nxt' = Append(nxt, Squeeze(lanes))
        /\ nodes' = nodes \cup {<<fed[Len(fed)], Squeeze(lanes)>>}
        /\ UNCHANGED <<call, cur>>
    BY DEF EndNode
  <1>2. PICK z \in Nat : Level(call.ms, cur, nxt, nodes, z)
    BY <1>1 DEF TInv
  <1>3. Len(cur) > 1 /\ Len(nxt) < Pairs /\ fed = <<s>> /\ lanes = RoundsFrom(s)[r]
    BY <1>1 DEF TInv
  <1>4. s \in [Lanes -> Elem] /\ Got(call.ms, z, Len(nxt)) = <<s, v>>
    BY <1>2, <1>3, NodeIsNext
  <1> HIDE DEF s
  <1>5. Squeeze(lanes) = v /\ fed[Len(fed)] = s
    <2>1. Len(<<s>>) = 1 /\ <<s>>[1] = s
      OBVIOUS
    <2> QED
      BY <1>1, <1>3, <2>1 DEF HashOf
  <1>6. v \in Elems
    BY <1>4, RoundsFromFacts
  <1>7. v = Tree(call.ms)[z + 1][Len(nxt)]
    <2> HIDE DEF v
    <2> QED
      BY <1>4 DEF Got
  <1> DEFINE e == <<s, v>>
  <1>8. nodes' = nodes \cup {e} /\ nxt' = Append(nxt, v)
    BY <1>1, <1>5
  <1>9. e[2] = HashOf(e[1])
    OBVIOUS
  <1> HIDE DEF v, e
  <1>10. Level(call.ms, cur, Append(nxt, v), nodes \cup {e}, z)
    <2>1. nxt \in Seq(Elems) /\ cur \in Seq(Elems)
      BY DEF IInv
    <2>2. Len(cur) \in Nat /\ Len(nxt) < (Len(cur) + 1) \div 2
      BY <1>3, <2>1, LenProperties DEF Pairs
    <2>3. e = Got(call.ms, z, Len(nxt))
      BY <1>4 DEF e
    <2> QED
      BY <1>2, <1>6, <1>7, <2>1, <2>2, <2>3, LevelAppend
  <1>11. \E y \in Nat : Level(call'.ms, cur', nxt', nodes', y)
    BY <1>1, <1>8, <1>10
  <1>12. \A d \in nodes' : d[2] = HashOf(d[1])
    BY <1>8, <1>9 DEF TInv
  <1> QED
    BY <1>1, <1>11, <1>12 DEF TInv

\* A whole level taken over: the next one is at level z + 1.
LEMMA LevelUp ==
    ASSUME NEW ms \in Seq(Value), NEW w \in Seq(Elems), NEW x \in Seq(Elems), NEW h, NEW z \in Nat,
           Level(ms, w, x, h, z), Len(w) > 1, Len(x) = (Len(w) + 1) \div 2
    PROVE  Level(ms, x, <<>>, h, z + 1)
  <1> DEFINE N == Len(ms)
             L == Len(w)
             K == Len(x)
  <1>1. N \in Nat /\ L \in Nat /\ K \in Nat
    BY LenProperties
  <1>2. /\ \A g \in 0 .. z - 1 : Span[g] < N
        /\ (L - 1) * Span[z] < N /\ N <= L * Span[z]
        /\ \A n \in 0 .. K - 1 : x[n + 1] = Tree(ms)[z + 1][n] /\ Got(ms, z, n) \in h
        /\ \A y \in 0 .. z - 1 : \A n \in 0 .. N : n * Span[y + 1] < N => Got(ms, y, n) \in h
    BY DEF Level
  <1>3. PICK s \in Nat \ {0} : s = Span[z] /\ Span[z + 1] = 2 * s
    BY SpanFacts
  <1>4. L > 1 /\ K = (L + 1) \div 2
    OBVIOUS
  <1> HIDE DEF N, L, K
  <1>5. L - 1 \in Nat /\ 1 <= L - 1 /\ 2 * (K - 1) <= L - 1 /\ L <= 2 * K /\ K - 1 \in Nat
    BY <1>1, <1>4
  <1>6. PICK p \in Nat : p = (L - 1) * s /\ p < N
    <2>1. (L - 1) * s \in Nat
      BY <1>5, Multiples
    <2> QED
      BY <1>2, <1>3, <2>1, Zenon
  <1>7. PICK q \in Nat : q = L * s /\ N <= q
    <2>1. L * s \in Nat
      BY <1>1, Multiples
    <2> QED
      BY <1>2, <1>3, <2>1, Zenon
  <1>8. (K - 1) * Span[z + 1] < N
    <2>1. (2 * (K - 1)) * s <= (L - 1) * s /\ (2 * (K - 1)) * s \in Nat
      <3>1. PICK a \in Nat : a = 2 * (K - 1) /\ a <= L - 1
        BY <1>5
      <3>2. a * s <= (L - 1) * s /\ a * s \in Nat
        BY <1>5, <3>1, Multiples, Zenon
      <3> QED
        BY <3>1, <3>2, Zenon
    <2>2. (K - 1) * (2 * s) = (2 * (K - 1)) * s
      BY <1>5, Multiples
    <2>3. PICK a \in Nat : a = (K - 1) * Span[z + 1] /\ a <= p
      BY <1>3, <1>6, <2>1, <2>2, Zenon
    <2>4. a < N
      BY <1>1, <1>6, <2>3
    <2> QED
      BY <2>3, <2>4, Zenon
  <1>9. PICK b \in Nat : b = K * Span[z + 1] /\ N <= b
    <2>1. L * s <= (2 * K) * s /\ (2 * K) * s \in Nat
      BY <1>1, <1>5, Multiples
    <2>2. K * (2 * s) = (2 * K) * s
      BY <1>1, Multiples
    <2>3. PICK a \in Nat : a = K * Span[z + 1] /\ q <= a
      BY <1>3, <1>7, <2>1, <2>2, Zenon
    <2>4. N <= a
      BY <1>1, <1>7, <2>3
    <2> QED
      BY <2>3, <2>4, Zenon
  <1>10. ASSUME NEW g \in 0 .. (z + 1) - 1 PROVE Span[g] < N
    <2>1. CASE g = z
      <3>1. s <= (L - 1) * s
        <4>1. 1 \in Nat /\ 1 * s = s
          OBVIOUS
        <4>2. 1 * s <= (L - 1) * s
          BY <1>5, <4>1, Multiples, Zenon
        <4> QED
          BY <4>1, <4>2, Zenon
      <3>2. s <= p
        BY <1>6, <3>1, Zenon
      <3>3. s < N
        BY <1>1, <1>6, <3>2
      <3> QED
        BY <1>3, <2>1, <3>3, Zenon
    <2>2. CASE g # z
      <3>1. g \in 0 .. z - 1
        BY <2>2
      <3> QED
        BY <1>2, <3>1
    <2> QED
      BY <2>1, <2>2
  <1>11. ASSUME NEW y \in 0 .. (z + 1) - 1, NEW n \in 0 .. N, n * Span[y + 1] < N
         PROVE  Got(ms, y, n) \in h
    <2>1. CASE y = z
      <3>1. n < K
        <4> SUFFICES ASSUME K <= n PROVE FALSE
          BY <1>1
        <4>1. n \in Nat /\ 2 * s \in Nat \ {0}
          BY <1>1
        <4>2. K * (2 * s) <= n * (2 * s) /\ n * (2 * s) \in Nat
          BY <1>1, <4>1, Multiples
        <4>3. PICK a \in Nat : a = n * (2 * s) /\ a < N /\ b <= a
          BY <1>3, <1>9, <1>11, <2>1, <4>2, Zenon
        <4> QED
          BY <1>1, <1>9, <4>3
      <3>2. n \in 0 .. K - 1
        BY <1>1, <3>1
      <3> QED
        BY <1>2, <2>1, <3>2
    <2>2. CASE y # z
      <3>1. y \in 0 .. z - 1
        BY <2>2
      <3> QED
        BY <1>2, <1>11, <3>1
    <2> QED
      BY <2>1, <2>2
  <1>12. N <= K * Span[z + 1]
    BY <1>9, Zenon
  <1>13. \A n \in 0 .. K - 1 : x[n + 1] = Tree(ms)[z + 1][n]
    BY <1>2
  <1>14. Len(<<>>) = 0 /\ 0 <= (K + 1) \div 2
    BY <1>1
  <1> QED
    BY <1>8, <1>10, <1>11, <1>12, <1>13, <1>14 DEF Level, N, K

LEMMA TEndLevel ==
    ASSUME IInv, TInv, EndLevel \/ EndReduce
    PROVE  TInv'
  <1>1. CASE EndLevel
    <2>1. /\ pc = "reduce" /\ Len(cur) > 1 /\ Len(nxt) = Pairs
          /\ cur' = nxt /\ nxt' = <<>> /\ UNCHANGED <<pc, call, nodes>>
      BY <1>1 DEF EndLevel
    <2>2. PICK z \in Nat : Level(call.ms, cur, nxt, nodes, z)
      BY <2>1 DEF TInv
    <2>3. call.ms \in Seq(Value) /\ cur \in Seq(Elems) /\ nxt \in Seq(Elems)
      BY CallFacts DEF IInv
    <2>4. Level(call.ms, nxt, <<>>, nodes, z + 1)
      BY <2>1, <2>2, <2>3, LevelUp DEF Pairs
    <2>5. \E y \in Nat : Level(call'.ms, cur', nxt', nodes', y)
      <3>1. z + 1 \in Nat
        OBVIOUS
      <3> QED
        BY <2>1, <2>4, <3>1
    <2>6. \A d \in nodes' : d[2] = HashOf(d[1])
      BY <2>1 DEF TInv
    <2> QED
      BY <2>1, <2>5, <2>6 DEF TInv
  <1>2. CASE EndReduce
    <2>1. /\ pc = "reduce" /\ pc' = "frame" /\ Len(cur) = 1
          /\ UNCHANGED <<call, cur, nxt, nodes>>
      BY <1>2 DEF EndReduce
    <2>2. /\ \E z \in Nat : Level(call'.ms, cur', nxt', nodes', z)
          /\ \A d \in nodes' : d[2] = HashOf(d[1])
          /\ Len(cur') = 1
      BY <2>1 DEF TInv
    <2> QED
      BY <2>1, <2>2 DEF TInv
  <1> QED
    BY <1>1, <1>2

\* The closing hash leaves the history of the reduce alone.
LEMMA TClosing ==
    ASSUME IInv, TInv, Frame \/ SecondBlock \/ SecondHalf \/ Return
    PROVE  TInv'
  <1>1. nodes' = nodes
    BY DEF Frame, SecondBlock, SecondHalf, Return
  <1>2. pc' \in {"only", "block1", "block2", "half1", "half2", "idle"}
    BY DEF Frame, SecondBlock, SecondHalf, Return, Feed
  <1> QED
    BY <1>1, <1>2 DEF TInv

LEMMA TStep == IInv /\ FInv /\ TInv /\ [Next]_vars => TInv'
  <1> SUFFICES ASSUME IInv, FInv, TInv, [Next]_vars PROVE TInv'
    OBVIOUS
  <1>1. CASE UNCHANGED vars
    <2>1. UNCHANGED <<pc, call, cur, nxt, lanes, r, fed, nodes>>
      BY <1>1 DEF vars
    <2> QED
      BY <2>1 DEF TInv, NodeAt, Right, Pairs
  <1> QED
    BY <1>1, TStart, TReduceNode, TRound, TEndNode, TEndLevel, TClosing DEF Next, Step, Finished

(***************************************************************************)
(* For every field, any number of inputs and every permutation of the      *)
(* shape of poseidon.rs: when poseidon_gl_reduce has come to one element,  *)
(* that is the root of the least padded tree over the inputs, at whatever  *)
(* levels the number of elements was odd.                                  *)
(***************************************************************************)
THEOREM ReduceComputesTheTree == Spec => []ReduceIsPaddedTree
  <1>1. IInv /\ TInv => ReduceIsPaddedTree
    <2> SUFFICES ASSUME IInv, TInv, pc = "frame", call.prim \in Trees
                 PROVE  {cur[1]} = PaddedTree(call.ms)[Height(Len(call.ms))][0]
      BY DEF ReduceIsPaddedTree
    <2> DEFINE ms == call.ms
    <2>1. ms \in Seq(Value) /\ Len(ms) \in Nat
      BY CallFacts, LenProperties DEF IInv
    <2>2. PICK z \in Nat : Level(ms, cur, nxt, nodes, z)
      BY DEF TInv
    <2>3. Len(cur) = 1
      BY DEF TInv
    <2> HIDE DEF ms
    <2>4. /\ \A g \in 0 .. z - 1 : Span[g] < Len(ms)
          /\ Len(ms) <= 1 * Span[z]
          /\ cur[0 + 1] = Tree(ms)[z][0]
          /\ \A y \in 0 .. z - 1 : \A n \in 0 .. Len(ms) : n * Span[y + 1] < Len(ms) => Got(ms, y, n) \in nodes
      BY <2>2, <2>3 DEF Level
    <2>5. Span[z] >= Len(ms)
      BY <2>1, <2>4, SpanFacts, SMTT(40)
    <2>6. Height(Len(ms)) = z
      BY <2>1, <2>4, <2>5, HeightIs
    <2>7. \A d \in nodes : d[2] = HashOf(d[1])
      BY DEF TInv
    <2>8. PaddedTree(ms)[z][0] = {Tree(ms)[z][0]}
      <3>1. \A n \in 0 .. Len(ms) : PaddedTree(ms)[z][n] = {Tree(ms)[z][n]}
        BY <2>1, <2>4, <2>7, PaddedIsTree
      <3>2. 0 \in 0 .. Len(ms)
        BY <2>1
      <3> QED
        BY <3>1, <3>2
    <2>9. cur[1] = Tree(ms)[z][0]
      BY <2>4
    <2> QED
      BY <2>6, <2>8, <2>9 DEF ms
  <1> QED
    BY <1>1, FramesStep, StepInv, InvInit, FInit, TInit, TStep, PTL DEF Spec
=============================================================================
