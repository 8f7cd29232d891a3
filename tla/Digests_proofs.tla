--------------------------- MODULE Digests_proofs ---------------------------
(***************************************************************************)
(* Proofs about the two modules that take a digest apart, which share no   *)
(* state: ParseDigest, for every digest (its run samples 482 of the        *)
(* 2^240), and WotsChecksum, for any set of digests of up to 16 bytes.     *)
(*                                                                         *)
(* ParseDigest: each loop has the invariant one writes beside it: after j  *)
(* bits val holds the top j bits of the index, after i bytes idx_tree      *)
(* holds those bytes.                                                      *)
(*                                                                         *)
(* WotsChecksum: while the checksums are summed, if the chunks of digest 1 *)
(* seen so far are at most those of digest 2, its checksum is at least the *)
(* other, and greater once one chunk differed.  Then the checksum chunks   *)
(* cannot all be at most the other's.                                      *)
(***************************************************************************)
EXTENDS ParseDigest, WotsChecksum, TLAPS

\* The top n bits of FORS index m.
TopBits(m, n) == {b \in 0 .. 11 : b >= 12 - n /\ StringBit(12 * m + 11 - b)}

MdDone(m) == \A n \in 0 .. 13 : n < m => md[n] = Field(12 * n + 11, 12)

AtMd == pc = "md" => MdDone(c) /\ val = TopBits(c, j) /\ i = 0 /\ idx_tree = {}

AfterMd == pc # "md" => MdDone(14)

\* Bit 8q + e of idx_tree is bit e of the byte read q rounds ago.
TreeBytes ==
    \A q \in 0 .. 7, e \in 0 .. 7 : (8 * q + e \in idx_tree) <=> (q < i /\ e \in digest[20 + i - q])

AtTree == pc = "tree" => TreeBytes

AfterTree == pc \in {"leaf", "done"} => idx_tree = Field(223, 54)

AfterLeaf == pc = "done" => idx_leaf = Field(239, 9)

Inv == TypeOK /\ exact /\ AtMd /\ AfterMd /\ AtTree /\ AfterTree /\ AfterLeaf
-----------------------------------------------------------------------------
(***************************************************************************)
(* The bit the md loop reads, moved to its place.                          *)
(***************************************************************************)
LEMMA Term ==
    ASSUME NEW x \in Byte, NEW k \in 0 .. 7, NEW m \in 0 .. 11
    PROVE  Shl(Low(Shr(x, k), 1), m) = IF k \in x THEN {m} ELSE {}
  <1>1. Low(Shr(x, k), 1) = IF k \in x THEN {0} ELSE {}
    BY DEF Low, Shr, BitPos, Byte, Bits
  <1>2. Shl({0}, m) = {m} /\ Shl({}, m) = {}
    BY DEF Shl, BitPos
  <1> QED BY <1>1, <1>2

LEMMA BytePosition ==
    ASSUME NEW p \in 0 .. 239
    PROVE  p \div 8 \in 0 .. 29 /\ 7 - (p % 8) \in 0 .. 7
  OBVIOUS

(***************************************************************************)
(* Bit 8q + e of a field is found (counting bytes and bits backwards) in   *)
(* byte q from its end.                                                    *)
(***************************************************************************)
LEMMA BackwardsPosition ==
    ASSUME NEW q \in 0 .. 7, NEW e \in 0 .. 7
    PROVE  /\ (223 - (8 * q + e)) \div 8 = 27 - q
           /\ 7 - ((223 - (8 * q + e)) % 8) = e
           /\ (239 - (8 * q + e)) \div 8 = 29 - q
           /\ 7 - ((239 - (8 * q + e)) % 8) = e
  OBVIOUS

LEMMA QuotientRest ==
    ASSUME NEW b \in 0 .. 63
    PROVE  \E q \in 0 .. 7, e \in 0 .. 7 : b = 8 * q + e
  <1>1. b \div 8 \in 0 .. 7
    OBVIOUS
  <1>2. b % 8 \in 0 .. 7
    OBVIOUS
  <1>3. b = 8 * (b \div 8) + (b % 8)
    OBVIOUS
  <1> QED BY <1>1, <1>2, <1>3, Zenon

LEMMA InitInv == Init => Inv
  <1> SUFFICES ASSUME Init PROVE Inv
    OBVIOUS
  <1>1. TypeOK
    BY DigestsAssumption DEF Init, TypeOK, Word, K_FORS, A_FORS
  <1>2. TopBits(0, 0) = {}
    BY DEF TopBits
  <1>3. AtMd
    BY <1>2 DEF Init, AtMd, MdDone
  <1> QED BY <1>1, <1>3 DEF Init, Inv, AfterMd, AtTree, AfterTree, AfterLeaf
-----------------------------------------------------------------------------
LEMMA MdBitInv == ASSUME Inv, MdBit PROVE Inv'
  <1> DEFINE p == 12 * c + j
             m == 11 - j
             term == Shl(BitAt(p), m)
  <1>1. pc = "md" /\ j \in 0 .. 11 /\ c \in 0 .. 13 /\ j' = j + 1 /\ val' = val \cup term
         /\ exact' = (exact /\ val \cap term = {})
         /\ UNCHANGED <<pc, digest, c, i, md, idx_tree, idx_leaf>>
    BY DEF Inv, TypeOK, MdBit, K_FORS, A_FORS
  <1>2. p \in 0 .. 239 /\ m \in 0 .. 11 /\ p = 12 * c + 11 - m
    BY <1>1
  <1>3. term = IF StringBit(p) THEN {m} ELSE {}
    <2>1. digest[p \div 8] \in Byte /\ 7 - (p % 8) \in 0 .. 7
      BY <1>2, BytePosition DEF Inv, TypeOK, Digest
    <2> QED BY <1>2, <2>1, Term, ZenonT(60) DEF BitAt, StringBit
  <1>4. val = TopBits(c, j)
    BY <1>1 DEF Inv, AtMd
  <1> HIDE DEF term
  <1>5. val \cap term = {}
    BY <1>1, <1>3, <1>4 DEF TopBits
  <1>6. val' = {b \in 0 .. 11 : b >= 12 - (j + 1) /\ StringBit(12 * c + 11 - b)}
    <2>1. \A b \in 0 .. 11 : b >= 12 - (j + 1) <=> b >= 12 - j \/ b = m
      BY <1>1
    <2> HIDE DEF m, p
    <2> QED BY <1>1, <1>2, <1>3, <1>4, <2>1 DEF TopBits
  <1>7. AtMd'
    <2>1. TopBits(c, j)' = {b \in 0 .. 11 : b >= 12 - (j + 1) /\ StringBit(12 * c + 11 - b)}
      BY <1>1 DEF TopBits, StringBit
    <2>2. MdDone(c)'
      BY <1>1 DEF Inv, AtMd, MdDone, Field, StringBit
    <2> QED BY <1>1, <1>6, <2>1, <2>2 DEF Inv, AtMd
  <1>8. val' \in Word
    BY <1>6 DEF Word, BitPos
  <1>9. exact'
    BY <1>1, <1>5 DEF Inv
  <1>10. TypeOK'
    BY <1>1, <1>8, <1>9 DEF Inv, TypeOK, K_FORS, A_FORS
  <1> QED BY <1>1, <1>7, <1>9, <1>10 DEF Inv, AfterMd, AtTree, AfterTree, AfterLeaf

LEMMA MdEndInv == ASSUME Inv, MdEnd PROVE Inv'
  <1>1. pc = "md" /\ j = 12 /\ c \in 0 .. 13 /\ UNCHANGED <<digest, i, idx_tree, idx_leaf, exact>>
    BY DEF Inv, TypeOK, MdEnd, K_FORS, A_FORS
  <1>2. val = Field(12 * c + 11, 12)
    BY <1>1 DEF Inv, AtMd, TopBits, Field
  <1>3. md' \in [0 .. 13 -> Word] /\ \A n \in 0 .. 13 : md'[n] = IF n = c THEN val ELSE md[n]
    BY <1>1 DEF Inv, TypeOK, MdEnd, K_FORS
  <1>4. \A n \in 0 .. 13 : n < c + 1 => md'[n] = Field(12 * n + 11, 12)
    BY <1>1, <1>2, <1>3 DEF Inv, AtMd, MdDone
  <1>5. \A n \in 0 .. 13 : Field(12 * n + 11, 12)' = Field(12 * n + 11, 12)
    BY <1>1 DEF Field, StringBit
  <1>6. i = 0 /\ idx_tree = {}
    BY <1>1 DEF Inv, AtMd
  <1>7. CASE c < 13
    <2>1. c' = c + 1 /\ j' = 0 /\ val' = {} /\ pc' = "md"
      BY <1>1, <1>7 DEF MdEnd, K_FORS
    <2>2. MdDone(c)' /\ (val = TopBits(c, j))'
      BY <1>1, <1>4, <1>5, <2>1 DEF MdDone, TopBits
    <2>3. TypeOK'
      BY <1>1, <1>3, <1>7, <2>1 DEF Inv, TypeOK, K_FORS, A_FORS, Word
    <2> QED BY <1>1, <1>6, <2>1, <2>2, <2>3 DEF Inv, AtMd, AfterMd, AtTree, AfterTree, AfterLeaf
  <1>8. CASE ~(c < 13)
    <2>1. c = 13 /\ pc' = "tree" /\ UNCHANGED <<c, j, val>>
      BY <1>1, <1>8 DEF MdEnd, K_FORS
    <2>2. MdDone(14)'
      BY <1>4, <1>5, <2>1 DEF MdDone
    <2>3. TypeOK'
      BY <1>1, <1>3, <2>1 DEF Inv, TypeOK, K_FORS, A_FORS
    <2>4. TreeBytes'
      BY <1>1, <1>6 DEF TreeBytes
    <2> QED BY <1>1, <2>1, <2>2, <2>3, <2>4 DEF Inv, AtMd, AfterMd, AtTree, AfterTree, AfterLeaf
  <1> QED BY <1>7, <1>8

LEMMA TreeByteInv == ASSUME Inv, TreeByte PROVE Inv'
  <1>1. pc = "tree" /\ i \in 0 .. 6 /\ i' = i + 1 /\ UNCHANGED <<pc, digest, c, j, val, md, idx_leaf>>
         /\ idx_tree' = Shl(idx_tree, 8) \cup digest[21 + i]
         /\ exact' = (exact /\ Shr(Shl(idx_tree, 8), 8) = idx_tree)
    BY DEF Inv, TypeOK, TreeByte
  <1>2. digest[21 + i] \subseteq 0 .. 7 /\ idx_tree \in Word
    BY <1>1 DEF Inv, TypeOK, Digest, Byte, Bits
  <1>3. TreeBytes
    BY <1>1 DEF Inv, AtTree
  <1>4. ASSUME NEW q \in 0 .. 7, NEW e \in 0 .. 7
        PROVE  (8 * q + e \in idx_tree') <=> (q < i + 1 /\ e \in digest[20 + (i + 1) - q])
    <2>1. CASE q = 0
      <3>1. e - 8 \notin idx_tree /\ 8 * q + e = e /\ e \in BitPos
        BY <1>2, <2>1 DEF Word, BitPos
      <3>2. e \notin Shl(idx_tree, 8)
        BY <3>1 DEF Shl
      <3>3. 20 + (i + 1) - q = 21 + i
        BY <1>1, <2>1
      <3> QED BY <1>1, <2>1, <3>1, <3>2, <3>3
    <2>2. CASE q # 0
      <3>1. 8 * q + e \in BitPos /\ 8 * q + e \notin digest[21 + i]
        BY <1>2, <2>2 DEF BitPos
      <3>2. (8 * q + e \in idx_tree') <=> (8 * q + e) - 8 \in idx_tree
        BY <1>1, <3>1 DEF Shl
      <3>3. (8 * q + e) - 8 = 8 * (q - 1) + e /\ q - 1 \in 0 .. 7 /\ 20 + (i + 1) - q = 20 + i - (q - 1)
        BY <1>1, <2>2
      <3>4. (8 * (q - 1) + e \in idx_tree) <=> (q - 1 < i /\ e \in digest[20 + i - (q - 1)])
        BY <1>3, <3>3 DEF TreeBytes
      <3>5. q - 1 < i <=> q < i + 1
        BY <1>1
      <3> QED BY <3>2, <3>3, <3>4, <3>5
    <2> QED BY <2>1, <2>2
  <1>5. TreeBytes'
    BY <1>1, <1>4 DEF TreeBytes
  <1>6. idx_tree' \in Word
    BY <1>1, <1>2 DEF Shl, Word, BitPos
  <1>7. Shr(Shl(idx_tree, 8), 8) = idx_tree
    <2>1. ASSUME NEW b \in idx_tree PROVE b < 56
      <3>1. b \in 0 .. 63
        BY <1>2 DEF Word, BitPos
      <3>2. PICK q \in 0 .. 7, e \in 0 .. 7 : b = 8 * q + e
        BY <3>1, QuotientRest
      <3>3. q < i
        BY <1>3, <2>1, <3>2 DEF TreeBytes
      <3> QED BY <1>1, <3>2, <3>3
    <2>2. idx_tree \subseteq 0 .. 63
      BY <1>2 DEF Word, BitPos
    <2>3. ASSUME NEW b \in 0 .. 63
          PROVE  b \in Shr(Shl(idx_tree, 8), 8) <=> b < 56 /\ b \in idx_tree
      <3>1. b \in Shr(Shl(idx_tree, 8), 8) <=> b + 8 \in Shl(idx_tree, 8)
        BY DEF Shr, BitPos
      <3>2. b + 8 \in Shl(idx_tree, 8) <=> b < 56 /\ b \in idx_tree
        BY DEF Shl, BitPos
      <3> QED BY <3>1, <3>2
    <2>4. Shr(Shl(idx_tree, 8), 8) \subseteq 0 .. 63
      BY DEF Shr, BitPos
    <2> QED BY <2>1, <2>2, <2>3, <2>4
  <1>8. exact'
    BY <1>1, <1>7 DEF Inv
  <1>9. TypeOK'
    BY <1>1, <1>6, <1>8 DEF Inv, TypeOK
  <1>10. MdDone(14)'
    BY <1>1 DEF Inv, AfterMd, MdDone, Field, StringBit
  <1> QED BY <1>1, <1>5, <1>8, <1>9, <1>10 DEF Inv, AtMd, AfterMd, AtTree, AfterTree, AfterLeaf

LEMMA TreeMaskInv == ASSUME Inv, TreeMask PROVE Inv'
  <1>1. pc = "tree" /\ i = 7 /\ pc' = "leaf" /\ idx_tree' = Low(idx_tree, 54)
         /\ UNCHANGED <<digest, c, j, i, val, md, idx_leaf, exact>>
    BY DEF TreeMask, TREE_BITS
  <1>2. idx_tree \in Word /\ TreeBytes
    BY <1>1 DEF Inv, TypeOK, AtTree
  <1>3. ASSUME NEW b \in 0 .. 53 PROVE b \in idx_tree <=> StringBit(223 - b)
    <2>1. PICK q \in 0 .. 7, e \in 0 .. 7 : b = 8 * q + e
      BY QuotientRest
    <2>2. q < 7 /\ 20 + i - q = 27 - q
      BY <1>1, <1>3, <2>1
    <2>3. b \in idx_tree <=> e \in digest[27 - q]
      <3>1. (8 * q + e \in idx_tree) <=> (q < i /\ e \in digest[20 + i - q])
        BY <1>2 DEF TreeBytes
      <3>2. q < i
        BY <1>1, <2>2
      <3> QED BY <2>1, <2>2, <3>1, <3>2
    <2>4. StringBit(223 - b) <=> e \in digest[27 - q]
      BY <2>1, BackwardsPosition DEF StringBit
    <2> QED BY <2>3, <2>4
  <1>4. idx_tree' = Field(223, 54)
    <2>1. Field(223, 54) = {b \in 0 .. 53 : StringBit(223 - b)}
      BY DEF Field
    <2>2. idx_tree' = {b \in 0 .. 53 : b \in idx_tree}
      <3>1. \A b \in idx_tree : b < 54 <=> b \in 0 .. 53
        BY <1>2 DEF Word, BitPos
      <3>2. idx_tree' = {b \in idx_tree : b < 54}
        BY <1>1 DEF Low
      <3> QED BY <3>1, <3>2
    <2> QED BY <1>3, <2>1, <2>2
  <1>5. Field(223, 54)' = Field(223, 54)
    BY <1>1 DEF Field, StringBit
  <1>6. TypeOK'
    BY <1>1, <1>2 DEF Inv, TypeOK, Low, Word
  <1>7. MdDone(14)'
    BY <1>1 DEF Inv, AfterMd, MdDone, Field, StringBit
  <1> QED BY <1>1, <1>4, <1>5, <1>6, <1>7 DEF Inv, AtMd, AfterMd, AtTree, AfterTree, AfterLeaf

LEMMA LeafInv == ASSUME Inv, Leaf PROVE Inv'
  <1>1. pc = "leaf" /\ pc' = "done" /\ idx_leaf' = Low(Shl(digest[28], 8) \cup digest[29], 9)
         /\ UNCHANGED <<digest, c, j, i, val, md, idx_tree, exact>>
    BY DEF Leaf, LEAF_BITS
  <1>2. digest[28] \subseteq 0 .. 7 /\ digest[29] \subseteq 0 .. 7
    BY DEF Inv, TypeOK, Digest, Byte, Bits
  <1>3. ASSUME NEW b \in 0 .. 8 PROVE b \in idx_leaf' <=> StringBit(239 - b)
    <2>1. CASE b = 8
      <3>1. b \in idx_leaf' <=> 0 \in digest[28]
        BY <1>1, <1>2, <2>1 DEF Low, Shl, BitPos
      <3>2. StringBit(231) <=> 0 \in digest[28]
        BY DEF StringBit
      <3> QED BY <2>1, <3>1, <3>2
    <2>2. CASE b \in 0 .. 7
      <3>1. b \in idx_leaf' <=> b \in digest[29]
        BY <1>1, <1>2, <2>2 DEF Low, Shl, BitPos
      <3>2. StringBit(239 - b) <=> b \in digest[29]
        BY <2>2 DEF StringBit
      <3> QED BY <3>1, <3>2
    <2> QED BY <2>1, <2>2
  <1>4. idx_leaf' \subseteq 0 .. 8 /\ idx_leaf' \in Word
    BY <1>1, <1>2 DEF Low, Shl, BitPos, Word
  <1>5. idx_leaf' = Field(239, 9)
    <2>1. Field(239, 9) = {b \in 0 .. 8 : StringBit(239 - b)}
      BY DEF Field
    <2>2. idx_leaf' = {b \in 0 .. 8 : b \in idx_leaf'}
      BY <1>4
    <2> QED BY <1>3, <2>1, <2>2
  <1>6. Field(239, 9)' = Field(239, 9) /\ Field(223, 54)' = Field(223, 54)
    BY <1>1 DEF Field, StringBit
  <1>7. TypeOK'
    BY <1>1, <1>4 DEF Inv, TypeOK
  <1>8. MdDone(14)'
    BY <1>1 DEF Inv, AfterMd, MdDone, Field, StringBit
  <1> QED BY <1>1, <1>5, <1>6, <1>7, <1>8 DEF Inv, AtMd, AfterMd, AtTree, AfterTree, AfterLeaf

LEMMA InvStep == Inv /\ [Next]_vars => Inv'
  <1> SUFFICES ASSUME Inv, [Next]_vars PROVE Inv'
    OBVIOUS
  <1>1. CASE UNCHANGED vars
    <2>1. TypeOK' /\ exact'
      BY <1>1 DEF vars, Inv, TypeOK
    <2>2. AtMd' /\ AfterMd'
      BY <1>1 DEF vars, Inv, AtMd, AfterMd, MdDone, TopBits, Field, StringBit
    <2>3. AtTree'
      BY <1>1 DEF vars, Inv, AtTree, TreeBytes
    <2>4. AfterTree' /\ AfterLeaf'
      BY <1>1 DEF vars, Inv, AfterTree, AfterLeaf, Field, StringBit
    <2> QED BY <2>1, <2>2, <2>3, <2>4 DEF Inv
  <1>2. CASE Next
    BY <1>1, <1>2, MdBitInv, MdEndInv, TreeByteInv, TreeMaskInv, LeafInv DEF Next, Finished
  <1> QED BY <1>1, <1>2

LEMMA InvGivesFields == Inv => FieldsAreBitStrings
  BY DEF Inv, AfterMd, MdDone, AfterTree, AfterLeaf, FieldsAreBitStrings, K_FORS, A_FORS,
         TREE_BITS, LEAF_BITS

LEMMA FieldsHaveWidths == FieldsAreBitStrings => IndexWidths
  BY DEF FieldsAreBitStrings, IndexWidths, Field, Bits, K_FORS, A_FORS, TREE_BITS, LEAF_BITS

LEMMA Invariant == Spec => []Inv
  BY InitInv, InvStep, PTL DEF Spec

(***************************************************************************)
(* parse_digest reads the fields the digest layout names, whatever the     *)
(* digest.                                                                 *)
(***************************************************************************)
THEOREM ParsesTheFields == Spec => []FieldsAreBitStrings
  BY Invariant, InvGivesFields, PTL

(***************************************************************************)
(* Its indices have the widths SlhDsa assumes of a digest                  *)
(* (DigestAssumption there).                                               *)
(***************************************************************************)
THEOREM IndicesFitTheTrees == Spec => []IndexWidths
  BY Invariant, InvGivesFields, FieldsHaveWidths, PTL

(***************************************************************************)
(* The u64 arithmetic of parse_digest is exact.                            *)
(***************************************************************************)
THEOREM ArithmeticIsExact == Spec => [](TypeOK /\ Exact)
  <1>1. Inv => TypeOK /\ Exact
    BY DEF Inv, Exact
  <1> QED BY Invariant, <1>1, PTL

(***************************************************************************)
(* The words and positions of parse_digest stay in range.                  *)
(***************************************************************************)
THEOREM DigestTypes == Spec => []TypeOK
  BY ArithmeticIsExact, PTL
-----------------------------------------------------------------------------
SplitOf(w, b) ==
    /\ chunks[w][2 * b] = High(digests[w][b])
    /\ chunks[w][2 * b + 1] = Lower(digests[w][b])

\* The bytes below m are split, in both digests.
SplitTo(m) == \A w \in Both : \A b \in 0 .. N - 1 : b < m => SplitOf(w, b)

Summed(m) ==
    /\ \A w \in Both : csum[w] <= WOTS_MAX * m
    /\ (\A ch \in MsgChunks : ch < m => chunks[1][ch] <= chunks[2][ch]) =>
         /\ csum[1] >= csum[2]
         /\ (\E ch \in MsgChunks : ch < m /\ chunks[1][ch] # chunks[2][ch]) => csum[1] > csum[2]

CsumZero == \A w \in Both : csum[w] = 0

AtSplit    == stage = "split" => loop <= N /\ SplitTo(loop) /\ CsumZero
AfterSplit == stage # "split" => SplitTo(N)
AtSum      == stage = "sum" => Summed(loop)
AfterSum   == stage \in {"digits", "done"} => Summed(2 * N)

CsumInv == CsumTypeOK /\ AtSplit /\ AfterSplit /\ AtSum /\ AfterSum /\ CsumExact

LEMMA CsumSizes ==
    /\ N \in Int /\ 1 <= N /\ N <= 16
    /\ 1 \in Both /\ 2 \in Both
    /\ MsgChunks \subseteq Chunks
    /\ \A ch \in MsgChunks : ch \in Int /\ 0 <= ch /\ ch < 2 * N
    /\ \A ch \in Chunks : ch \in Int /\ 0 <= ch /\ ch <= 2 * N + 2
    /\ \A b \in 0 .. N - 1 : 2 * b \in MsgChunks /\ 2 * b + 1 \in MsgChunks
    /\ 2 * N \in Chunks /\ 2 * N + 1 \in Chunks /\ 2 * N + 2 \in Chunks
  BY SizeAssumption DEF Both, MsgChunks, Chunks

(***************************************************************************)
(* A byte is its two nibbles.                                              *)
(***************************************************************************)
LEMMA Nibbles ==
    ASSUME NEW x \in 0 .. 255, NEW y \in 0 .. 255
    PROVE  /\ High(x) \in 0 .. WOTS_MAX /\ Lower(x) \in 0 .. WOTS_MAX
           /\ High(x) = High(y) /\ Lower(x) = Lower(y) => x = y
  BY DEF High, Lower, WOTS_MAX

(***************************************************************************)
(* Nine bits are their three chunks.                                       *)
(***************************************************************************)
LEMMA NineBits ==
    ASSUME NEW x \in 0 .. 480
    PROVE  /\ CsumTop(x) \in 0 .. WOTS_MAX
           /\ CsumMid(x) \in 0 .. WOTS_MAX
           /\ CsumLow(x) \in 0 .. WOTS_MAX
           /\ x = 256 * CsumTop(x) + 16 * CsumMid(x) + CsumLow(x)
  <1> DEFINE h == x \div 256
             s == x \div 16
             l == x % 16
  <1>1. x \in Int /\ 0 <= x /\ x <= 480
    OBVIOUS
  <1>2. h \in Int /\ s \in Int /\ l \in Int
    BY <1>1
  <1>3. 0 <= l /\ l < 16
    BY <1>1
  <1>4. x = 16 * s + l
    BY <1>1
  <1>5. 256 * h <= x /\ x < 256 * h + 256
    BY <1>1
  <1> HIDE DEF h, s, l
  <1>6. 16 * h <= s /\ s < 16 * h + 16
    BY <1>1, <1>2, <1>3, <1>4, <1>5
  <1>7. h \in 0 .. 1 /\ s \in 0 .. 30 /\ l \in 0 .. 15
    BY <1>1, <1>2, <1>3, <1>4, <1>5
  <1>8. h % 2 = h /\ s % 16 \in 0 .. 15 /\ s % 16 = s - 16 * h
    BY <1>7, <1>6
  <1>9. x = 256 * (h % 2) + 16 * (s % 16) + l
    BY <1>7, <1>8, <1>4
  <1>10. h % 2 \in 0 .. WOTS_MAX /\ s % 16 \in 0 .. WOTS_MAX /\ l \in 0 .. WOTS_MAX
    BY <1>7, <1>8 DEF WOTS_MAX
  <1>11. CsumTop(x) = h % 2 /\ CsumMid(x) = s % 16 /\ CsumLow(x) = l
    BY Zenon DEF CsumTop, CsumMid, CsumLow, h, s, l
  <1> QED BY <1>9, <1>10, <1>11

(***************************************************************************)
(* The ranges of what the loops read.                                      *)
(***************************************************************************)
LEMMA CsumRanges ==
    ASSUME CsumTypeOK
    PROVE  /\ loop \in Int /\ 0 <= loop
           /\ \A w \in Both : \A b \in 0 .. N - 1 : digests[w][b] \in 0 .. 255
           /\ \A w \in Both : \A ch \in Chunks : chunks[w][ch] \in 0 .. WOTS_MAX
           /\ \A w \in Both : csum[w] \in 0 .. 480
  <1>1. loop \in Int /\ 0 <= loop
    BY CsumSizes DEF CsumTypeOK
  <1>2. \A w \in Both : \A b \in 0 .. N - 1 : digests[w][b] \in 0 .. 255
    <2>1. \A w \in Both : digests[w] \in Inputs
      BY DEF CsumTypeOK
    <2>2. \A d \in Inputs : \A b \in 0 .. N - 1 : d[b] \in 0 .. 255
      BY SizeAssumption
    <2> QED BY <2>1, <2>2
  <1>3. \A w \in Both : \A ch \in Chunks : chunks[w][ch] \in 0 .. WOTS_MAX
    BY DEF CsumTypeOK
  <1>4. \A w \in Both : csum[w] \in 0 .. 480
    <2>1. \A w \in Both : csum[w] \in 0 .. 2 * N * WOTS_MAX
      BY DEF CsumTypeOK
    <2>2. 2 * N * WOTS_MAX \in 0 .. 480
      BY CsumSizes DEF WOTS_MAX
    <2> QED BY <2>1, <2>2
  <1> QED BY <1>1, <1>2, <1>3, <1>4

LEMMA CsumInitInv == CsumInit => CsumInv
  <1> SUFFICES ASSUME CsumInit PROVE CsumInv
    OBVIOUS
  <1>1. CsumTypeOK
    BY CsumSizes DEF CsumInit, CsumTypeOK, WOTS_MAX
  <1>2. SplitTo(0) /\ 0 <= N /\ loop = 0
    BY CsumSizes DEF CsumInit, SplitTo
  <1>3. \A w \in Both : csum[w] = 0
    BY DEF CsumInit
  <1> QED BY <1>1, <1>2, <1>3 DEF CsumInit, CsumInv, CsumZero, AtSplit, AfterSplit, AtSum, AfterSum, CsumExact

LEMMA SplitByteInv == ASSUME CsumInv, SplitByte PROVE CsumInv'
  <1>1. loop \in 0 .. N - 1 /\ loop < N /\ loop' = loop + 1 /\ stage = "split" /\ stage' = "split"
         /\ digests' = digests /\ csum' = csum
    BY CsumSizes DEF CsumInv, CsumTypeOK, SplitByte
  <1>2. \A w \in Both : digests[w][loop] \in 0 .. 255
    BY <1>1, CsumRanges DEF CsumInv
  <1>3. \A w \in Both : High(digests[w][loop]) \in 0 .. WOTS_MAX /\ Lower(digests[w][loop]) \in 0 .. WOTS_MAX
    BY <1>2, Nibbles
  <1>4. chunks' \in [Both -> [Chunks -> 0 .. WOTS_MAX]]
    BY <1>1, <1>3, CsumSizes DEF CsumInv, CsumTypeOK, SplitByte
  <1>5. \A w \in Both : \A ch \in Chunks :
           chunks'[w][ch] = IF ch = 2 * loop + 1 THEN Lower(digests[w][loop])
                           ELSE IF ch = 2 * loop THEN High(digests[w][loop]) ELSE chunks[w][ch]
    BY <1>1, CsumSizes DEF CsumInv, CsumTypeOK, SplitByte
  <1>6. ASSUME NEW w \in Both, NEW b \in 0 .. N - 1, b < loop + 1 PROVE SplitOf(w, b)'
    <2>1. 2 * b \in Chunks /\ 2 * b + 1 \in Chunks /\ b \in Int /\ loop \in Int /\ 2 * b # 2 * loop + 1
      BY <1>1, CsumSizes
    <2>2. CASE b = loop
      BY <1>1, <1>5, <2>1, <2>2 DEF SplitOf
    <2>3. CASE b < loop
      <3>1. 2 * b # 2 * loop /\ 2 * b + 1 # 2 * loop + 1 /\ 2 * b + 1 # 2 * loop
        BY <2>1, <2>3
      <3>2. SplitOf(w, b)
        BY <1>1, <2>3 DEF CsumInv, AtSplit, SplitTo
      <3> QED BY <1>1, <1>5, <2>1, <3>1, <3>2 DEF SplitOf
    <2> QED BY <1>6, <2>1, <2>2, <2>3
  <1>7. SplitTo(loop)'
    BY <1>1, <1>6 DEF SplitTo
  <1>8. CsumTypeOK'
    <2>1. loop' \in 0 .. 2 * N
      BY <1>1, CsumSizes
    <2> QED BY <1>1, <1>4, <2>1 DEF CsumInv, CsumTypeOK
  <1>9. loop' <= N /\ CsumZero'
    BY <1>1, CsumSizes DEF CsumInv, AtSplit, CsumZero
  <1> QED BY <1>1, <1>7, <1>8, <1>9 DEF CsumInv, AtSplit, AfterSplit, AtSum, AfterSum, CsumExact

LEMMA SplitEndInv == ASSUME CsumInv, SplitEnd PROVE CsumInv'
  <1>1. stage = "split" /\ stage' = "sum" /\ loop = N /\ loop' = 0 /\ UNCHANGED <<digests, chunks, csum>>
    BY DEF SplitEnd
  <1>2. CsumTypeOK'
    BY <1>1, CsumSizes DEF CsumInv, CsumTypeOK
  <1>3. SplitTo(N)'
    BY <1>1 DEF CsumInv, AtSplit, SplitTo, SplitOf
  <1>4. Summed(0)'
    BY <1>1, CsumSizes DEF CsumInv, AtSplit, CsumZero, Summed, WOTS_MAX
  <1>5. Summed(loop)'
    BY <1>1, <1>4
  <1> QED BY <1>1, <1>2, <1>3, <1>5 DEF CsumInv, AtSplit, AfterSplit, AtSum, AfterSum, CsumExact

LEMMA AddChunkInv == ASSUME CsumInv, AddChunk PROVE CsumInv'
  <1>1. stage = "sum" /\ stage' = "sum" /\ loop \in MsgChunks /\ loop \in Int /\ loop < 2 * N /\ loop' = loop + 1
         /\ UNCHANGED <<digests, chunks>>
    BY CsumSizes DEF CsumInv, CsumTypeOK, AddChunk, MsgChunks
  <1>2. \A w \in Both : csum'[w] = csum[w] + (WOTS_MAX - chunks[w][loop])
    BY DEF AddChunk
  <1>3. \A w \in Both : csum[w] \in Int /\ csum[w] >= 0 /\ csum[w] <= WOTS_MAX * loop
    <2>1. \A w \in Both : csum[w] \in 0 .. 480
      BY CsumRanges DEF CsumInv
    <2>2. \A w \in Both : csum[w] <= WOTS_MAX * loop
      BY <1>1 DEF CsumInv, AtSum, Summed
    <2> QED BY <2>1, <2>2
  <1>4. \A w \in Both : \A ch \in MsgChunks : chunks[w][ch] \in 0 .. WOTS_MAX
    BY CsumRanges, CsumSizes DEF CsumInv
  <1>5. \A w \in Both : csum'[w] \in 0 .. 2 * N * WOTS_MAX /\ csum'[w] <= WOTS_MAX * (loop + 1)
    BY <1>1, <1>2, <1>3, <1>4, CsumSizes DEF WOTS_MAX
  <1>6. csum' \in [Both -> 0 .. 2 * N * WOTS_MAX]
    BY <1>5 DEF AddChunk
  <1>7. CsumTypeOK'
    BY <1>1, <1>6, CsumSizes, SMTT(30) DEF CsumInv, CsumTypeOK
  <1>8. ASSUME \A ch \in MsgChunks : ch < loop + 1 => chunks[1][ch] <= chunks[2][ch]
        PROVE  /\ csum'[1] >= csum'[2]
               /\ (\E ch \in MsgChunks : ch < loop + 1 /\ chunks[1][ch] # chunks[2][ch]) => csum'[1] > csum'[2]
    <2>1. chunks[1][loop] <= chunks[2][loop]
      BY <1>8, <1>1
    <2>2. /\ csum[1] >= csum[2]
          /\ (\E ch \in MsgChunks : ch < loop /\ chunks[1][ch] # chunks[2][ch]) => csum[1] > csum[2]
      BY <1>8, <1>1, CsumSizes DEF CsumInv, AtSum, Summed
    <2>3. csum'[1] >= csum'[2]
      BY <1>1, <1>2, <1>3, <1>4, <2>1, <2>2, CsumSizes, SMTT(30) DEF WOTS_MAX
    <2>4. ASSUME NEW ch \in MsgChunks, ch < loop + 1, chunks[1][ch] # chunks[2][ch] PROVE csum'[1] > csum'[2]
      <3>1. CASE ch = loop
        <4>1. chunks[1][loop] < chunks[2][loop]
          BY <1>1, <1>4, <2>1, <2>4, <3>1, CsumSizes
        <4> QED BY <1>1, <1>2, <1>3, <1>4, <2>2, <4>1, CsumSizes DEF WOTS_MAX
      <3>2. CASE ch < loop
        <4>1. csum[1] > csum[2]
          BY <2>2, <2>4, <3>2
        <4> QED BY <1>1, <1>2, <1>3, <1>4, <2>1, <4>1, CsumSizes DEF WOTS_MAX
      <3> QED BY <2>4, <3>1, <3>2, <1>1, CsumSizes
    <2> QED BY <2>3, <2>4
  <1>9. Summed(loop)'
    BY <1>1, <1>5, <1>8 DEF Summed
  <1>10. SplitTo(N)'
    BY <1>1 DEF CsumInv, AfterSplit, SplitTo, SplitOf
  <1> QED BY <1>1, <1>7, <1>9, <1>10 DEF CsumInv, AtSplit, AfterSplit, AtSum, AfterSum, CsumExact

LEMMA SumEndInv == ASSUME CsumInv, SumEnd PROVE CsumInv'
  <1>1. stage = "sum" /\ stage' = "digits" /\ loop = 2 * N /\ UNCHANGED <<digests, loop, chunks, csum>>
    BY DEF SumEnd
  <1>2. CsumTypeOK' /\ SplitTo(N)'
    BY <1>1 DEF CsumInv, AfterSplit, CsumTypeOK, SplitTo, SplitOf
  <1>3. Summed(2 * N)'
    BY <1>1 DEF CsumInv, AtSum, Summed
  <1> QED BY <1>1, <1>2, <1>3 DEF CsumInv, AtSplit, AfterSplit, AtSum, AfterSum, CsumExact

LEMMA CsumDigitsInv == ASSUME CsumInv, CsumDigits PROVE CsumInv'
  <1>1. stage = "digits" /\ stage' = "done" /\ UNCHANGED <<digests, loop, csum>>
    BY DEF CsumDigits
  <1>2. \A w \in Both : csum[w] \in 0 .. 480
    BY CsumRanges DEF CsumInv
  <1>3. \A w \in Both : /\ CsumTop(csum[w]) \in 0 .. WOTS_MAX
                         /\ CsumMid(csum[w]) \in 0 .. WOTS_MAX
                         /\ CsumLow(csum[w]) \in 0 .. WOTS_MAX
    BY <1>2, NineBits, ZenonT(60)
  <1>4. \A w \in Both : csum[w] = 256 * CsumTop(csum[w]) + 16 * CsumMid(csum[w]) + CsumLow(csum[w])
    BY <1>2, NineBits
  <1>5. chunks' = [w \in Both |-> [chunks[w] EXCEPT ![2 * N]     = CsumTop(csum[w]),
                                                   ![2 * N + 1] = CsumMid(csum[w]),
                                                   ![2 * N + 2] = CsumLow(csum[w])]]
    BY DEF CsumDigits
  <1>6. chunks \in [Both -> [Chunks -> 0 .. WOTS_MAX]]
    BY DEF CsumInv, CsumTypeOK
  <1>7. chunks' \in [Both -> [Chunks -> 0 .. WOTS_MAX]]
    BY <1>3, <1>5, <1>6, CsumSizes
  <1>8. \A w \in Both : /\ chunks'[w][2 * N]     = CsumTop(csum[w])
                         /\ chunks'[w][2 * N + 1] = CsumMid(csum[w])
                         /\ chunks'[w][2 * N + 2] = CsumLow(csum[w])
    BY <1>5, <1>6, CsumSizes
  <1>9. \A w \in Both : \A ch \in MsgChunks : chunks'[w][ch] = chunks[w][ch]
    BY <1>5, <1>6, CsumSizes
  <1>10. CsumTypeOK'
    BY <1>1, <1>7 DEF CsumInv, CsumTypeOK
  <1>11. CsumExact'
    BY <1>1, <1>4, <1>8 DEF CsumExact
  <1>12. SplitTo(N)'
    BY <1>1, <1>9, CsumSizes DEF CsumInv, AfterSplit, SplitTo, SplitOf
  <1>13. Summed(2 * N)'
    BY <1>1, <1>9, CsumSizes DEF CsumInv, AfterSum, Summed
  <1> QED BY <1>1, <1>10, <1>11, <1>12, <1>13 DEF CsumInv, AtSplit, AfterSplit, AtSum, AfterSum

LEMMA CsumInvStep == CsumInv /\ [CsumNext]_csumVars => CsumInv'
  <1> SUFFICES ASSUME CsumInv, [CsumNext]_csumVars PROVE CsumInv'
    OBVIOUS
  <1>1. CASE UNCHANGED csumVars
    BY <1>1 DEF csumVars, CsumInv, CsumZero, AtSplit, AfterSplit, AtSum, AfterSum, CsumTypeOK, SplitTo, SplitOf, Summed, CsumExact
  <1>2. CASE CsumNext
    BY <1>1, <1>2, SplitByteInv, SplitEndInv, AddChunkInv, SumEndInv, CsumDigitsInv DEF CsumNext, CsumFinished
  <1> QED BY <1>1, <1>2

LEMMA InvGivesNoDominance == CsumInv => NoDominance
  <1> SUFFICES ASSUME CsumInv, stage = "done", digests[1] # digests[2],
                      \A ch \in Chunks : ~ chunks[1][ch] > chunks[2][ch]
               PROVE  FALSE
    BY DEF NoDominance
  <1>1. \A w \in Both : \A ch \in Chunks : chunks[w][ch] \in Int
    BY CsumRanges DEF CsumInv, WOTS_MAX
  <1>2. \A ch \in Chunks : chunks[1][ch] <= chunks[2][ch]
    BY <1>1, CsumSizes
  <1>3. PICK b \in 0 .. N - 1 : digests[1][b] # digests[2][b]
    <2>1. digests[1] \in [0 .. N - 1 -> 0 .. 255] /\ digests[2] \in [0 .. N - 1 -> 0 .. 255]
      BY CsumSizes, SizeAssumption DEF CsumInv, CsumTypeOK
    <2>2. PICK f \in [0 .. N - 1 -> 0 .. 255], g \in [0 .. N - 1 -> 0 .. 255] : f = digests[1] /\ g = digests[2]
      BY <2>1
    <2>3. f # g
      BY <2>2
    <2>4. PICK b \in 0 .. N - 1 : f[b] # g[b]
      <3>1. f = [b \in 0 .. N - 1 |-> f[b]] /\ g = [b \in 0 .. N - 1 |-> g[b]]
        OBVIOUS
      <3> QED BY <2>3, <3>1, Zenon
    <2>5. digests[1][b] # digests[2][b]
      BY <2>2, <2>4, Zenon
    <2> QED BY <2>5, Zenon
  <1>4. High(digests[1][b]) # High(digests[2][b]) \/ Lower(digests[1][b]) # Lower(digests[2][b])
    <2>1. digests[1][b] \in 0 .. 255 /\ digests[2][b] \in 0 .. 255
      BY CsumRanges, CsumSizes DEF CsumInv
    <2> QED BY <1>3, <2>1, Nibbles
  <1>5. SplitOf(1, b) /\ SplitOf(2, b)
    BY CsumSizes DEF CsumInv, AfterSplit, SplitTo
  <1>6. \E ch \in MsgChunks : ch < 2 * N /\ chunks[1][ch] # chunks[2][ch]
    BY <1>4, <1>5, CsumSizes DEF SplitOf
  <1>7. csum[1] > csum[2]
    BY <1>2, <1>6, CsumSizes DEF CsumInv, AfterSum, Summed
  <1>8. csum[1] \in Int /\ csum[2] \in Int /\ csum[1] <= csum[2]
    BY <1>1, <1>2, CsumRanges, CsumSizes DEF CsumInv, CsumExact
  <1> QED BY <1>7, <1>8

LEMMA CsumInvariant == CsumSpec => []CsumInv
  BY CsumInitInv, CsumInvStep, PTL DEF CsumSpec

(***************************************************************************)
(* The checksum does its work (base2b_with_csum): no digest's chunks are   *)
(* at most another's in every place.                                       *)
(***************************************************************************)
THEOREM ChecksumPreventsDominance == CsumSpec => []NoDominance
  BY CsumInvariant, InvGivesNoDominance, PTL

(***************************************************************************)
(* The masks 0x1 and 0xf on the checksum lose nothing: it stays at or      *)
(* below 480.                                                              *)
(***************************************************************************)
THEOREM ChecksumKeepsAllBits == CsumSpec => [](CsumTypeOK /\ CsumExact)
  <1>1. CsumInv => CsumTypeOK /\ CsumExact
    BY DEF CsumInv
  <1> QED BY CsumInvariant, <1>1, PTL

(***************************************************************************)
(* Every chunk is a position of a chain, and the checksum is in range.     *)
(***************************************************************************)
THEOREM ChecksumTypes == CsumSpec => []CsumTypeOK
  BY ChecksumKeepsAllBits, PTL
=============================================================================
