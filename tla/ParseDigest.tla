----------------------------- MODULE ParseDigest -----------------------------
(***************************************************************************)
(* parse_digest of signer.rs, loop by loop: the 30 bytes of H_msg become   *)
(* fourteen FORS indices of 12 bits, idx_tree of 54 bits and idx_leaf of   *)
(* nine.  Words and bytes are sets of bit positions (WordBits), so the     *)
(* digest is any function from byte numbers to bytes.                      *)
(***************************************************************************)
EXTENDS WordBits

CONSTANT Digests    \* the digests to parse

K_FORS == 14
A_FORS == 12
TREE_BITS == 54
LEAF_BITS == 9
Byte == Bits(8)
Digest == [0 .. 29 -> Byte]

ASSUME DigestsAssumption == Digests \subseteq Digest

VARIABLES
    pc,         \* "md", "tree", "leaf", "done"
    digest,
    c, j,       \* FORS index and bit of the md loop
    i,          \* byte of the idx_tree loop
    val, md, idx_tree, idx_leaf,
    exact       \* history: no addition carried and no shift lost a bit

vars == <<pc, digest, c, j, i, val, md, idx_tree, idx_leaf, exact>>

TypeOK ==
    /\ pc \in {"md", "tree", "leaf", "done"}
    /\ digest \in Digest
    /\ c \in 0 .. K_FORS - 1 /\ j \in 0 .. A_FORS /\ i \in 0 .. 7
    /\ val \in Word /\ md \in [0 .. K_FORS - 1 -> Word]
    /\ idx_tree \in Word /\ idx_leaf \in Word
    /\ exact \in BOOLEAN

Init ==
    /\ pc = "md"
    /\ digest \in Digests
    /\ c = 0 /\ j = 0 /\ i = 0
    /\ val = {} /\ md = [n \in 0 .. K_FORS - 1 |-> {}]
    /\ idx_tree = {} /\ idx_leaf = {}
    /\ exact = TRUE

\* Faulty: the bits of a byte are taken from the low end.
FaultyBitAt(be_pos) == Low(Shr(digest[be_pos \div 8], be_pos % 8), 1)

\* (digest[byte_idx] >> bit_le) & 1, for the bit be_pos counted from the front.
BitAt(be_pos) == Low(Shr(digest[be_pos \div 8], 7 - (be_pos % 8)), 1)

(***************************************************************************)
(* val += bit << (11 - j): the sum is the union when no bit is in both.    *)
(***************************************************************************)
MdBit ==
    LET term == Shl(BitAt(A_FORS * c + j), A_FORS - 1 - j)
    IN  /\ pc = "md" /\ j < A_FORS
        /\ exact' = (exact /\ val \cap term = {})
        /\ val' = val \cup term
        /\ j' = j + 1
        /\ UNCHANGED <<pc, digest, c, i, md, idx_tree, idx_leaf>>

\* Faulty: the next index starts with the bits of this one.
FaultyMdEnd ==
    /\ pc = "md" /\ j = A_FORS
    /\ md' = [md EXCEPT ![c] = val]
    /\ IF c < K_FORS - 1
       THEN c' = c + 1 /\ j' = 0 /\ UNCHANGED <<pc, val>>
       ELSE pc' = "tree" /\ UNCHANGED <<c, j, val>>
    /\ UNCHANGED <<digest, i, idx_tree, idx_leaf, exact>>

MdEnd ==
    /\ pc = "md" /\ j = A_FORS
    /\ md' = [md EXCEPT ![c] = val]
    /\ IF c < K_FORS - 1
       THEN c' = c + 1 /\ j' = 0 /\ val' = {} /\ UNCHANGED pc
       ELSE pc' = "tree" /\ UNCHANGED <<c, j, val>>
    /\ UNCHANGED <<digest, i, idx_tree, idx_leaf, exact>>

\* Faulty: one byte too many.
FaultyTreeByte ==
    /\ pc = "tree" /\ i <= 7
    /\ idx_tree' = Shl(idx_tree, 8) \cup digest[21 + i]
    /\ exact' = (exact /\ Shr(Shl(idx_tree, 8), 8) = idx_tree)
    /\ i' = i + 1
    /\ UNCHANGED <<pc, digest, c, j, val, md, idx_leaf>>

TreeByte ==
    /\ pc = "tree" /\ i < 7
    /\ idx_tree' = Shl(idx_tree, 8) \cup digest[21 + i]
    /\ exact' = (exact /\ Shr(Shl(idx_tree, 8), 8) = idx_tree)
    /\ i' = i + 1
    /\ UNCHANGED <<pc, digest, c, j, val, md, idx_leaf>>

TreeMask ==
    /\ pc = "tree" /\ i = 7
    /\ idx_tree' = Low(idx_tree, TREE_BITS)
    /\ pc' = "leaf"
    /\ UNCHANGED <<digest, c, j, i, val, md, idx_leaf, exact>>

Leaf ==
    /\ pc = "leaf"
    /\ idx_leaf' = Low(Shl(digest[28], 8) \cup digest[29], LEAF_BITS)
    /\ pc' = "done"
    /\ UNCHANGED <<digest, c, j, i, val, md, idx_tree, exact>>

Finished == pc = "done" /\ UNCHANGED vars

Next == MdBit \/ MdEnd \/ TreeByte \/ TreeMask \/ Leaf \/ Finished

Spec == Init /\ [][Next]_vars
-----------------------------------------------------------------------------
(***************************************************************************)
(* Reference: the digest as one string of 240 bits, first bit first; a     *)
(* field is the number whose lowest bit is bit "last" of the string.       *)
(***************************************************************************)
StringBit(p) == 7 - (p % 8) \in digest[p \div 8]
Field(last, width) == {b \in 0 .. width - 1 : StringBit(last - b)}

(***************************************************************************)
(* parse_digest takes the fields it documents: index c is bits 12c to      *)
(* 12c + 11, idx_tree bits 170 to 223 and idx_leaf bits 231 to 239, so no  *)
(* bit of the digest is used twice.                                        *)
(***************************************************************************)
FieldsAreBitStrings ==
    pc = "done" =>
        /\ \A n \in 0 .. K_FORS - 1 : md[n] = Field(A_FORS * n + A_FORS - 1, A_FORS)
        /\ idx_tree = Field(223, TREE_BITS)
        /\ idx_leaf = Field(239, LEAF_BITS)

(***************************************************************************)
(* The indices fit the trees they select from, at every moment they can be *)
(* used: 54 = 9 * 6 bits of tree (HPRIME times the layers above the first) *)
(* and nine of leaf, as the layer walk of sign and verify needs, and a     *)
(* FORS index names a leaf.                                                *)
(***************************************************************************)
IndexWidths ==
    pc = "done" =>
        /\ \A n \in 0 .. K_FORS - 1 : md[n] \in Bits(A_FORS)
        /\ idx_tree \in Bits(TREE_BITS)
        /\ idx_leaf \in Bits(LEAF_BITS)

(***************************************************************************)
(* The arithmetic is exact: val += never carries into a bit already there  *)
(* and idx_tree << 8 pushes nothing out of the u64.                        *)
(***************************************************************************)
Exact == exact
=============================================================================
