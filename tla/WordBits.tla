------------------------------ MODULE WordBits ------------------------------
(***************************************************************************)
(* The machine words of the signer (u64 in Rust) as the set of positions   *)
(* of their one bits: 5 is {0, 2}, zero is {}.  The indices the signer     *)
(* shifts and masks have up to 54 bits, more than a TLC integer holds;     *)
(* with this representation every shift, mask and bit test of the source   *)
(* is exact at any width, and is a set expression the provers handle.      *)
(***************************************************************************)
EXTENDS Integers

\* The bit positions of a u64.
BitPos == 0..63

\* The u64 values, and those below 2^k.
Word     == SUBSET BitPos
Bits(k)  == SUBSET (0 .. k - 1)

\* x >> k
Shr(x, k) == {b \in BitPos : b + k \in x}

\* x << k; the bits pushed past position 63 are lost, as in the source.
Shl(x, k) == {b \in BitPos : b - k \in x}

\* x & (2^k - 1)
Low(x, k) == {b \in x : b < k}

\* x ^ 1, the index of the sibling in a binary tree.
Sibling(x) == IF 0 \in x THEN x \ {0} ELSE x \cup {0}

\* The children 2n and 2n+1 of node n of a binary tree.
EvenChild(n) == Shl(n, 1)
OddChild(n)  == Shl(n, 1) \cup {0}

\* 2^k, by recursion: the provers know nothing of ^ when the exponent varies.
Pow2[k \in Nat] == IF k = 0 THEN 1 ELSE 2 * Pow2[k - 1]

\* The integer the low w bits of a word stand for, where the source does arithmetic on it.
Val(x, w) ==
    LET below[k \in Nat] ==
          IF k = 0 THEN 0
          ELSE IF k - 1 \in x THEN below[k - 1] + Pow2[k - 1] ELSE below[k - 1]
    IN  below[w]
=============================================================================
