------------------------------ MODULE PoseidonGl ------------------------------
(***************************************************************************)
(* poseidon.rs: the arithmetic of the field, one round of the permutation, *)
(* and the conversions between 16-byte values and pairs of field elements. *)
(* A 16-byte value is the pair of its little-endian halves, both u64; a    *)
(* u64 is eight bytes.  BYTE is 256 in the source and P is                 *)
(* 2^64 - 2^32 + 1; the definitions read nothing else into them.           *)
(***************************************************************************)
EXTENDS Integers, Sequences

CONSTANTS
    BYTE,             \* values of a byte (256)
    P,                \* the prime of the field
    HALF_FULL,        \* full rounds at either end of the permutation (4)
    PARTIAL,          \* partial rounds between them (22)
    ROUND_CONSTANTS   \* [0 .. ROUNDS - 1 -> [Lanes -> u64]]

WORD   == BYTE^8      \* values of a u64
Lanes  == 0 .. 11
ROUNDS == 2 * HALF_FULL + PARTIAL

MDS_CIRC == <<17, 15, 41, 16, 2, 28, 13, 13, 39, 18, 34, 20>>
MDS_DIAG == <<8, 0, 0, 0, 0, 0, 0, 0, 0, 0, 0, 0>>

ASSUME FieldAssumption ==
    /\ WORD \in Nat /\ BYTE^6 \in Nat \ {0}
    /\ P \in Nat /\ 4 <= P /\ P < WORD
    /\ 264 * (P - 1) < WORD * WORD             \* the MDS coefficients add up to 264
    /\ HALF_FULL \in Nat /\ PARTIAL \in Nat
    /\ ROUND_CONSTANTS \in [0 .. ROUNDS - 1 -> [Lanes -> 0 .. WORD - 1]]
-----------------------------------------------------------------------------
\* The source computes sums and products in u128 and calls reduce on them.
reduce(x)       == x % P
add(a, b)       == reduce(a + b)
mul(a, b)       == reduce(a * b)

\* Faulty: the value is taken for canonical.
faulty_to_canonical(v) == v

\* A u64 that may exceed the prime.
to_canonical(v) == IF v < P THEN v ELSE reduce(v)

pow7(x) ==
    LET x2 == mul(x, x)
        x4 == mul(x2, x2)
        x3 == mul(x, x2)
    IN  mul(x3, x4)

\* The wide values pow7 makes on its way.
Pow7Wides(x) ==
    LET x2 == mul(x, x)
        x4 == mul(x2, x2)
        x3 == mul(x, x2)
    IN  {x * x, x2 * x2, x * x2, x3 * x4}

\* The accumulator of mds_layer for lane k, before it is reduced.
MdsSum(post, k) ==
    LET t(n) == post[(n + k) % 12] * MDS_CIRC[n + 1]
    IN  t(0) + t(1) + t(2) + t(3) + t(4) + t(5) + t(6) + t(7) + t(8) + t(9) + t(10) + t(11)
          + post[k] * MDS_DIAG[k + 1]

mds_layer(post) == [k \in Lanes |-> reduce(MdsSum(post, k))]

\* The rounds whose S-box is on every lane; in the others it is on lane 0 only.
IsFull(r) == r < HALF_FULL \/ r >= HALF_FULL + PARTIAL

AddConstants(s, r) == [n \in Lanes |-> add(s[n], ROUND_CONSTANTS[r][n])]
PostSBox(s, r) ==
    LET sum == AddConstants(s, r)
    IN  [n \in Lanes |-> IF IsFull(r) \/ n = 0 THEN pow7(sum[n]) ELSE sum[n]]

\* full_round or partial_round, by the number of the round.
RoundOf(s, r) == mds_layer(PostSBox(s, r))

\* Every u128 the round computes.
RoundWides(s, r) ==
    {s[n] + ROUND_CONSTANTS[r][n] : n \in Lanes}
      \cup (UNION {Pow7Wides(AddConstants(s, r)[n]) : n \in {m \in Lanes : IsFull(r) \/ m = 0}})
      \cup {MdsSum(PostSBox(s, r), k) : k \in Lanes}
-----------------------------------------------------------------------------
\* poseidon_gl: the inputs, canonical, in the first lanes, the others zero;
\* an arity beyond twelve is an assertion of the source.
Absorb(inputs) ==
    [n \in Lanes |-> IF n < Len(inputs) THEN to_canonical(inputs[n + 1]) ELSE 0]

\* The later blocks of the sponge overwrite the lanes they fill.
Overwrite(s, inputs) ==
    [n \in Lanes |-> IF n < Len(inputs) THEN to_canonical(inputs[n + 1]) ELSE s[n]]

Squeeze(s) == <<s[0], s[1]>>

\* A half that is not below the prime is reduced, as the circuit does.
pack(bytes) == <<reduce(bytes[1]), reduce(bytes[2])>>

\* The first 14 bytes of a value.
Low14(v) == <<v[1], v[2] % BYTE^6>>
=============================================================================
