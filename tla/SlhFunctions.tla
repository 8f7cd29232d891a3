---------------------------- MODULE SlhFunctions ----------------------------
(***************************************************************************)
(* The functions of signer.rs and primitives.rs that one hypertree layer   *)
(* and one FORS signature are made of, as pure functions over an arbitrary *)
(* hash of number sequences (Poseidon in the source).  Leaf and node       *)
(* numbers are integers here: the runs that use this module are small.     *)
(***************************************************************************)
EXTENDS Integers, Sequences, SequencesExt, FiniteSetsExt

CONSTANTS
    HPRIME, A_FORS, K_FORS,
    W,              \* digits of a WOTS chunk are below W (16)
    LEN1, LEN2,     \* message and checksum chunks (32 and 3)
    Hash(_)         \* poseidon_gl / sponge14 of a sequence of numbers

LEN      == LEN1 + LEN2
WOTS_MAX == W - 1

WOTS_HASH  == 0
WOTS_PK    == 1
TREE       == 2
FORS_TREE  == 3
FORS_ROOTS == 4
WOTS_PRF   == 5
FORS_PRF   == 6
PRF_TAG    == 99

TAG_F    == 0
TAG_H    == 1
TAG_TK   == 2
TAG_TLEN == 3

\* The seven ADRS words; tree_high is always 0.
Adrs(layer, tree_low, type, keypair, chain, hash) ==
    <<layer, 0, tree_low, type, keypair, chain, hash>>

prf_sk(sk_seed, adrs)       == Hash(<<PRF_TAG, sk_seed>> \o adrs)
slh_f(pk_seed, adrs, m)     == Hash(<<TAG_F, pk_seed>> \o adrs \o <<m>>)
slh_h(pk_seed, adrs, l, r)  == Hash(<<TAG_H, pk_seed>> \o adrs \o <<l, r>>)
slh_tk(pk_seed, adrs, ms)   == Hash(<<TAG_TK, pk_seed>> \o adrs \o ms)
slh_tlen(pk_seed, adrs, ms) == Hash(<<TAG_TLEN, pk_seed>> \o adrs \o ms)
-----------------------------------------------------------------------------
\* Chunks of a node: message digits, then the digits of the checksum.
base2b_with_csum(m) ==
    LET digit(x, n) == (x \div W^n) % W
        msg  == [n \in 1 .. LEN1 |-> digit(m, LEN1 - n)]
        csum == FoldLeft(LAMBDA acc, c : acc + (WOTS_MAX - c), 0, msg)
    IN  msg \o [n \in 1 .. LEN2 |-> digit(csum, LEN2 - n)]

\* Chain n of a WOTS key, from value x at position from up to position to.
Chain(pk_seed, layer, tree_low, keypair, n, from, to, x) ==
    LET c[k \in from .. to] ==
          IF k = from THEN x
          ELSE slh_f(pk_seed, Adrs(layer, tree_low, WOTS_HASH, keypair, n, k - 1), c[k - 1])
    IN  c[to]

ChainStart(sk_seed, layer, tree_low, keypair, n) ==
    prf_sk(sk_seed, Adrs(layer, tree_low, WOTS_PRF, keypair, n, 0))

wots_pk_full(pk_seed, sk_seed, layer, tree_low, keypair) ==
    slh_tlen(pk_seed, Adrs(layer, tree_low, WOTS_PK, keypair, 0, 0),
          [n \in 1 .. LEN |->
             Chain(pk_seed, layer, tree_low, keypair, n - 1, 0, WOTS_MAX,
                   ChainStart(sk_seed, layer, tree_low, keypair, n - 1))])

wots_sign(pk_seed, sk_seed, layer, tree_low, keypair, chunks) ==
    [n \in 1 .. LEN |->
       Chain(pk_seed, layer, tree_low, keypair, n - 1, 0, chunks[n],
             ChainStart(sk_seed, layer, tree_low, keypair, n - 1))]

wots_pk_from_sig(pk_seed, layer, tree_low, keypair, chunks, sig) ==
    slh_tlen(pk_seed, Adrs(layer, tree_low, WOTS_PK, keypair, 0, 0),
          [n \in 1 .. LEN |->
             Chain(pk_seed, layer, tree_low, keypair, n - 1, chunks[n], WOTS_MAX, sig[n])])
-----------------------------------------------------------------------------
SiblingOf(n) == IF n % 2 = 0 THEN n + 1 ELSE n - 1

\* Node n at level z of the XMSS tree.
xmss_node(pk_seed, sk_seed, layer, tree_low, lev, num) ==
    LET nd[z \in 0 .. lev, n \in 0 .. 2^HPRIME - 1] ==
          IF z = 0 THEN wots_pk_full(pk_seed, sk_seed, layer, tree_low, n)
          ELSE slh_h(pk_seed, Adrs(layer, tree_low, TREE, 0, z, n), nd[z - 1, 2 * n], nd[z - 1, 2 * n + 1])
    IN  nd[lev, num]

xmss_auth_path(pk_seed, sk_seed, layer, tree_low, idx_leaf) ==
    [k \in 1 .. HPRIME |->
       xmss_node(pk_seed, sk_seed, layer, tree_low, k - 1, SiblingOf(idx_leaf \div 2^(k - 1)))]

xmss_root_from_sig(pk_seed, layer, tree_low, idx_leaf, leaf, auth) ==
    LET nd[k \in 0 .. HPRIME] ==
          IF k = 0 THEN leaf
          ELSE LET adrs == Adrs(layer, tree_low, TREE, 0, k, idx_leaf \div 2^k)
               IN  IF (idx_leaf \div 2^(k - 1)) % 2 = 0
                   THEN slh_h(pk_seed, adrs, nd[k - 1], auth[k])
                   ELSE slh_h(pk_seed, adrs, auth[k], nd[k - 1])
    IN  nd[HPRIME]
-----------------------------------------------------------------------------
\* The FORS trees: leaves F(sk), global hash indices, one root per tree.
fors_secret(sk_seed, idx_tree, keypair, i, n) ==
    prf_sk(sk_seed, Adrs(0, idx_tree, FORS_PRF, keypair, i, n))

fors_adrs(idx_tree, keypair, i, z, n) ==
    Adrs(0, idx_tree, FORS_TREE, keypair, z, i * 2^(A_FORS - z) + n)

fors_node(pk_seed, sk_seed, idx_tree, keypair, i, lev, num) ==
    LET nd[z \in 0 .. lev, n \in 0 .. 2^A_FORS - 1] ==
          IF z = 0 THEN slh_f(pk_seed, fors_adrs(idx_tree, keypair, i, 0, n),
                              fors_secret(sk_seed, idx_tree, keypair, i, n))
          ELSE slh_h(pk_seed, fors_adrs(idx_tree, keypair, i, z, n), nd[z - 1, 2 * n], nd[z - 1, 2 * n + 1])
    IN  nd[lev, num]

\* slh_tk over the K_FORS roots.
fors_pk(pk_seed, idx_tree, keypair, roots) ==
    slh_tk(pk_seed, Adrs(0, idx_tree, FORS_ROOTS, keypair, 0, 0), roots)

\* sig_fors[i]: the secret of the leaf md[i], then the path siblings.
fors_sign(pk_seed, sk_seed, idx_tree, keypair, md) ==
    [i \in 1 .. K_FORS |->
       [z \in 1 .. A_FORS + 1 |->
          IF z = 1 THEN fors_secret(sk_seed, idx_tree, keypair, i - 1, md[i])
          ELSE fors_node(pk_seed, sk_seed, idx_tree, keypair, i - 1, z - 2,
                         SiblingOf(md[i] \div 2^(z - 2)))]]

fors_pk_from_sig(pk_seed, idx_tree, idx_leaf, md, sig_fors) ==
    LET root(i) ==
          LET nd[z \in 0 .. A_FORS] ==
                IF z = 0 THEN slh_f(pk_seed, fors_adrs(idx_tree, idx_leaf, i - 1, 0, md[i]), sig_fors[i][1])
                ELSE LET adrs == fors_adrs(idx_tree, idx_leaf, i - 1, z, md[i] \div 2^z)
                         other == sig_fors[i][z + 1]
                     IN  IF (md[i] \div 2^(z - 1)) % 2 = 0
                         THEN slh_h(pk_seed, adrs, nd[z - 1], other)
                         ELSE slh_h(pk_seed, adrs, other, nd[z - 1])
          IN  nd[A_FORS]
    IN  fors_pk(pk_seed, idx_tree, idx_leaf, [i \in 1 .. K_FORS |-> root(i)])
=============================================================================
