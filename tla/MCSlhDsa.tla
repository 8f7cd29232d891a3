------------------------------ MODULE MCSlhDsa ------------------------------
(***************************************************************************)
(* Small instance with a concrete hash: two-leaf FORS trees, four-leaf     *)
(* XMSS trees, 16-bit nodes signed by 8 + 3 base-4 chains.  The hash folds *)
(* its inputs with x -> x^3 modulo a prime for which that is a bijection   *)
(* (poseidon.rs uses x^7 in the same way).                                 *)
(***************************************************************************)
EXTENDS SlhDsa, SequencesExt

Prime == 46337
Cube(x) == (((x * x) % Prime) * x) % Prime
MCHash(inputs) == FoldLeft(LAMBDA acc, x : Cube((acc + x + 1) % Prime), 5, inputs)

F == INSTANCE SlhFunctions WITH
       HPRIME <- 2, A_FORS <- 1, K_FORS <- K_FORS, W <- 4, LEN1 <- 8, LEN2 <- 3, Hash <- MCHash

MCSeeds == {[sk |-> 11, pk |-> 23]}

\* The words whose value is n (n < 2^w).
ToWord(n, w) == {b \in 0 .. w - 1 : (n \div 2^b) % 2 = 1}

MCDigest(r, pk, root, m) ==
    LET h == MCHash(<<r, pk, root, m>>)
    IN  [md   |-> <<h % 2, (h \div 2) % 2>>,
         leaf |-> ToWord((h \div 4) % 4, 2),
         tree |-> ToWord((h \div 16) % 16, 4)]

\* The integer of an index: a tree has four bits, a leaf two.
Num(x) == Val(x, 4)

MCForsSign(s, p, tree, leaf, md, i) == F!fors_sign(p, s, Num(tree), Num(leaf), md)[i + 1]

MCForsPk(s, p, tree, leaf) ==
    F!fors_pk(p, Num(tree), Num(leaf),
              [i \in 1 .. 2 |-> F!fors_node(p, s, Num(tree), Num(leaf), i - 1, 1, 0)])

MCForsPkFromSig(p, tree, leaf, md, sf) ==
    F!fors_pk_from_sig(p, Num(tree), Num(leaf), md, [i \in 1 .. K_FORS |-> sf[i - 1]])

MCXmssRoot(s, p, layer, tree) == F!xmss_node(p, s, layer, Num(tree), HPRIME, 0)

\* sig_ht[layer]: the LEN chain values, then the HPRIME path nodes.
MCXmssSign(s, p, layer, tree, leaf, m) ==
    F!wots_sign(p, s, layer, Num(tree), Num(leaf), F!base2b_with_csum(m))
    \o F!xmss_auth_path(p, s, layer, Num(tree), Num(leaf))

MCXmssPkFromSig(p, layer, tree, leaf, m, xs) ==
    F!xmss_root_from_sig(p, layer, Num(tree), Num(leaf),
        F!wots_pk_from_sig(p, layer, Num(tree), Num(leaf), F!base2b_with_csum(m),
                           SubSeq(xs, 1, F!LEN)),
        SubSeq(xs, F!LEN + 1, Len(xs)))

\* The first value is a chain value or a FORS secret, the last one a path node.
MCDamage(part, p) == [part EXCEPT ![IF p = "first" THEN 1 ELSE Len(part)] = (@ + 1) % Prime]

\* The hash of this instance has none of the collisions that would let an altered signature pass.
ASSUME NoCollisionHere == NoCollision
=============================================================================
