---------------------------- MODULE MCSlhDsaFull ----------------------------
(***************************************************************************)
(* The parameters of the source (D = 7, HPRIME = 9, 54-bit idx_tree) with  *)
(* free terms for what a layer hashes.  A message is its own parsed        *)
(* digest; the indices sit at the ends of the words and across the         *)
(* boundary between two layers.                                            *)
(***************************************************************************)
EXTENDS SlhDsa

MCSeeds == {[sk |-> "sk", pk |-> "pk"]}

MCTrees  == { {}, 0 .. 53, {53}, {8, 9}, {b \in 0 .. 53 : b % 2 = 0}, 9 .. 53 }
MCLeaves == { {}, 0 .. 8 }
MCMsgs   == [md : {"md"}, tree : MCTrees, leaf : MCLeaves]

MCDigest(r, pk, root, m)               == m
MCForsSign(s, p, tree, leaf, md, i)    == <<"fors", tree, leaf, md, i>>
MCForsPk(s, p, tree, leaf)             == <<"forspk", tree, leaf>>
MCForsPkFromSig(p, tree, leaf, md, sf) ==
    IF \A i \in Trees : sf[i] = <<"fors", tree, leaf, md, i>>
    THEN <<"forspk", tree, leaf>> ELSE <<"other", tree, leaf, md, sf>>
MCXmssRoot(s, p, layer, tree)          == <<"root", layer, tree>>
MCXmssSign(s, p, layer, tree, leaf, m) == <<"xmss", layer, tree, leaf, m>>
MCXmssPkFromSig(p, layer, tree, leaf, m, xs) ==
    IF xs = <<"xmss", layer, tree, leaf, m>> THEN <<"root", layer, tree>>
                                             ELSE <<"other", layer, tree, leaf, m, xs>>
MCDamage(part, p)                      == <<"damaged", part>>

\* The hash of this instance has none of the collisions that would let an altered signature pass.
ASSUME NoCollisionHere == NoCollision
=============================================================================
