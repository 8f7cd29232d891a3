---------------------------- MODULE MCEmitLayers ----------------------------
(* Two seeds that sign soundly; a third whose signature does not verify, a
   fourth whose layers do not link and a fifth whose top layer misses pk_root
   exercise the bail-outs (signing never produces those, see SlhDsa). *)
EXTENDS EmitLayers, TLC

CONSTANTS s1, s2, unverified, unlinked, rootless

MCSeeds == {s1, s2, unverified, unlinked, rootless}
Sound   == Permutations({s1, s2})

\* input.json, or the first layer's file.
MCOuts == {0, Mono}

MCRoot(s) == <<s, D>>
MCVerifies(s) == s # unverified

\* The tree of layer 0 needs one bit more than a JSON number keeps.
MCWitness(s, k) ==
    [tree_low  |-> IF k = 0 THEN 2 * MAX_SAFE + 1 ELSE 1,
     prev_root |-> IF s = unlinked /\ k = D - 1 THEN <<s, D + 1>> ELSE <<s, k>>,
     next_root |-> IF s = rootless /\ k = D - 1 THEN <<s, D + 1>> ELSE <<s, k + 1>>]
=============================================================================
