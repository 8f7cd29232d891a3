--------------------------- MODULE MCMerkleForest ---------------------------
(* Free hash terms: two hashes are equal only when their inputs are. *)
EXTENDS MerkleForest, TLC

MCSecret(t, n)            == <<"prf", t, n>>
MCLeafHash(hash, s)       == <<"F", hash, s>>
MCNodeHash(lev, hash, l, r) == <<"H", lev, hash, l, r>>
=============================================================================
