---------------------------- MODULE MerkleForest ----------------------------
(***************************************************************************)
(* The binary hash trees of the signer, from leaf generation to the root   *)
(* a verifier reconstructs: fors_levels, the FORS loop of sign and         *)
(* fors_pk_from_sig of signer.rs (K trees, one after the other).  With one *)
(* tree (K = 1, so tree number 0) it is also xmss_levels, xmss_auth_path   *)
(* and xmss_root_from_sig, whose walk is the same.                         *)
(*                                                                         *)
(* The leaves of a tree are computed by a rayon parallel iterator: they    *)
(* finish in any order, and collect() waits for all of them.  Everything   *)
(* after that is one thread.  Within one tree the layer, tree address,     *)
(* type and keypair of ADRS are fixed, so only its chain (the level) and   *)
(* hash words appear here.                                                 *)
(***************************************************************************)
EXTENDS WordBits

CONSTANTS
    K,                  \* number of trees (K_FORS = 14; 1 for an XMSS tree)
    H,                  \* their height (A_FORS = 12, HPRIME = 9)
    None,               \* a slot that holds no hash yet
    Secret(_, _),       \* prf_sk of leaf n of tree i
    LeafHash(_, _),     \* slh_f at chain 0: (ADRS.hash, secret)
    NodeHash(_, _, _, _) \* slh_h: (ADRS.chain, ADRS.hash, left, right)

Trees == 0 .. K - 1
Leaves == Bits(H)

ASSUME SizeAssumption == K \in Nat \ {0} /\ H \in 1 .. 63

VARIABLES
    phase,    \* what the thread is doing
    i,        \* tree being built, signed or verified
    md,       \* the leaf index of each tree, from parse_digest
    pending,  \* leaves of tree i no worker has finished
    levels,   \* levels[t][z][n]: node n at level z of tree t
    z,        \* level being built, copied into the path, or walked
    idx,      \* index of the path node in the loop that copies the path
    sig,      \* sig[t][0] the leaf secret, sig[t][z + 1] the path node of level z
    roots,    \* roots the signer collects
    node,     \* the verifier's current node
    vroots    \* roots the verifier reconstructs

vars == <<phase, i, md, pending, levels, z, idx, sig, roots, node, vroots>>

\* Faulty: every tree of the forest starts again at 0.
FaultyHashIndex(t, lev, n) == Val(n, H - lev)

\* ADRS.hash of node n at level z of tree t, where the tree is built:
\* fors_idx * (num_leaves >> z) + n.
HashIndex(t, lev, n) == t * (Pow2[H] \div Pow2[lev]) + Val(n, H - lev)

\* Faulty: the offset of the tree is that of its leaves at every level.
FaultyPathIndex(t, lev, index) == t * Pow2[H] + Val(Shr(index, lev), H)

\* The same word where a path is verified, computed from the leaf index:
\* i * (1 << (12 - z)) + (md_indices[i] >> z).
PathIndex(t, lev, index) == t * Pow2[H - lev] + Val(Shr(index, lev), H)

\* f is a function on S; hash values have no type, the proofs take any.
IsTable(f, S) == f = [x \in S |-> f[x]]

LevelTables ==
    /\ IsTable(levels, Trees)
    /\ \A t \in Trees : IsTable(levels[t], 0 .. H)
    /\ \A t \in Trees : \A y \in 0 .. H : IsTable(levels[t][y], Bits(H - y))

SigTables ==
    /\ IsTable(sig, Trees)
    /\ \A t \in Trees : IsTable(sig[t], 0 .. H)

TypeOK ==
    /\ phase \in {"leaves", "levels", "path", "verify", "done"}
    /\ i \in Trees
    /\ md \in [Trees -> Leaves]
    /\ pending \subseteq Leaves
    /\ z \in 0 .. H + 1
    /\ idx \in Leaves
    /\ LevelTables
    /\ SigTables
    /\ IsTable(roots, Trees)
    /\ IsTable(vroots, Trees)

Init ==
    /\ phase = "leaves"
    /\ i = 0
    /\ md \in [Trees -> Leaves]
    /\ pending = Leaves
    /\ levels = [t \in Trees |-> [y \in 0 .. H |-> [n \in Bits(H - y) |-> None]]]
    /\ z = 0
    /\ idx = {}
    /\ sig = [t \in Trees |-> [y \in 0 .. H |-> None]]
    /\ roots = [t \in Trees |-> None]
    /\ node = None
    /\ vroots = [t \in Trees |-> None]

\* Faulty: the result of a worker is not collected.
FaultyComputeLeaf(n) ==
    /\ phase = "leaves"
    /\ n \in pending
    /\ levels' = [levels EXCEPT ![i][0][n] = LeafHash(HashIndex(i, 0, n), Secret(i, n))]
    /\ UNCHANGED <<phase, i, md, pending, z, idx, sig, roots, node, vroots>>

(***************************************************************************)
(* A worker of the pool finishes leaf n.                                   *)
(***************************************************************************)
ComputeLeaf(n) ==
    /\ phase = "leaves"
    /\ n \in pending
    /\ pending' = pending \ {n}
    /\ levels' = [levels EXCEPT ![i][0][n] = LeafHash(HashIndex(i, 0, n), Secret(i, n))]
    /\ UNCHANGED <<phase, i, md, z, idx, sig, roots, node, vroots>>

\* Faulty: the level loop starts without waiting for the leaves.
FaultyCollectLeaves ==
    /\ phase = "leaves"
    /\ phase' = "levels"
    /\ z' = 1
    /\ UNCHANGED <<i, md, pending, levels, idx, sig, roots, node, vroots>>

(***************************************************************************)
(* collect() returns once no leaf is missing.                              *)
(***************************************************************************)
CollectLeaves ==
    /\ phase = "leaves"
    /\ pending = {}
    /\ phase' = "levels"
    /\ z' = 1
    /\ UNCHANGED <<i, md, pending, levels, idx, sig, roots, node, vroots>>

\* Faulty: the children are joined in the wrong order.
FaultyLevelAbove(t, lev, prev) ==
    [n \in Bits(H - lev) |->
        NodeHash(lev, HashIndex(t, lev, n), prev[OddChild(n)], prev[EvenChild(n)])]

(***************************************************************************)
(* One round of the level loop.  The last one returns all levels, and sign *)
(* starts on the tree's signature with the secret of the signed leaf.      *)
(***************************************************************************)
LevelAbove(t, lev, prev) ==
    [n \in Bits(H - lev) |->
        NodeHash(lev, HashIndex(t, lev, n), prev[EvenChild(n)], prev[OddChild(n)])]

BuildLevel ==
    /\ phase = "levels"
    /\ levels' = [levels EXCEPT ![i][z] = LevelAbove(i, z, levels[i][z - 1])]
    /\ \/ /\ z < H
          /\ z' = z + 1
          /\ UNCHANGED <<phase, idx, sig>>
       \/ /\ z = H
          /\ phase' = "path"
          /\ z' = 0
          /\ idx' = md[i]
          /\ sig' = [sig EXCEPT ![i][0] = Secret(i, md[i])]
    /\ UNCHANGED <<i, md, pending, roots, node, vroots>>

\* Faulty: the path holds the nodes on the way up, not their siblings.
FaultyCopyPathNode ==
    /\ phase = "path"
    /\ z < H
    /\ sig' = [sig EXCEPT ![i][z + 1] = levels[i][z][idx]]
    /\ idx' = Shr(idx, 1)
    /\ z' = z + 1
    /\ UNCHANGED <<phase, i, md, pending, levels, roots, node, vroots>>

(***************************************************************************)
(* The path loop: the sibling at each level, then idx >>= 1.               *)
(***************************************************************************)
CopyPathNode ==
    /\ phase = "path"
    /\ z < H
    /\ sig' = [sig EXCEPT ![i][z + 1] = levels[i][z][Sibling(idx)]]
    /\ idx' = Shr(idx, 1)
    /\ z' = z + 1
    /\ UNCHANGED <<phase, i, md, pending, levels, roots, node, vroots>>

\* Faulty: the loop takes one tree too many.
FaultyPushRoot ==
    /\ phase = "path"
    /\ z = H
    /\ roots' = [roots EXCEPT ![i] = levels[i][H][{}]]
    /\ z' = 0
    /\ i' = i + 1
    /\ phase' = "leaves"
    /\ pending' = Leaves
    /\ UNCHANGED <<md, levels, idx, sig, node, vroots>>

(***************************************************************************)
(* The root is pushed; the next tree starts, or the signature is complete. *)
(***************************************************************************)
PushRoot ==
    /\ phase = "path"
    /\ z = H
    /\ roots' = [roots EXCEPT ![i] = levels[i][H][{}]]
    /\ z' = 0
    /\ \/ /\ i < K - 1
          /\ i' = i + 1
          /\ phase' = "leaves"
          /\ pending' = Leaves
       \/ /\ i = K - 1
          /\ i' = 0
          /\ phase' = "verify"
          /\ UNCHANGED pending
    /\ UNCHANGED <<md, levels, idx, sig, node, vroots>>

(***************************************************************************)
(* The verifier: hash the leaf secret, climb the path, keep the root.      *)
(***************************************************************************)
VerifyLeaf ==
    /\ phase = "verify"
    /\ z = 0
    /\ node' = LeafHash(PathIndex(i, 0, md[i]), sig[i][0])
    /\ z' = 1
    /\ UNCHANGED <<phase, i, md, pending, levels, idx, sig, roots, vroots>>

Climb(t, lev, below, other, index) ==
    LET hash == PathIndex(t, lev, index)
    IN  IF lev - 1 \in index THEN NodeHash(lev, hash, other, below)
                             ELSE NodeHash(lev, hash, below, other)

VerifyNode ==
    /\ phase = "verify"
    /\ z \in 1 .. H
    /\ node' = Climb(i, z, node, sig[i][z], md[i])
    /\ z' = z + 1
    /\ UNCHANGED <<phase, i, md, pending, levels, idx, sig, roots, vroots>>

VerifyRoot ==
    /\ phase = "verify"
    /\ z = H + 1
    /\ vroots' = [vroots EXCEPT ![i] = node]
    /\ \/ /\ i < K - 1
          /\ i' = i + 1
          /\ z' = 0
          /\ UNCHANGED phase
       \/ /\ i = K - 1
          /\ phase' = "done"
          /\ UNCHANGED <<i, z>>
    /\ UNCHANGED <<md, pending, levels, idx, sig, roots, node>>

Finished == phase = "done" /\ UNCHANGED vars

Next ==
    \/ \E n \in Leaves : ComputeLeaf(n)
    \/ CollectLeaves \/ BuildLevel \/ CopyPathNode \/ PushRoot
    \/ VerifyLeaf \/ VerifyNode \/ VerifyRoot
    \/ Finished

Spec == Init /\ [][Next]_vars

\* Rayon runs every leaf it was given and the thread never blocks elsewhere.
FairSpec == Spec /\ WF_vars(Next)
-----------------------------------------------------------------------------
(***************************************************************************)
(* The verifier reconstructs exactly the roots the signer collected        *)
(* (fors_pk_from_sig against the roots sign hands to T_k): the level,      *)
(* order and hash index each side uses for a node must agree for every     *)
(* leaf index, in whatever order the leaves were computed.                 *)
(***************************************************************************)
RootsAgree == phase = "done" => vroots = roots

(***************************************************************************)
(* No parent is hashed from a missing child: collect() is the only barrier *)
(* between the parallel leaves and the level loop, and the path is copied  *)
(* from complete levels only.                                              *)
(***************************************************************************)
NoMissingNode ==
    /\ phase = "levels" => \A n \in Bits(H - z + 1) : levels[i][z - 1][n] # None
    /\ phase = "path" => \A y \in 0 .. z : sig[i][y] # None
    /\ phase = "verify" => \A t \in Trees : \A y \in 0 .. H : sig[t][y] # None

(***************************************************************************)
(* The leaf a signature reveals is the one its index names, and the path   *)
(* is that leaf's: at every round of the path loop the revealed secret     *)
(* hashes to leaf md[i] of the tree that was built, and climbing (as the   *)
(* verifier does) from the node above that leaf with the path node just    *)
(* copied gives the node above it, up to the root that will be pushed.     *)
(***************************************************************************)
Above(t, y) == levels[t][y][Shr(md[t], y)]

PathIsOfLeaf ==
    phase = "path" =>
        /\ LeafHash(PathIndex(i, 0, md[i]), sig[i][0]) = Above(i, 0)
        /\ \A y \in 1 .. z : Climb(i, y, Above(i, y - 1), sig[i][y], md[i]) = Above(i, y)
        /\ Above(i, H) = levels[i][H][{}]

(***************************************************************************)
(* No address is used for two nodes: HashIndex keeps the trees of a        *)
(* forest apart at every level, so any two nodes that have been built are  *)
(* hashes under different (level, hash) words.                             *)
(***************************************************************************)
AddressesDistinct ==
    \A t, u \in Trees, y \in 0 .. H :
        \A m, n \in Bits(H - y) :
            /\ levels[t][y][m] # None /\ levels[u][y][n] # None
            /\ HashIndex(t, y, m) = HashIndex(u, y, n)
            => t = u /\ m = n

(***************************************************************************)
(* Every tree is built, signed and verified in the end.                    *)
(***************************************************************************)
Terminates == <>(phase = "done")

(***************************************************************************)
(* Refinement: whatever the order of the parallel leaves, the signature    *)
(* and both sets of roots are those of the one tree MerkleContract         *)
(* defines, and the verifier adds nothing to it.                           *)
(***************************************************************************)
signing == phase \in {"leaves", "levels", "path"}

Contract == INSTANCE MerkleContract WITH
    stage  <- IF signing THEN "unsigned" ELSE IF phase = "verify" THEN "signed" ELSE "verified",
    sig    <- IF signing THEN None ELSE sig,
    roots  <- IF signing THEN None ELSE roots,
    vroots <- IF phase = "done" THEN vroots ELSE None

ImplementsContract == Contract!Spec
=============================================================================
