--------------------------- MODULE MerkleContract ---------------------------
(***************************************************************************)
(* What the trees of signer.rs promise, in two steps: signing yields, for  *)
(* each tree, the secret of the chosen leaf, the siblings on its path and  *)
(* the root, all read off the one tree the secrets determine; verifying    *)
(* yields the same roots.  MerkleForest implements it.                     *)
(***************************************************************************)
EXTENDS WordBits

CONSTANTS K, H, None, Secret(_, _), LeafHash(_, _), NodeHash(_, _, _, _)

Trees == 0 .. K - 1

\* The tree itself: FullTree(t)[y] is level y of tree t.
FullTree(t) ==
    LET level[y \in 0 .. H] ==
          [n \in Bits(H - y) |->
             LET hash == t * (Pow2[H] \div Pow2[y]) + Val(n, H - y)
             IN  IF y = 0 THEN LeafHash(hash, Secret(t, n))
                 ELSE NodeHash(y, hash, level[y - 1][EvenChild(n)], level[y - 1][OddChild(n)])]
    IN  level

VARIABLES stage, md, sig, roots, vroots
vars == <<stage, md, sig, roots, vroots>>

Init ==
    /\ stage = "unsigned"
    /\ md \in [Trees -> Bits(H)]
    /\ sig = None /\ roots = None /\ vroots = None

Sign ==
    /\ stage = "unsigned"
    /\ stage' = "signed"
    /\ sig' = [t \in Trees |-> [y \in 0 .. H |->
                 IF y = 0 THEN Secret(t, md[t])
                          ELSE FullTree(t)[y - 1][Sibling(Shr(md[t], y - 1))]]]
    /\ roots' = [t \in Trees |-> FullTree(t)[H][{}]]
    /\ UNCHANGED <<md, vroots>>

Verify ==
    /\ stage = "signed"
    /\ stage' = "verified"
    /\ vroots' = roots
    /\ UNCHANGED <<md, sig, roots>>

Next == Sign \/ Verify
Spec == Init /\ [][Next]_vars
=============================================================================
