------------------------------- MODULE SlhDsa -------------------------------
(***************************************************************************)
(* Key generation, signing, verification and layer-witness emission of     *)
(* signer.rs, one hypertree layer per step.  The two sides derive the tree *)
(* and leaf of each layer differently: sign carries cur_idx_tree and       *)
(* cur_idx_leaf from layer to layer (mask, then shift), verify and         *)
(* ht_layer_witnesses shift the original idx_tree.  What one layer hashes  *)
(* is left to operators; MerkleForest and WotsChains model their inside,   *)
(* SlhFunctions defines them for the runs.                                 *)
(***************************************************************************)
EXTENDS WordBits

CONSTANTS
    D,              \* hypertree layers
    K_FORS,         \* FORS trees
    HPRIME,         \* height of one XMSS tree
    Seeds,          \* the [sk, pk] seed pairs keys are generated from
    Msgs, Rands,    \* messages and randomizers
    Places,         \* where in a signature part a test flips a byte
    MaxSigs,        \* bound: signatures made in one behaviour
    None

CONSTANTS
    Digest(_, _, _, _),             \* parse_digest(slh_hmsg(r, pk_seed, pk_root, msg)):
                                    \*   [md, tree, leaf], tree and leaf as words
    ForsSign(_, _, _, _, _, _),     \* (sk, pk, tree, leaf, md, i): sig_fors[i]
    ForsPk(_, _, _, _),             \* (sk, pk, tree, leaf): T_k of the FORS roots
    ForsPkFromSig(_, _, _, _, _),   \* (pk, tree, leaf, md, sig_fors)
    XmssRoot(_, _, _, _),           \* (sk, pk, layer, tree): xmss_levels(..)[HPRIME][0]
    XmssSign(_, _, _, _, _, _),     \* (sk, pk, layer, tree, leaf, msg): sig_ht[layer]
    XmssPkFromSig(_, _, _, _, _, _),\* (pk, layer, tree, leaf, msg, signature): root
    Damage(_, _)                    \* a tree or layer of a signature, changed at one of Places

Layers == 0 .. D - 1
Trees  == 0 .. K_FORS - 1

(***************************************************************************)
(* The tree and leaf of layer k as verify and ht_layer_witnesses compute   *)
(* them, from the parsed digest f.                                         *)
(***************************************************************************)
TreeAt(f, k) == IF k = 0 THEN f.tree ELSE Shr(f.tree, HPRIME * k)
\* Faulty: the leaf of a layer is read one layer too high.
FaultyLeafAt(f, k) == IF k = 0 THEN f.leaf ELSE Low(Shr(f.tree, HPRIME * k), HPRIME)

LeafAt(f, k) == IF k = 0 THEN f.leaf ELSE Low(Shr(f.tree, HPRIME * (k - 1)), HPRIME)

\* What layer k of an honest signature signs: the FORS key, then the root below.
MsgAt(s, f, k) ==
    IF k = 0 THEN ForsPk(s.sk, s.pk, f.tree, f.leaf)
             ELSE XmssRoot(s.sk, s.pk, k - 1, TreeAt(f, k - 1))

\* What sign pushes into sig_fors for the digest f.
ForsOf(s, f) == [i \in Trees |-> ForsSign(s.sk, s.pk, f.tree, f.leaf, f.md, i)]

TopRoot(s) == XmssRoot(s.sk, s.pk, D - 1, {})
Fields(s, m, r) == Digest(r, s.pk, TopRoot(s), m)

ASSUME SizeAssumption ==
    /\ D \in Nat \ {0} /\ HPRIME \in Nat \ {0} /\ HPRIME * D <= 64
    /\ K_FORS \in Nat \ {0} /\ MaxSigs \in Nat

\* parse_digest masks both indices to their width (ParseDigest, IndexWidths).
ASSUME DigestAssumption ==
    \A s \in Seeds, m \in Msgs, r \in Rands :
        /\ Fields(s, m, r).tree \in Bits(HPRIME * (D - 1))
        /\ Fields(s, m, r).leaf \in Bits(HPRIME)

\* A layer's own signature verifies to the layer's root, and the FORS signature
\* to the FORS key (MerkleForest, SignerVerifierAgree; WotsChains, EndsAgree).
ASSUME LayerAssumption ==
    \A s \in Seeds, m \in Msgs, r \in Rands :
        LET f == Fields(s, m, r)
        IN  /\ ForsPkFromSig(s.pk, f.tree, f.leaf, f.md, ForsOf(s, f)) = MsgAt(s, f, 0)
            /\ \A k \in Layers :
                 XmssPkFromSig(s.pk, k, TreeAt(f, k), LeafAt(f, k), MsgAt(s, f, k),
                     XmssSign(s.sk, s.pk, k, TreeAt(f, k), LeafAt(f, k), MsgAt(s, f, k)))
                 = XmssRoot(s.sk, s.pk, k, TreeAt(f, k))

VARIABLES
    pc,            \* where the caller is
    sk,            \* the secret key: [seeds, pk_root]
    in,            \* the message and randomizer being signed: [msg, r]
    fields,        \* the parsed digest of the call in progress
    j,             \* the layer of the loop in progress
    layer_msg,     \* its input message
    cur_idx_tree, cur_idx_leaf,   \* sign's running indices
    sig_fors,      \* the signature sign builds: its FORS trees,
    sig_ht,        \*   and layer k of its hypertree part for each k pushed so far
    got,           \* the message and signature handed to verify: [msg, sig, change]
    node,          \* the root verify reconstructed last
    verdict,       \* what verify returned
    wits,          \* the witnesses ht_layer_witnesses pushed, by layer
    made,          \* signatures asked for (bounded by MaxSigs)
    used           \* history: what each WOTS key signed, over all signatures

signVars   == <<in, layer_msg, cur_idx_tree, cur_idx_leaf, sig_fors, sig_ht, used, made>>
verifyVars == <<got, node, verdict>>
vars == <<pc, sk, in, fields, j, layer_msg, cur_idx_tree, cur_idx_leaf, sig_fors, sig_ht,
          got, node, verdict, wits, made, used>>

NoTable == [k \in Layers |-> None]

\* What sign returns.  The two Vecs of a signature are functions on 0 .. len - 1.
Signature == [r |-> in.r, fors |-> sig_fors, ht |-> sig_ht]

Whole(sig) == DOMAIN sig.fors = Trees /\ DOMAIN sig.ht = Layers

Init ==
    /\ pc = "keygen"
    /\ sk = None /\ in = None /\ fields = None /\ j = 0
    /\ layer_msg = None /\ cur_idx_tree = {} /\ cur_idx_leaf = {}
    /\ sig_fors = None /\ sig_ht = NoTable
    /\ got = None /\ node = None /\ verdict = None /\ wits = NoTable
    /\ made = 0
    /\ used = {}

(***************************************************************************)
(* keygen: the root of the one tree of the top layer.                      *)
(***************************************************************************)
KeyGen(s) ==
    /\ pc = "keygen"
    /\ pc' = "idle"
    /\ sk' = [seeds |-> s, pk_root |-> TopRoot(s)]
    /\ UNCHANGED <<fields, j, wits, signVars, verifyVars>>

(***************************************************************************)
(* sign up to its hypertree loop: digest, FORS signature, FORS key.        *)
(***************************************************************************)
SignFors(m, r) ==
    LET f == Digest(r, sk.seeds.pk, sk.pk_root, m)
    IN  /\ pc = "idle"
        /\ made < MaxSigs
        /\ made' = made + 1
        /\ pc' = "signing"
        /\ in' = [msg |-> m, r |-> r]
        /\ fields' = f
        /\ sig_fors' = ForsOf(sk.seeds, f)
        /\ sig_ht' = NoTable
        /\ layer_msg' = ForsPk(sk.seeds.sk, sk.seeds.pk, f.tree, f.leaf)
        /\ cur_idx_tree' = f.tree
        /\ cur_idx_leaf' = f.leaf
        /\ j' = 0
        /\ UNCHANGED <<sk, wits, used, verifyVars>>

\* Faulty: the leaf of the next layer is not masked; is taken after the shift;
\* the next layer signs the message of this one.
FaultySignLayerUnmasked ==
    /\ pc = "signing"
    /\ j < D
    /\ sig_ht' = [sig_ht EXCEPT ![j] =
                    XmssSign(sk.seeds.sk, sk.seeds.pk, j, cur_idx_tree, cur_idx_leaf, layer_msg)]
    /\ used' = used \cup {[seeds |-> sk.seeds, layer |-> j, tree |-> cur_idx_tree,
                           leaf |-> cur_idx_leaf, msg |-> layer_msg]}
    /\ IF j < D - 1
       THEN /\ layer_msg' = XmssRoot(sk.seeds.sk, sk.seeds.pk, j, cur_idx_tree)
            /\ cur_idx_leaf' = cur_idx_tree
            /\ cur_idx_tree' = Shr(cur_idx_tree, HPRIME)
       ELSE UNCHANGED <<layer_msg, cur_idx_leaf, cur_idx_tree>>
    /\ j' = j + 1
    /\ UNCHANGED <<pc, sk, in, fields, sig_fors, wits, made, verifyVars>>

FaultySignLayerShiftsFirst ==
    /\ pc = "signing"
    /\ j < D
    /\ sig_ht' = [sig_ht EXCEPT ![j] =
                    XmssSign(sk.seeds.sk, sk.seeds.pk, j, cur_idx_tree, cur_idx_leaf, layer_msg)]
    /\ used' = used \cup {[seeds |-> sk.seeds, layer |-> j, tree |-> cur_idx_tree,
                           leaf |-> cur_idx_leaf, msg |-> layer_msg]}
    /\ IF j < D - 1
       THEN /\ layer_msg' = XmssRoot(sk.seeds.sk, sk.seeds.pk, j, cur_idx_tree)
            /\ cur_idx_leaf' = Low(Shr(cur_idx_tree, HPRIME), HPRIME)
            /\ cur_idx_tree' = Shr(cur_idx_tree, HPRIME)
       ELSE UNCHANGED <<layer_msg, cur_idx_leaf, cur_idx_tree>>
    /\ j' = j + 1
    /\ UNCHANGED <<pc, sk, in, fields, sig_fors, wits, made, verifyVars>>

FaultySignLayerKeepsMsg ==
    /\ pc = "signing"
    /\ j < D
    /\ sig_ht' = [sig_ht EXCEPT ![j] =
                    XmssSign(sk.seeds.sk, sk.seeds.pk, j, cur_idx_tree, cur_idx_leaf, layer_msg)]
    /\ used' = used \cup {[seeds |-> sk.seeds, layer |-> j, tree |-> cur_idx_tree,
                           leaf |-> cur_idx_leaf, msg |-> layer_msg]}
    /\ IF j < D - 1
       THEN /\ layer_msg' = layer_msg
            /\ cur_idx_leaf' = Low(cur_idx_tree, HPRIME)
            /\ cur_idx_tree' = Shr(cur_idx_tree, HPRIME)
       ELSE UNCHANGED <<layer_msg, cur_idx_leaf, cur_idx_tree>>
    /\ j' = j + 1
    /\ UNCHANGED <<pc, sk, in, fields, sig_fors, wits, made, verifyVars>>

(***************************************************************************)
(* One round of sign's hypertree loop.  The top layer leaves the running   *)
(* indices alone.                                                          *)
(***************************************************************************)
SignLayer ==
    /\ pc = "signing"
    /\ j < D
    /\ sig_ht' = [sig_ht EXCEPT ![j] =
                    XmssSign(sk.seeds.sk, sk.seeds.pk, j, cur_idx_tree, cur_idx_leaf, layer_msg)]
    /\ used' = used \cup {[seeds |-> sk.seeds, layer |-> j, tree |-> cur_idx_tree,
                           leaf |-> cur_idx_leaf, msg |-> layer_msg]}
    /\ IF j < D - 1
       THEN /\ layer_msg' = XmssRoot(sk.seeds.sk, sk.seeds.pk, j, cur_idx_tree)
            /\ cur_idx_leaf' = Low(cur_idx_tree, HPRIME)
            /\ cur_idx_tree' = Shr(cur_idx_tree, HPRIME)
       ELSE UNCHANGED <<layer_msg, cur_idx_leaf, cur_idx_tree>>
    /\ j' = j + 1
    /\ UNCHANGED <<pc, sk, in, fields, sig_fors, wits, made, verifyVars>>

(***************************************************************************)
(* sign returns.  What reaches verify is the same message and signature,   *)
(* or one that differs in one place: a damaged layer or FORS tree, another *)
(* message or randomizer (as the tests have it), or a Vec with an entry    *)
(* less or more, which the type of Signature allows.                       *)
(***************************************************************************)
Deliver(m, s, change) ==
    /\ pc' = "received"
    /\ got' = [msg |-> m, sig |-> s, change |-> change]
    /\ node' = None /\ verdict' = None
    /\ wits' = NoTable
    /\ UNCHANGED <<sk, fields, j, signVars>>

LayerDamaged(sig, k, p) == [sig EXCEPT !.ht[k] = Damage(@, p)]
TreeDamaged(sig, i, p)  == [sig EXCEPT !.fors[i] = Damage(@, p)]

\* The Vec v cut to n entries, or with a copy of the first one pushed.
Resized(v, n) == [i \in 0 .. n - 1 |-> IF i \in DOMAIN v THEN v[i] ELSE v[0]]

SignEnd ==
    /\ pc = "signing"
    /\ j = D
    /\ \/ Deliver(in.msg, Signature, "none")
       \/ \E k \in Layers, p \in Places : Deliver(in.msg, LayerDamaged(Signature, k, p), "part")
       \/ \E i \in Trees, p \in Places : Deliver(in.msg, TreeDamaged(Signature, i, p), "part")
       \/ \E n \in {D - 1, D + 1} :
            Deliver(in.msg, [Signature EXCEPT !.ht = Resized(@, n)], "length")
       \/ \E n \in {K_FORS - 1, K_FORS + 1} :
            Deliver(in.msg, [Signature EXCEPT !.fors = Resized(@, n)], "length")
       \/ \E m \in Msgs \ {in.msg} : Deliver(m, Signature, "input")
       \/ \E r \in Rands \ {in.r} : Deliver(in.msg, [Signature EXCEPT !.r = r], "input")

(***************************************************************************)
(* What verify and ht_layer_witnesses start with: the digest and the FORS  *)
(* key.  fors_pk_from_sig indexes sig_fors[i] for every tree, so a missing *)
(* one is an index panic; an extra one is never looked at.                 *)
(***************************************************************************)
GotFields == Digest(got.sig.r, sk.seeds.pk, sk.pk_root, got.msg)

Open(next) ==
    LET f == GotFields
    IN  /\ fields' = f
        /\ j' = 0
        /\ IF Trees \subseteq DOMAIN got.sig.fors
           THEN /\ pc' = next
                /\ layer_msg' = ForsPkFromSig(sk.seeds.pk, f.tree, f.leaf, f.md, got.sig.fors)
           ELSE pc' = "panic" /\ UNCHANGED layer_msg

\* Faulty: verify only counts the layers; it refuses too few entries only (< for !=).
FaultyVerifyStartLayersOnly ==
    /\ pc = "received"
    /\ IF DOMAIN got.sig.ht # Layers
       THEN /\ pc' = "judged" /\ verdict' = FALSE
            /\ UNCHANGED <<fields, layer_msg, j>>
       ELSE Open("verifying") /\ UNCHANGED verdict
    /\ UNCHANGED <<sk, in, cur_idx_tree, cur_idx_leaf, sig_fors, sig_ht, got, node, wits, used, made>>

FaultyVerifyStartTakesMore ==
    /\ pc = "received"
    /\ IF ~(Trees \subseteq DOMAIN got.sig.fors /\ Layers \subseteq DOMAIN got.sig.ht)
       THEN /\ pc' = "judged" /\ verdict' = FALSE
            /\ UNCHANGED <<fields, layer_msg, j>>
       ELSE Open("verifying") /\ UNCHANGED verdict
    /\ UNCHANGED <<sk, in, cur_idx_tree, cur_idx_leaf, sig_fors, sig_ht, got, node, wits, used, made>>

(***************************************************************************)
(* verify: both lengths first, then one layer per step.  Like Open's, the  *)
(* panic of a layer is that of the indexing itself; that it cannot happen  *)
(* behind the length check is PanicOnlyAfterReject.                        *)
(***************************************************************************)
VerifyStart ==
    /\ pc = "received"
    /\ IF DOMAIN got.sig.fors # Trees \/ DOMAIN got.sig.ht # Layers
       THEN /\ pc' = "judged" /\ verdict' = FALSE
            /\ UNCHANGED <<fields, layer_msg, j>>
       ELSE Open("verifying") /\ UNCHANGED verdict
    /\ UNCHANGED <<sk, in, cur_idx_tree, cur_idx_leaf, sig_fors, sig_ht, got, node, wits, used, made>>

LayerRoot(k) ==
    XmssPkFromSig(sk.seeds.pk, k, TreeAt(fields, k), LeafAt(fields, k), layer_msg, got.sig.ht[k])

VerifyLayer ==
    /\ pc = "verifying"
    /\ j < D
    /\ IF j \in DOMAIN got.sig.ht
       THEN /\ node' = LayerRoot(j)
            /\ layer_msg' = node'
            /\ j' = j + 1
            /\ UNCHANGED pc
       ELSE pc' = "panic" /\ UNCHANGED <<node, layer_msg, j>>
    /\ UNCHANGED <<sk, in, fields, cur_idx_tree, cur_idx_leaf, sig_fors, sig_ht, got, verdict, wits, used, made>>

VerifyEnd ==
    /\ pc = "verifying"
    /\ j = D
    /\ pc' = "judged"
    /\ verdict' = (node = sk.pk_root)
    /\ UNCHANGED <<sk, fields, j, got, node, wits, signVars>>

(***************************************************************************)
(* ht_layer_witnesses: the same walk over the same signature, with no      *)
(* length check, keeping both ends of every layer.                         *)
(***************************************************************************)
WitnessStart ==
    /\ pc = "judged"
    /\ Open("emitting")
    /\ UNCHANGED <<sk, in, cur_idx_tree, cur_idx_leaf, sig_fors, sig_ht, used, made, wits, verifyVars>>

WitnessOf(k) ==
    [tree_low |-> TreeAt(fields, k), idx_leaf |-> LeafAt(fields, k),
     prev_root |-> layer_msg, sig |-> got.sig.ht[k], next_root |-> LayerRoot(k)]

\* Faulty: the message of the first layer is kept for all of them.
FaultyWitnessLayer ==
    /\ pc = "emitting"
    /\ j < D
    /\ IF j \in DOMAIN got.sig.ht
       THEN /\ wits' = [wits EXCEPT ![j] = WitnessOf(j)]
            /\ j' = j + 1
            /\ UNCHANGED <<pc, layer_msg>>
       ELSE pc' = "panic" /\ UNCHANGED <<wits, layer_msg, j>>
    /\ UNCHANGED <<sk, in, fields, cur_idx_tree, cur_idx_leaf, sig_fors, sig_ht, used, made, verifyVars>>

WitnessLayer ==
    /\ pc = "emitting"
    /\ j < D
    /\ IF j \in DOMAIN got.sig.ht
       THEN /\ wits' = [wits EXCEPT ![j] = WitnessOf(j)]
            /\ layer_msg' = LayerRoot(j)
            /\ j' = j + 1
            /\ UNCHANGED pc
       ELSE pc' = "panic" /\ UNCHANGED <<wits, layer_msg, j>>
    /\ UNCHANGED <<sk, in, fields, cur_idx_tree, cur_idx_leaf, sig_fors, sig_ht, used, made, verifyVars>>

WitnessEnd ==
    /\ pc = "emitting"
    /\ j = D
    /\ pc' = "emitted"
    /\ UNCHANGED <<sk, fields, j, wits, signVars, verifyVars>>

(***************************************************************************)
(* The caller signs again with the same key; what it got before is gone.   *)
(***************************************************************************)
NextSignature ==
    /\ pc \in {"emitted", "panic"}
    /\ made < MaxSigs
    /\ pc' = "idle"
    /\ got' = None /\ node' = None /\ verdict' = None /\ wits' = NoTable
    /\ UNCHANGED <<sk, fields, j, signVars>>

Finished == pc \in {"idle", "emitted", "panic"} /\ made = MaxSigs /\ UNCHANGED vars

Next ==
    \/ \E s \in Seeds : KeyGen(s)
    \/ \E m \in Msgs, r \in Rands : SignFors(m, r)
    \/ SignLayer \/ SignEnd
    \/ VerifyStart \/ VerifyLayer \/ VerifyEnd
    \/ WitnessStart \/ WitnessLayer \/ WitnessEnd
    \/ NextSignature \/ Finished

Spec == Init /\ [][Next]_vars
-----------------------------------------------------------------------------
TypeOK ==
    /\ pc \in {"keygen", "idle", "signing", "received", "verifying", "judged",
               "emitting", "emitted", "panic"}
    /\ j \in 0 .. D /\ made \in 0 .. MaxSigs
    /\ cur_idx_tree \in Bits(HPRIME * (D - 1)) /\ cur_idx_leaf \in Bits(HPRIME)
    /\ verdict \in BOOLEAN \cup {None}
    /\ DOMAIN sig_ht = Layers /\ DOMAIN wits = Layers

(***************************************************************************)
(* The indices sign carries from layer to layer are at every layer the     *)
(* ones verify and ht_layer_witnesses get by shifting idx_tree, and the    *)
(* message sign signs there is the root of the tree below.                 *)
(***************************************************************************)
IndexAgreement ==
    pc = "signing" /\ j < D =>
        /\ cur_idx_tree = TreeAt(fields, j)
        /\ cur_idx_leaf = LeafAt(fields, j)
        /\ layer_msg = MsgAt(sk.seeds, fields, j)

(***************************************************************************)
(* A WOTS key is one-time: over all the signatures a key pair makes, each  *)
(* (layer, tree, leaf) only ever signs one message (sign has no state that *)
(* would remember which keys it used).                                     *)
(***************************************************************************)
OneMessagePerWotsKey ==
    \A a, b \in used :
        (a.seeds = b.seeds /\ a.layer = b.layer /\ a.tree = b.tree /\ a.leaf = b.leaf)
            => a.msg = b.msg

(***************************************************************************)
(* verify accepts what sign returns (test sign_then_verify_roundtrip, for  *)
(* every digest).                                                          *)
(***************************************************************************)
HonestAccepted == pc = "judged" /\ got.change = "none" => verdict = TRUE

(***************************************************************************)
(* verify refuses a signature with any layer or FORS tree damaged (test    *)
(* tampered_signature_fails flips one byte of layer 0 only), one too few   *)
(* or one too many, and one for another message or randomizer unless it    *)
(* has the same digest (test wrong_message_fails).                         *)
(***************************************************************************)
AlteredRejected ==
    pc = "judged" /\ got.change # "none" =>
        \/ verdict = FALSE
        \/ /\ got.change = "input"
           /\ GotFields = Fields(sk.seeds, in.msg, in.r)

(***************************************************************************)
(* What AlteredRejected needs of the hash: on the walks that verify makes  *)
(* over the signatures of SignEnd, no layer comes to the honest root from  *)
(* another leaf, message or part, nor FORS to the honest key.  These are   *)
(* finitely many walks; over all inputs no hash is free of collisions.     *)
(***************************************************************************)
\* The digests the signer can meet under seeds s.
Digests(s) == {Fields(s, mr[1], mr[2]) : mr \in Msgs \X Rands}

HonestSig(s, f) ==
    [fors |-> ForsOf(s, f),
     ht   |-> [k \in Layers |->
                 XmssSign(s.sk, s.pk, k, TreeAt(f, k), LeafAt(f, k), MsgAt(s, f, k))]]

\* What passes verify's length check after signing the digest f: the signature with a
\* layer or tree damaged, or as it was, along with a message and randomizer of any digest.
Handed(s, f) ==
    LET sig == HonestSig(s, f)
    IN  {[on |-> g, sig |-> sig] : g \in Digests(s)}
        \cup {[on |-> f, sig |-> TreeDamaged(sig, i, p)] : i \in Trees, p \in Places}
        \cup {[on |-> f, sig |-> LayerDamaged(sig, k, p)] : k \in Layers, p \in Places}

\* What verify computes before each layer of sig, and at D the root it compares.
RootsOf(s, g, sig) ==
    LET w[k \in 0 .. D] ==
          IF k = 0 THEN ForsPkFromSig(s.pk, g.tree, g.leaf, g.md, sig.fors)
          ELSE XmssPkFromSig(s.pk, k - 1, TreeAt(g, k - 1), LeafAt(g, k - 1), w[k - 1], sig.ht[k - 1])
    IN  w

LayerBinds(s, f, e, k) ==
    /\ TreeAt(e.on, k) = TreeAt(f, k)
    /\ RootsOf(s, e.on, e.sig)[k + 1] = XmssRoot(s.sk, s.pk, k, TreeAt(f, k))
    => /\ LeafAt(e.on, k) = LeafAt(f, k)
       /\ RootsOf(s, e.on, e.sig)[k] = MsgAt(s, f, k)
       /\ e.sig.ht[k] = HonestSig(s, f).ht[k]

ForsBinds(s, f, e) ==
    /\ e.on.tree = f.tree /\ e.on.leaf = f.leaf
    /\ RootsOf(s, e.on, e.sig)[0] = ForsPk(s.sk, s.pk, f.tree, f.leaf)
    => e.on = f /\ e.sig.fors = HonestSig(s, f).fors

\* A flipped byte is another value.
DamageShows(s, f) ==
    LET sig == HonestSig(s, f)
    IN  \A p \in Places :
          /\ \A i \in Trees : Damage(sig.fors[i], p) # sig.fors[i]
          /\ \A k \in Layers : Damage(sig.ht[k], p) # sig.ht[k]

NoCollision ==
    \A s \in Seeds : \A f \in Digests(s) :
        /\ DamageShows(s, f)
        /\ \A e \in Handed(s, f) : ForsBinds(s, f, e) /\ \A k \in Layers : LayerBinds(s, f, e, k)

(***************************************************************************)
(* The emitted witnesses are the links of one chain: each layer starts     *)
(* from the root below it, at the tree and leaf the layer below belongs    *)
(* to.  verify accepts exactly the signatures of the right lengths whose   *)
(* last witness ends at pk_root: one entry too many and the same chain is  *)
(* emitted for a signature that verify refuses.                            *)
(***************************************************************************)
WitnessesChain ==
    pc = "emitted" =>
        /\ \A k \in 1 .. D - 1 :
             /\ wits[k].prev_root = wits[k - 1].next_root
             /\ wits[k - 1].tree_low = Shl(wits[k].tree_low, HPRIME) \cup wits[k].idx_leaf
             /\ wits[k].idx_leaf \in Bits(HPRIME)
        /\ wits[D - 1].tree_low = {}
        /\ verdict = (Whole(got.sig) /\ wits[D - 1].next_root = sk.pk_root)

(***************************************************************************)
(* Neither walk runs out of a signature's trees or layers, except that of  *)
(* ht_layer_witnesses over one that verify has refused: verify's length    *)
(* check comes before its own first index, and a caller that asked verify  *)
(* first (as the CLI does) is spared the panic of the other.               *)
(***************************************************************************)
PanicOnlyAfterReject == pc = "panic" => verdict = FALSE
=============================================================================
