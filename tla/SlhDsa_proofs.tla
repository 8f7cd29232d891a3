--------------------------- MODULE SlhDsa_proofs ----------------------------
(***************************************************************************)
(* For every number of layers and height (HPRIME * D <= 64), every hash    *)
(* and every bound on the signatures made: the two index computations      *)
(* agree, a WOTS key signs one message, and what sign returns verifies.    *)
(* Where the hash has no collision on the walks that verify makes, an      *)
(* altered signature does not.                                             *)
(***************************************************************************)
EXTENDS SlhDsa, WellFoundedInduction, TLAPS

\* Shifting by nothing leaves a u64 as it is.
LEMMA ShrZero == ASSUME NEW x \in Word PROVE Shr(x, 0) = x
<1>1. \A e \in BitPos : e + 0 = e  BY DEF BitPos
<1>2. x \subseteq BitPos  BY DEF Word
<1> QED  BY <1>1, <1>2 DEF Shr

\* Two right shifts are one: the signer's iterated idx >>= 1 and >>= H' meet
\* the verifier's single shift of the original index.
LEMMA ShrShr ==
  ASSUME NEW x \in Word, NEW a \in Nat, NEW c \in Nat
  PROVE  Shr(Shr(x, a), c) = Shr(x, a + c)
<1>1. ASSUME NEW e \in Shr(Shr(x, a), c) PROVE e \in Shr(x, a + c)
  BY <1>1 DEF Word, Shr, BitPos
<1>2. ASSUME NEW e \in Shr(x, a + c) PROVE e \in Shr(Shr(x, a), c)
  <2>1. e \in BitPos /\ e + (a + c) \in x  BY <1>2 DEF Shr
  <2>2. e + c \in BitPos  BY <2>1 DEF BitPos, Word
  <2>3. (e + c) + a \in x  BY <2>1 DEF BitPos
  <2> QED  BY <2>1, <2>2, <2>3 DEF Shr
<1> QED  BY <1>1, <1>2

\* A shift of a narrow word is narrower still, and every shift is a u64.
LEMMA ShrNarrows ==
  ASSUME NEW w \in Nat, NEW k \in 0 .. w, NEW x \in Bits(w)
  PROVE  Shr(x, k) \in Bits(w - k)
  BY DEF Bits, Shr, BitPos

LEMMA ShrWord == ASSUME NEW x, NEW k PROVE Shr(x, k) \in Word
  BY DEF Shr, Word

LEMMA BitsAreWords == ASSUME NEW w \in 0 .. 64, NEW x \in Bits(w) PROVE x \in Word
  BY DEF Bits, Word, BitPos

\* A mask keeps a word below the mask.
LEMMA LowNarrows ==
  ASSUME NEW x \in Word, NEW k \in Nat PROVE Low(x, k) \in Bits(k)
<1>1. ASSUME NEW e \in Low(x, k) PROVE e \in 0 .. k - 1
  <2>1. e \in BitPos /\ e < k  BY <1>1 DEF Low, Word
  <2> QED  BY <2>1 DEF BitPos
<1> QED  BY <1>1 DEF Bits

\* A word is determined by its low k bits and the rest: two indices that agree
\* on the leaf part and on the tree part are the same index.
LEMMA SplitInjective ==
  ASSUME NEW x \in Word, NEW y \in Word, NEW k \in Nat,
         Shr(x, k) = Shr(y, k), Low(x, k) = Low(y, k)
  PROVE  x = y
<1>1. ASSUME NEW u \in Word, NEW v \in Word, NEW e \in u,
             Shr(u, k) = Shr(v, k), Low(u, k) = Low(v, k)
      PROVE  e \in v
  <2>1. e \in BitPos  BY DEF Word
  <2>2. CASE e < k  BY <2>2, <1>1 DEF Low
  <2>3. CASE ~(e < k)
    <3>1. e - k \in BitPos /\ (e - k) + k = e  BY <2>1, <2>3 DEF BitPos
    <3>2. e - k \in Shr(u, k)  BY <3>1 DEF Shr
    <3>3. e - k \in Shr(v, k)  BY <3>2, <1>1
    <3> QED  BY <3>1, <3>3 DEF Shr
  <2> QED  BY <2>2, <2>3
<1>2. \A e \in x : e \in y  BY <1>1
<1>3. \A e \in y : e \in x  BY <1>1
<1> QED  BY <1>2, <1>3
-----------------------------------------------------------------------------
InvKey == pc # "keygen" => sk.seeds \in Seeds /\ sk.pk_root = TopRoot(sk.seeds)

\* The digest of the signature being made or judged.
Own == Fields(sk.seeds, in.msg, in.r)

Busy == pc \in {"signing", "received", "verifying", "judged", "emitting"}

InvInput == Busy => in.msg \in Msgs /\ in.r \in Rands

HtSigned(f, top) ==
    \A k \in 0 .. top - 1 :
        sig_ht[k] = XmssSign(sk.seeds.sk, sk.seeds.pk, k, TreeAt(f, k), LeafAt(f, k),
                             MsgAt(sk.seeds, f, k))

ForsSigned(f) == sig_fors = ForsOf(sk.seeds, f)

InvSign ==
    pc = "signing" =>
        /\ j \in 0 .. D
        /\ fields = Own
        /\ ForsSigned(Own) /\ HtSigned(Own, j) /\ DOMAIN sig_ht = Layers
        /\ j < D => /\ cur_idx_tree = TreeAt(Own, j)
                    /\ cur_idx_leaf = LeafAt(Own, j)
                    /\ layer_msg = MsgAt(sk.seeds, Own, j)

InvUsed ==
    \A e \in used :
        /\ e.seeds \in Seeds /\ e.layer \in Layers
        /\ \E f \in Digests(e.seeds) :
             /\ e.tree = TreeAt(f, e.layer)
             /\ e.leaf = LeafAt(f, e.layer)
             /\ e.msg = MsgAt(e.seeds, f, e.layer)

InvReceived ==
    pc \in {"received", "verifying"} /\ got.change = "none" =>
        /\ got.msg = in.msg /\ got.sig = Signature
        /\ ForsSigned(Own) /\ HtSigned(Own, D) /\ DOMAIN sig_ht = Layers

InvVerify ==
    pc = "verifying" /\ got.change = "none" =>
        /\ j \in 0 .. D
        /\ fields = Own
        /\ layer_msg = MsgAt(sk.seeds, Own, j)
        /\ j > 0 => node = layer_msg

IInv == InvKey /\ InvInput /\ InvSign /\ InvUsed /\ InvReceived /\ InvVerify /\ HonestAccepted
-----------------------------------------------------------------------------
USE SizeAssumption

LEMMA InDigests ==
  ASSUME NEW s, NEW m \in Msgs, NEW r \in Rands PROVE Fields(s, m, r) \in Digests(s)
<1> DEFINE mr == <<m, r>>
<1>1. mr \in Msgs \X Rands /\ mr[1] = m /\ mr[2] = r  OBVIOUS
<1> QED  BY <1>1 DEF Digests

\* A digest the signer meets has indices of the promised widths.
LEMMA DigestWidths ==
  ASSUME NEW s \in Seeds, NEW f \in Digests(s)
  PROVE  f.tree \in Bits(HPRIME * (D - 1)) /\ f.leaf \in Bits(HPRIME) /\ f.tree \in Word
<1>1. PICK m \in Msgs, r \in Rands : f = Fields(s, m, r)
  BY DEF Digests
<1>2. f.tree \in Bits(HPRIME * (D - 1)) /\ f.leaf \in Bits(HPRIME)
  BY <1>1, DigestAssumption
<1>3. HPRIME * (D - 1) \in 0 .. 64
  <2>1. HPRIME * (D - 1) = HPRIME * D - HPRIME  BY DEF SizeAssumption
  <2>2. D - 1 \in Nat /\ HPRIME \in Nat  BY DEF SizeAssumption
  <2>3. HPRIME * (D - 1) \in Nat  BY <2>2
  <2> QED  BY <2>1, <2>3 DEF SizeAssumption
<1> QED  BY <1>2, <1>3, BitsAreWords

\* verify's shift of the original index, also at layer 0.
LEMMA TreeIsShift ==
  ASSUME NEW f, f.tree \in Word, NEW k \in Nat
  PROVE  TreeAt(f, k) = Shr(f.tree, HPRIME * k)
<1>1. CASE k = 0
  <2>1. HPRIME * k = 0  BY <1>1 DEF SizeAssumption
  <2> QED  BY <1>1, <2>1, ShrZero DEF TreeAt
<1>2. CASE k # 0  BY <1>2 DEF TreeAt
<1> QED  BY <1>1, <1>2

\* Going up one layer the way sign does is going up the way verify does.
LEMMA NextLayer ==
  ASSUME NEW f, f.tree \in Word, NEW k \in Nat
  PROVE  /\ TreeAt(f, k + 1) = Shr(TreeAt(f, k), HPRIME)
         /\ LeafAt(f, k + 1) = Low(TreeAt(f, k), HPRIME)
<1>1. HPRIME * (k + 1) = HPRIME * k + HPRIME /\ HPRIME * k \in Nat /\ HPRIME \in Nat
  BY DEF SizeAssumption
<1>2. Shr(Shr(f.tree, HPRIME * k), HPRIME) = Shr(f.tree, HPRIME * k + HPRIME)
  BY <1>1, ShrShr
<1>3. TreeAt(f, k) = Shr(f.tree, HPRIME * k)  BY TreeIsShift
<1>4. TreeAt(f, k + 1) = Shr(f.tree, HPRIME * (k + 1))
  <2>1. k + 1 # 0  OBVIOUS
  <2> QED  BY <2>1 DEF TreeAt
<1>5. LeafAt(f, k + 1) = Low(Shr(f.tree, HPRIME * k), HPRIME)
  <2>1. k + 1 # 0 /\ (k + 1) - 1 = k  OBVIOUS
  <2> QED  BY <2>1 DEF LeafAt
<1> QED  BY <1>1, <1>2, <1>3, <1>4, <1>5

\* The top layer has one tree: idx_tree holds exactly the layers below it.
LEMMA TopTree ==
  ASSUME NEW s \in Seeds, NEW f \in Digests(s)
  PROVE  TreeAt(f, D - 1) = {}
<1>1. f.tree \in Bits(HPRIME * (D - 1)) /\ f.tree \in Word  BY DigestWidths
<1>2. D - 1 \in Nat /\ HPRIME \in Nat  BY DEF SizeAssumption
<1>3. TreeAt(f, D - 1) = Shr(f.tree, HPRIME * (D - 1))  BY <1>1, <1>2, TreeIsShift
<1> DEFINE w == HPRIME * (D - 1)
<1>4. w \in Nat  BY <1>2
<1> HIDE DEF w
<1>5. Shr(f.tree, w) \in Bits(w - w)
  <2>1. w \in 0 .. w  BY <1>4
  <2> QED  BY <1>1, <1>4, <2>1, ShrNarrows DEF w
<1>6. 0 .. (w - w) - 1 = {}  BY <1>4
<1> QED  BY <1>3, <1>5, <1>6 DEF Bits, w

\* Two digests that reach the same key at a layer sign the same message there.
LEMMA KeyDeterminesMsg ==
  ASSUME NEW s \in Seeds, NEW f \in Digests(s), NEW g \in Digests(s), NEW k \in Layers,
         TreeAt(f, k) = TreeAt(g, k), LeafAt(f, k) = LeafAt(g, k)
  PROVE  MsgAt(s, f, k) = MsgAt(s, g, k)
<1>1. CASE k = 0  BY <1>1 DEF MsgAt, TreeAt, LeafAt
<1>2. CASE k # 0
  <2>1. k - 1 \in Nat /\ (k - 1) + 1 = k  BY <1>2 DEF Layers
  <2>2. f.tree \in Word /\ g.tree \in Word  BY DigestWidths
  <2>3. /\ TreeAt(f, k) = Shr(TreeAt(f, k - 1), HPRIME) /\ LeafAt(f, k) = Low(TreeAt(f, k - 1), HPRIME)
        /\ TreeAt(g, k) = Shr(TreeAt(g, k - 1), HPRIME) /\ LeafAt(g, k) = Low(TreeAt(g, k - 1), HPRIME)
    BY <2>1, <2>2, NextLayer
  <2>4. TreeAt(f, k - 1) \in Word /\ TreeAt(g, k - 1) \in Word
    BY <2>1, <2>2, TreeIsShift, ShrWord
  <2>5. TreeAt(f, k - 1) = TreeAt(g, k - 1)
    <3>1. HPRIME \in Nat  BY DEF SizeAssumption
    <3> QED  BY <2>3, <2>4, <3>1, SplitInjective
  <2> QED  BY <1>2, <2>5 DEF MsgAt
<1> QED  BY <1>1, <1>2

\* Honest layers verify to the message of the next one, and the last to pk_root.
LEMMA LayerUp ==
  ASSUME NEW s \in Seeds, NEW f \in Digests(s), NEW k \in Layers
  PROVE  XmssPkFromSig(s.pk, k, TreeAt(f, k), LeafAt(f, k), MsgAt(s, f, k),
             XmssSign(s.sk, s.pk, k, TreeAt(f, k), LeafAt(f, k), MsgAt(s, f, k)))
         = MsgAt(s, f, k + 1)
<1>1. PICK m \in Msgs, r \in Rands : f = Fields(s, m, r)  BY DEF Digests
<1>2. k + 1 # 0 /\ (k + 1) - 1 = k  BY DEF Layers
<1>3. MsgAt(s, f, k + 1) = XmssRoot(s.sk, s.pk, k, TreeAt(f, k))  BY <1>2 DEF MsgAt
<1> QED  BY <1>1, <1>3, LayerAssumption

LEMMA ForsUp ==
  ASSUME NEW s \in Seeds, NEW f \in Digests(s)
  PROVE  ForsPkFromSig(s.pk, f.tree, f.leaf, f.md, ForsOf(s, f)) = MsgAt(s, f, 0)
<1>1. PICK m \in Msgs, r \in Rands : f = Fields(s, m, r)  BY DEF Digests
<1> QED  BY <1>1, LayerAssumption

LEMMA TopMsg ==
  ASSUME NEW s \in Seeds, NEW f \in Digests(s)
  PROVE  MsgAt(s, f, D) = TopRoot(s)
<1>1. D # 0  BY DEF SizeAssumption
<1> QED  BY <1>1, TopTree DEF MsgAt, TopRoot
-----------------------------------------------------------------------------
\* verify's first step takes one of two ways: the panic of Open is behind the check.
LEMMA VerifyStarts ==
  ASSUME VerifyStart
  PROVE  /\ pc = "received"
         /\ UNCHANGED <<sk, in, cur_idx_tree, cur_idx_leaf, sig_fors, sig_ht, got, node, wits, used, made>>
         /\ \/ /\ ~Whole(got.sig) /\ pc' = "judged" /\ verdict' = FALSE
               /\ UNCHANGED <<fields, layer_msg, j>>
            \/ /\ Whole(got.sig) /\ pc' = "verifying" /\ verdict' = verdict
               /\ j' = 0 /\ fields' = GotFields
               /\ layer_msg' = ForsPkFromSig(sk.seeds.pk, GotFields.tree, GotFields.leaf, GotFields.md, got.sig.fors)
  BY DEF VerifyStart, Open, Whole

LEMMA InitInv == Init => IInv
  BY DEF Init, IInv, InvKey, InvInput, Busy, InvSign, InvUsed, InvReceived, InvVerify, HonestAccepted

LEMMA InvStep == IInv /\ [Next]_vars => IInv'
<1> SUFFICES ASSUME IInv, [Next]_vars PROVE IInv'
  OBVIOUS
<1>0. InvKey /\ InvInput /\ InvSign /\ InvUsed /\ InvReceived /\ InvVerify /\ HonestAccepted
  BY DEF IInv
<1>1. ASSUME NEW s \in Seeds, KeyGen(s) PROVE IInv'
  <2>1. sk'.seeds = s /\ sk'.pk_root = TopRoot(s) /\ pc' = "idle" /\ used' = used
    BY <1>1 DEF KeyGen, signVars
  <2>2. InvKey'  BY <2>1 DEF InvKey
  <2>3. InvUsed'  BY <1>0, <2>1 DEF InvUsed
  <2> QED
    BY <2>1, <2>2, <2>3 DEF IInv, InvInput, Busy, InvSign, InvReceived, InvVerify, HonestAccepted
<1>2. ASSUME NEW m \in Msgs, NEW r \in Rands, SignFors(m, r) PROVE IInv'
  <2> DEFINE f == Digest(r, sk.seeds.pk, sk.pk_root, m)
  <2>1. /\ pc = "idle" /\ pc' = "signing" /\ in' = [msg |-> m, r |-> r] /\ fields' = f
        /\ sig_fors' = ForsOf(sk.seeds, f)
        /\ sig_ht' = NoTable
        /\ layer_msg' = ForsPk(sk.seeds.sk, sk.seeds.pk, f.tree, f.leaf)
        /\ cur_idx_tree' = f.tree /\ cur_idx_leaf' = f.leaf /\ j' = 0
        /\ sk' = sk /\ used' = used
    BY <1>2 DEF SignFors
  <2>2. sk.seeds \in Seeds /\ sk.pk_root = TopRoot(sk.seeds)  BY <1>0, <2>1 DEF InvKey
  <2>3. f = Fields(sk.seeds, m, r) /\ Own' = f  BY <2>1, <2>2 DEF Fields, Own
  <2> HIDE DEF f
  <2>4. InvKey' /\ InvInput'  BY <2>1, <2>2 DEF InvKey, InvInput
  <2>5. InvSign'
    <3>1. j' \in 0 .. D /\ 0 .. j' - 1 = {}  BY <2>1 DEF SizeAssumption
    <3>2. ForsSigned(Own)' /\ HtSigned(Own, j)' /\ DOMAIN sig_ht' = Layers
      BY <2>1, <2>3, <3>1 DEF ForsSigned, HtSigned, NoTable
    <3>3. /\ cur_idx_tree' = TreeAt(Own', j') /\ cur_idx_leaf' = LeafAt(Own', j')
          /\ layer_msg' = MsgAt(sk'.seeds, Own', j')
      BY <2>1, <2>3 DEF TreeAt, LeafAt, MsgAt
    <3> QED  BY <2>1, <2>3, <3>1, <3>2, <3>3 DEF InvSign
  <2>6. InvUsed'  BY <1>0, <2>1 DEF InvUsed
  <2> QED  BY <2>1, <2>4, <2>5, <2>6 DEF IInv, InvReceived, InvVerify, HonestAccepted
<1>3. CASE SignLayer
  <2>1. /\ pc = "signing" /\ j < D /\ j' = j + 1
        /\ sig_ht' = [sig_ht EXCEPT ![j] = XmssSign(sk.seeds.sk, sk.seeds.pk, j, cur_idx_tree,
                                                    cur_idx_leaf, layer_msg)]
        /\ used' = used \cup {[seeds |-> sk.seeds, layer |-> j, tree |-> cur_idx_tree,
                                leaf |-> cur_idx_leaf, msg |-> layer_msg]}
        /\ UNCHANGED <<pc, sk, in, fields, sig_fors>>
    BY <1>3 DEF SignLayer
  <2>2. /\ j \in Layers /\ fields = Own /\ ForsSigned(Own) /\ HtSigned(Own, j)
        /\ DOMAIN sig_ht = Layers
        /\ cur_idx_tree = TreeAt(Own, j) /\ cur_idx_leaf = LeafAt(Own, j)
        /\ layer_msg = MsgAt(sk.seeds, Own, j)
    BY <1>0, <2>1 DEF InvSign, Layers, SizeAssumption
  <2>3. sk.seeds \in Seeds /\ sk.pk_root = TopRoot(sk.seeds) /\ in.msg \in Msgs /\ in.r \in Rands
    BY <1>0, <2>1 DEF InvKey, InvInput, Busy
  <2>4. Own \in Digests(sk.seeds) /\ Own' = Own  BY <2>1, <2>3, InDigests DEF Own
  <2>5. InvKey' /\ InvInput'  BY <2>1, <2>3 DEF InvKey, InvInput
  <2>6. InvUsed'
    <3> DEFINE new == [seeds |-> sk.seeds, layer |-> j, tree |-> cur_idx_tree,
                       leaf |-> cur_idx_leaf, msg |-> layer_msg]
    <3>1. new.seeds = sk.seeds /\ new.layer = j /\ new.tree = cur_idx_tree
          /\ new.leaf = cur_idx_leaf /\ new.msg = layer_msg
      OBVIOUS
    <3>2. used' = used \cup {new}  BY <2>1
    <3> HIDE DEF new
    <3>3. /\ new.seeds \in Seeds /\ new.layer \in Layers
          /\ \E f \in Digests(new.seeds) :
               new.tree = TreeAt(f, new.layer) /\ new.leaf = LeafAt(f, new.layer)
               /\ new.msg = MsgAt(new.seeds, f, new.layer)
      BY <2>2, <2>3, <2>4, <3>1
    <3> QED  BY <1>0, <3>2, <3>3 DEF InvUsed
  <2>7. InvSign'
    <3>1. j' \in 0 .. D /\ j \in Nat  BY <2>1, <2>2 DEF Layers
    <3>2. /\ sig_ht'[j] = XmssSign(sk.seeds.sk, sk.seeds.pk, j, TreeAt(Own, j), LeafAt(Own, j),
                                   MsgAt(sk.seeds, Own, j))
          /\ \A k \in Layers : k # j => sig_ht'[k] = sig_ht[k]
          /\ DOMAIN sig_ht' = Layers
      BY <2>1, <2>2
    <3>3. \A k \in 0 .. j : k \in Layers /\ (k = j \/ k \in 0 .. j - 1)
      BY <2>2 DEF Layers
    <3>4. 0 .. j' - 1 = 0 .. j  BY <2>1, <3>1
    <3>5. \A k \in 0 .. j :
             sig_ht'[k] = XmssSign(sk.seeds.sk, sk.seeds.pk, k, TreeAt(Own, k), LeafAt(Own, k),
                                   MsgAt(sk.seeds, Own, k))
      BY <2>2, <3>2, <3>3 DEF HtSigned
    <3>6. HtSigned(Own, j)'  BY <2>1, <2>4, <3>4, <3>5 DEF HtSigned
    <3>7. ForsSigned(Own)'  BY <2>1, <2>2, <2>4 DEF ForsSigned
    <3>8. ASSUME j' < D
          PROVE  /\ cur_idx_tree' = TreeAt(Own, j + 1) /\ cur_idx_leaf' = LeafAt(Own, j + 1)
                 /\ layer_msg' = MsgAt(sk.seeds, Own, j + 1)
      <4>1. j < D - 1  BY <2>1, <3>1, <3>8 DEF SizeAssumption
      <4>2. /\ layer_msg' = XmssRoot(sk.seeds.sk, sk.seeds.pk, j, cur_idx_tree)
            /\ cur_idx_leaf' = Low(cur_idx_tree, HPRIME)
            /\ cur_idx_tree' = Shr(cur_idx_tree, HPRIME)
        BY <1>3, <4>1 DEF SignLayer
      <4>3. Own.tree \in Word  BY <2>3, <2>4, DigestWidths
      <4>4. TreeAt(Own, j + 1) = Shr(TreeAt(Own, j), HPRIME)
            /\ LeafAt(Own, j + 1) = Low(TreeAt(Own, j), HPRIME)
        BY <3>1, <4>3, NextLayer
      <4>5. MsgAt(sk.seeds, Own, j + 1) = XmssRoot(sk.seeds.sk, sk.seeds.pk, j, TreeAt(Own, j))
        <5>1. j + 1 # 0 /\ (j + 1) - 1 = j  BY <3>1
        <5> QED  BY <5>1 DEF MsgAt
      <4> QED  BY <2>2, <4>2, <4>4, <4>5
    <3>9. fields' = Own' /\ sk' = sk /\ Own' = Own  BY <2>1, <2>2, <2>4
    <3>10. j' < D => /\ cur_idx_tree' = TreeAt(Own', j') /\ cur_idx_leaf' = LeafAt(Own', j')
                     /\ layer_msg' = MsgAt(sk'.seeds, Own', j')
      BY <2>1, <3>8, <3>9
    <3> QED  BY <3>1, <3>2, <3>6, <3>7, <3>9, <3>10 DEF InvSign
  <2> QED  BY <2>1, <2>5, <2>6, <2>7 DEF IInv, InvReceived, InvVerify, HonestAccepted
<1>4. CASE SignEnd
  <2>1. /\ pc = "signing" /\ j = D /\ pc' = "received"
        /\ UNCHANGED <<sk, in, used, sig_fors, sig_ht>>
    BY <1>4 DEF SignEnd, Deliver, signVars
  <2>2. ForsSigned(Own) /\ HtSigned(Own, D) /\ DOMAIN sig_ht = Layers  BY <1>0, <2>1 DEF InvSign
  <2>3. got'.change = "none" => got'.msg = in.msg /\ got'.sig = Signature
    BY <1>4 DEF SignEnd, Deliver
  <2>4. Own' = Own /\ Signature' = Signature  BY <2>1 DEF Own, Signature
  <2>5. InvReceived'
    BY <2>1, <2>2, <2>3, <2>4 DEF InvReceived, ForsSigned, HtSigned
  <2>6. InvKey' /\ InvInput' /\ InvUsed'
    BY <1>0, <2>1 DEF InvKey, InvInput, InvUsed, Busy
  <2> QED  BY <2>1, <2>5, <2>6 DEF IInv, InvSign, InvVerify, HonestAccepted
<1>5. CASE VerifyStart
  <2>1. /\ pc = "received" /\ UNCHANGED <<sk, in, sig_fors, sig_ht, got, used>>
        /\ \/ ~Whole(got.sig) /\ pc' = "judged" /\ verdict' = FALSE
           \/ Whole(got.sig) /\ pc' = "verifying" /\ j' = 0 /\ fields' = GotFields
              /\ layer_msg' = ForsPkFromSig(sk.seeds.pk, GotFields.tree, GotFields.leaf, GotFields.md, got.sig.fors)
    BY <1>5, VerifyStarts
  <2>2. InvKey' /\ InvInput' /\ InvUsed'
    BY <1>0, <2>1 DEF InvKey, InvInput, InvUsed, Busy
  <2>3. Own' = Own /\ Signature' = Signature  BY <2>1 DEF Own, Signature
  <2>4. got.change = "none" => /\ got.msg = in.msg /\ got.sig = Signature /\ DOMAIN sig_ht = Layers
                              /\ ForsSigned(Own) /\ HtSigned(Own, D)
    BY <1>0, <2>1 DEF InvReceived
  <2>5. InvReceived'
    BY <2>1, <2>3, <2>4 DEF InvReceived, ForsSigned, HtSigned
  <2>6. HonestAccepted'
    <3>1. got.change = "none" => Whole(got.sig)  BY <2>4 DEF Signature, Whole, ForsSigned, ForsOf
    <3> QED  BY <2>1, <3>1 DEF HonestAccepted
  <2>7. InvVerify'
    <3> SUFFICES ASSUME pc' = "verifying", got'.change = "none"
                 PROVE  /\ j' \in 0 .. D /\ fields' = Own'
                        /\ layer_msg' = MsgAt(sk'.seeds, Own', j') /\ ~(j' > 0)
      BY DEF InvVerify
    <3>1. got.change = "none"  BY <2>1
    <3>2. GotFields = Own
      <4>1. got.msg = in.msg /\ got.sig.r = in.r  BY <2>4, <3>1 DEF Signature
      <4>2. sk.pk_root = TopRoot(sk.seeds)  BY <1>0, <2>1 DEF InvKey
      <4> QED  BY <4>1, <4>2 DEF GotFields, Own, Fields
    <3>3. /\ fields' = Own /\ j' = 0
          /\ layer_msg' = ForsPkFromSig(sk.seeds.pk, Own.tree, Own.leaf, Own.md, got.sig.fors)
      BY <2>1, <3>2
    <3>4. got.sig.fors = ForsOf(sk.seeds, Own)
      BY <2>4, <3>1 DEF Signature, ForsSigned
    <3>5. sk.seeds \in Seeds /\ Own \in Digests(sk.seeds)
      BY <1>0, <2>1, InDigests DEF InvKey, InvInput, Busy, Own
    <3>6. layer_msg' = MsgAt(sk.seeds, Own, 0)  BY <3>3, <3>4, <3>5, ForsUp
    <3> QED  BY <2>1, <2>3, <3>3, <3>6 DEF SizeAssumption
  <2> QED  BY <2>1, <2>2, <2>5, <2>6, <2>7 DEF IInv, InvSign
<1>6. CASE VerifyLayer
  <2>1. /\ pc = "verifying" /\ j < D
        /\ UNCHANGED <<sk, in, fields, sig_fors, sig_ht, got, used>>
        /\ \/ node' = LayerRoot(j) /\ layer_msg' = node' /\ j' = j + 1 /\ pc' = pc
           \/ pc' = "panic"
    BY <1>6 DEF VerifyLayer
  <2>2. InvKey' /\ InvInput' /\ InvUsed'
    BY <1>0, <2>1 DEF InvKey, InvInput, InvUsed, Busy
  <2>3. Own' = Own /\ Signature' = Signature  BY <2>1 DEF Own, Signature
  <2>4. InvReceived'
    BY <1>0, <2>1, <2>3 DEF InvReceived, ForsSigned, HtSigned
  <2>5. InvVerify'
    <3> SUFFICES ASSUME got.change = "none", pc' = "verifying"
                 PROVE  /\ j' \in 0 .. D /\ fields' = Own'
                        /\ layer_msg' = MsgAt(sk'.seeds, Own', j') /\ node' = layer_msg'
      BY <2>1 DEF InvVerify
    <3>1. /\ j \in Layers /\ fields = Own /\ layer_msg = MsgAt(sk.seeds, Own, j)
          /\ got.sig = Signature /\ HtSigned(Own, D)
      BY <1>0, <2>1 DEF InvVerify, InvReceived, Layers, SizeAssumption
    <3>2. got.sig.ht[j] = XmssSign(sk.seeds.sk, sk.seeds.pk, j, TreeAt(Own, j), LeafAt(Own, j),
                                   MsgAt(sk.seeds, Own, j))
      BY <3>1 DEF Signature, HtSigned, Layers
    <3>3. sk.seeds \in Seeds /\ Own \in Digests(sk.seeds)
      BY <1>0, <2>1, InDigests DEF InvKey, InvInput, Busy, Own
    <3>4. LayerRoot(j) = MsgAt(sk.seeds, Own, j + 1)
      BY <3>1, <3>2, <3>3, LayerUp DEF LayerRoot
    <3>5. j' \in 0 .. D  BY <2>1, <3>1 DEF Layers
    <3> QED  BY <2>1, <2>3, <3>1, <3>4, <3>5
  <2> QED  BY <2>1, <2>2, <2>4, <2>5 DEF IInv, InvSign, HonestAccepted
<1>7. CASE VerifyEnd
  <2>1. /\ pc = "verifying" /\ j = D /\ pc' = "judged" /\ verdict' = (node = sk.pk_root)
        /\ UNCHANGED <<sk, in, used, got>>
    BY <1>7 DEF VerifyEnd, signVars
  <2>2. InvKey' /\ InvInput' /\ InvUsed'
    BY <1>0, <2>1 DEF InvKey, InvInput, InvUsed, Busy
  <2>3. got.change = "none" => node = sk.pk_root
    <3> SUFFICES ASSUME got.change = "none" PROVE node = sk.pk_root
      OBVIOUS
    <3>1. node = MsgAt(sk.seeds, Own, D)
      BY <1>0, <2>1 DEF InvVerify, SizeAssumption
    <3>2. sk.seeds \in Seeds /\ Own \in Digests(sk.seeds) /\ sk.pk_root = TopRoot(sk.seeds)
      BY <1>0, <2>1, InDigests DEF InvKey, InvInput, Busy, Own
    <3> QED  BY <3>1, <3>2, TopMsg
  <2>4. HonestAccepted'  BY <2>1, <2>3 DEF HonestAccepted
  <2> QED  BY <2>1, <2>2, <2>4 DEF IInv, InvSign, InvReceived, InvVerify
<1>8. CASE WitnessStart \/ WitnessLayer \/ WitnessEnd \/ NextSignature
  <2>1. /\ pc \notin {"keygen", "signing", "received", "verifying"}
        /\ pc' \notin {"keygen", "signing", "received", "verifying", "judged"}
        /\ pc' = "emitting" => Busy
        /\ UNCHANGED <<sk, in, used>>
    BY <1>8 DEF WitnessStart, Open, WitnessLayer, WitnessEnd, NextSignature, signVars, Busy
  <2>2. InvKey' /\ InvInput' /\ InvUsed'
    BY <1>0, <2>1 DEF InvKey, InvInput, InvUsed, Busy
  <2> QED  BY <2>1, <2>2 DEF IInv, InvSign, InvReceived, InvVerify, HonestAccepted
<1>9. CASE UNCHANGED vars
  <2>1. UNCHANGED <<pc, sk, in, fields, j, layer_msg, cur_idx_tree, cur_idx_leaf, sig_fors, sig_ht,
                    got, node, verdict, used>>
    BY <1>9 DEF vars
  <2>2. Own' = Own /\ Signature' = Signature  BY <2>1 DEF Own, Signature
  <2>3. InvKey' /\ InvInput' /\ InvUsed'  BY <1>0, <2>1 DEF InvKey, InvInput, InvUsed, Busy
  <2>4. InvSign'  BY <1>0, <2>1, <2>2 DEF InvSign, ForsSigned, HtSigned
  <2>5. InvReceived'  BY <1>0, <2>1, <2>2 DEF InvReceived, ForsSigned, HtSigned
  <2>6. InvVerify' /\ HonestAccepted'  BY <1>0, <2>1, <2>2 DEF InvVerify, HonestAccepted
  <2> QED  BY <2>3, <2>4, <2>5, <2>6 DEF IInv
<1> QED
  BY <1>1, <1>2, <1>3, <1>4, <1>5, <1>6, <1>7, <1>8, <1>9 DEF Next, Finished

LEMMA Invariant == Spec => []IInv
  BY InitInv, InvStep, PTL DEF Spec

(***************************************************************************)
(* The indices sign carries through its loop are verify's shifts of the    *)
(* parsed index, for every D and HPRIME.                                   *)
(***************************************************************************)
THEOREM IndicesAgree == Spec => []IndexAgreement
<1>1. IInv => IndexAgreement  BY DEF IInv, InvSign, IndexAgreement
<1> QED  BY Invariant, <1>1, PTL

(***************************************************************************)
(* Stateless signing never reuses a WOTS key for a second message: over    *)
(* any number of signatures, a (layer, tree, leaf) signs one message.      *)
(***************************************************************************)
THEOREM WotsKeysAreOneTime == Spec => []OneMessagePerWotsKey
<1>1. IInv => OneMessagePerWotsKey
  <2> SUFFICES ASSUME InvUsed, NEW a \in used, NEW b \in used,
                      a.seeds = b.seeds, a.layer = b.layer, a.tree = b.tree, a.leaf = b.leaf
               PROVE  a.msg = b.msg
    BY DEF IInv, OneMessagePerWotsKey
  <2>1. a.seeds \in Seeds /\ a.layer \in Layers  BY DEF InvUsed
  <2>2. PICK f \in Digests(a.seeds) :
          a.tree = TreeAt(f, a.layer) /\ a.leaf = LeafAt(f, a.layer) /\ a.msg = MsgAt(a.seeds, f, a.layer)
    BY DEF InvUsed
  <2>3. PICK g \in Digests(a.seeds) :
          b.tree = TreeAt(g, a.layer) /\ b.leaf = LeafAt(g, a.layer) /\ b.msg = MsgAt(a.seeds, g, a.layer)
    BY DEF InvUsed
  <2>4. TreeAt(f, a.layer) = TreeAt(g, a.layer) /\ LeafAt(f, a.layer) = LeafAt(g, a.layer)
    BY <2>2, <2>3
  <2>5. MsgAt(a.seeds, f, a.layer) = MsgAt(a.seeds, g, a.layer)
    BY <2>1, <2>4, KeyDeterminesMsg
  <2> QED  BY <2>2, <2>3, <2>5
<1> QED  BY Invariant, <1>1, PTL

(***************************************************************************)
(* sign_then_verify_roundtrip for every key, message, randomizer and hash. *)
(***************************************************************************)
THEOREM HonestSignaturesVerify == Spec => []HonestAccepted
<1>1. IInv => HonestAccepted  BY DEF IInv
<1> QED  BY Invariant, <1>1, PTL
-----------------------------------------------------------------------------
\* verify goes on with whole signatures only and refuses the others.
InvLen ==
    /\ pc = "verifying" => Whole(got.sig)
    /\ pc \in {"judged", "emitting", "emitted"} /\ ~Whole(got.sig) => verdict = FALSE

TypeInv == TypeOK /\ InvLen /\ PanicOnlyAfterReject

LEMMA Widths ==
  ASSUME NEW x \in Bits(HPRIME * (D - 1))
  PROVE  Shr(x, HPRIME) \in Bits(HPRIME * (D - 1)) /\ Low(x, HPRIME) \in Bits(HPRIME)
<1> DEFINE w == HPRIME * (D - 1)
<1>1. w \in Int /\ HPRIME \in Nat  BY DEF SizeAssumption
<1>2. x \in Bits(w)  OBVIOUS
<1> HIDE DEF w
<1>3. Shr(x, HPRIME) \in Bits(w)  BY <1>1, <1>2 DEF Shr, Bits, BitPos
<1>4. Low(x, HPRIME) \in Bits(HPRIME)
  <2>1. \A b \in x : b \in Int /\ b >= 0  BY <1>1, <1>2 DEF Bits
  <2>2. \A b \in Low(x, HPRIME) : b \in 0 .. HPRIME - 1  BY <1>1, <2>1 DEF Low
  <2> QED  BY <2>2 DEF Bits
<1> QED  BY <1>3, <1>4 DEF w

LEMMA EmptyWidth == {} \in Bits(HPRIME * (D - 1)) /\ {} \in Bits(HPRIME)
  BY DEF Bits

LEMMA InitType == Init => TypeInv
  BY EmptyWidth DEF Init, TypeInv, TypeOK, InvLen, PanicOnlyAfterReject, NoTable, SizeAssumption

LEMMA TypeStep == IInv /\ TypeInv /\ [Next]_vars => TypeInv'
<1> SUFFICES ASSUME IInv, TypeInv, [Next]_vars PROVE TypeInv'
  OBVIOUS
<1>0. TypeOK /\ InvLen /\ PanicOnlyAfterReject  BY DEF TypeInv
<1> USE DEF SizeAssumption
<1>1. ASSUME NEW s \in Seeds, KeyGen(s) PROVE TypeInv'
  BY <1>0, <1>1 DEF KeyGen, signVars, verifyVars, TypeInv, TypeOK, InvLen, PanicOnlyAfterReject
<1>2. ASSUME NEW m \in Msgs, NEW r \in Rands, SignFors(m, r) PROVE TypeInv'
  <2> DEFINE f == Digest(r, sk.seeds.pk, sk.pk_root, m)
  <2>1. /\ pc = "idle" /\ pc' = "signing" /\ cur_idx_tree' = f.tree /\ cur_idx_leaf' = f.leaf
        /\ made < MaxSigs /\ made' = made + 1 /\ j' = 0 /\ sig_ht' = NoTable
        /\ verdict' = verdict /\ wits' = wits
    BY <1>2 DEF SignFors, verifyVars
  <2>2. sk.seeds \in Seeds /\ sk.pk_root = TopRoot(sk.seeds)  BY <2>1 DEF IInv, InvKey
  <2>3. f = Fields(sk.seeds, m, r)  BY <2>2 DEF Fields
  <2>4. f.tree \in Bits(HPRIME * (D - 1)) /\ f.leaf \in Bits(HPRIME)
    BY <2>2, <2>3, InDigests, DigestWidths
  <2> HIDE DEF f
  <2>5. TypeOK'  BY <1>0, <2>1, <2>4 DEF TypeOK, NoTable
  <2> QED  BY <2>1, <2>5 DEF TypeInv, InvLen, PanicOnlyAfterReject
<1>3. CASE SignLayer
  <2>1. /\ pc = "signing" /\ pc' = pc /\ j < D /\ j' = j + 1 /\ UNCHANGED <<made, verdict, wits>>
        /\ DOMAIN sig_ht' = DOMAIN sig_ht
    BY <1>3 DEF SignLayer, verifyVars
  <2>2. \/ cur_idx_leaf' = Low(cur_idx_tree, HPRIME) /\ cur_idx_tree' = Shr(cur_idx_tree, HPRIME)
        \/ UNCHANGED <<cur_idx_leaf, cur_idx_tree>>
    BY <1>3 DEF SignLayer
  <2>3. cur_idx_tree' \in Bits(HPRIME * (D - 1)) /\ cur_idx_leaf' \in Bits(HPRIME)
    BY <1>0, <2>2, Widths DEF TypeOK
  <2>4. TypeOK'  BY <1>0, <2>1, <2>3 DEF TypeOK
  <2> QED  BY <2>1, <2>4 DEF TypeInv, InvLen, PanicOnlyAfterReject
<1>4. CASE SignEnd
  <2>1. /\ pc = "signing" /\ pc' = "received" /\ verdict' = None /\ wits' = NoTable
        /\ UNCHANGED <<j, made, cur_idx_tree, cur_idx_leaf, sig_ht>>
    BY <1>4 DEF SignEnd, Deliver, signVars
  <2>2. TypeOK'  BY <1>0, <2>1 DEF TypeOK, NoTable
  <2> QED  BY <2>1, <2>2 DEF TypeInv, InvLen, PanicOnlyAfterReject
<1>5. CASE VerifyStart
  <2>1. /\ pc = "received"
        /\ UNCHANGED <<made, cur_idx_tree, cur_idx_leaf, sig_ht, wits, got>>
        /\ \/ ~Whole(got.sig) /\ pc' = "judged" /\ verdict' = FALSE /\ j' = j
           \/ Whole(got.sig) /\ pc' = "verifying" /\ verdict' = verdict /\ j' = 0
    BY <1>5, VerifyStarts
  <2>2. TypeOK'
    <3>1. verdict' \in BOOLEAN \cup {None}  BY <1>0, <2>1 DEF TypeOK
    <3>2. j' \in 0 .. D  BY <1>0, <2>1 DEF TypeOK
    <3>3. pc' \in {"judged", "verifying"}  BY <2>1
    <3> QED  BY <1>0, <2>1, <3>1, <3>2, <3>3 DEF TypeOK
  <2>3. InvLen'  BY <1>0, <2>1 DEF InvLen
  <2> QED  BY <2>1, <2>2, <2>3 DEF TypeInv, PanicOnlyAfterReject
<1>6. CASE VerifyLayer
  <2>1. /\ pc = "verifying" /\ pc' = pc /\ j < D /\ j' = j + 1
        /\ UNCHANGED <<made, cur_idx_tree, cur_idx_leaf, sig_ht, wits, got, verdict>>
    <3>1. j \in DOMAIN got.sig.ht
      BY <1>0, <1>6 DEF VerifyLayer, InvLen, Whole, TypeOK, Layers
    <3> QED  BY <1>6, <3>1 DEF VerifyLayer
  <2>2. TypeOK'  BY <1>0, <2>1 DEF TypeOK
  <2>3. InvLen'  BY <1>0, <2>1 DEF InvLen
  <2> QED  BY <2>1, <2>2, <2>3 DEF TypeInv, PanicOnlyAfterReject
<1>7. CASE VerifyEnd
  <2>1. /\ pc = "verifying" /\ pc' = "judged" /\ verdict' \in BOOLEAN
        /\ UNCHANGED <<j, made, cur_idx_tree, cur_idx_leaf, sig_ht, wits, got>>
    BY <1>7 DEF VerifyEnd, signVars
  <2>2. TypeOK'  BY <1>0, <2>1 DEF TypeOK
  <2>3. InvLen'  BY <1>0, <2>1 DEF InvLen
  <2> QED  BY <2>1, <2>2, <2>3 DEF TypeInv, PanicOnlyAfterReject
<1>8. CASE WitnessStart
  <2>1. /\ pc = "judged" /\ j' = 0
        /\ UNCHANGED <<made, cur_idx_tree, cur_idx_leaf, sig_ht, wits, got, verdict>>
        /\ \/ pc' = "emitting"
           \/ pc' = "panic" /\ ~Whole(got.sig)
    BY <1>8 DEF WitnessStart, Open, Whole, verifyVars
  <2>2. TypeOK'  BY <1>0, <2>1 DEF TypeOK
  <2>3. InvLen' /\ PanicOnlyAfterReject'  BY <1>0, <2>1 DEF InvLen, PanicOnlyAfterReject
  <2> QED  BY <2>2, <2>3 DEF TypeInv
<1>9. CASE WitnessLayer
  <2>1. /\ pc = "emitting" /\ j < D
        /\ UNCHANGED <<made, cur_idx_tree, cur_idx_leaf, sig_ht, got, verdict>>
        /\ \/ pc' = pc /\ j' = j + 1 /\ DOMAIN wits' = DOMAIN wits
           \/ pc' = "panic" /\ j' = j /\ wits' = wits /\ j \notin DOMAIN got.sig.ht
    BY <1>9 DEF WitnessLayer, verifyVars
  <2>2. TypeOK'  BY <1>0, <2>1 DEF TypeOK
  <2>3. j \notin DOMAIN got.sig.ht => ~Whole(got.sig)
    BY <1>0, <2>1 DEF Whole, Layers, TypeOK
  <2>4. InvLen' /\ PanicOnlyAfterReject'  BY <1>0, <2>1, <2>3 DEF InvLen, PanicOnlyAfterReject
  <2> QED  BY <2>2, <2>4 DEF TypeInv
<1>10. CASE WitnessEnd
  <2>1. /\ pc = "emitting" /\ pc' = "emitted"
        /\ UNCHANGED <<j, made, cur_idx_tree, cur_idx_leaf, sig_ht, wits, got, verdict>>
    BY <1>10 DEF WitnessEnd, signVars, verifyVars
  <2>2. TypeOK'  BY <1>0, <2>1 DEF TypeOK
  <2>3. InvLen' /\ PanicOnlyAfterReject'  BY <1>0, <2>1 DEF InvLen, PanicOnlyAfterReject
  <2> QED  BY <2>2, <2>3 DEF TypeInv
<1>11. CASE NextSignature
  <2>1. /\ pc' = "idle" /\ verdict' = None /\ wits' = NoTable
        /\ UNCHANGED <<j, made, cur_idx_tree, cur_idx_leaf, sig_ht>>
    BY <1>11 DEF NextSignature, signVars
  <2>2. TypeOK'  BY <1>0, <2>1 DEF TypeOK, NoTable
  <2> QED  BY <2>1, <2>2 DEF TypeInv, InvLen, PanicOnlyAfterReject
<1>12. CASE UNCHANGED vars
  BY <1>0, <1>12 DEF vars, TypeInv, TypeOK, InvLen, PanicOnlyAfterReject
<1>13. CASE Finished
  BY <1>12, <1>13 DEF Finished
<1> QED
  BY <1>1, <1>2, <1>3, <1>4, <1>5, <1>6, <1>7, <1>8, <1>9, <1>10, <1>11, <1>12, <1>13 DEF Next

LEMMA TypeInvariant == Spec => []TypeInv
  BY Invariant, InitType, TypeStep, PTL DEF Spec

(***************************************************************************)
(* The signer's indices never leave the widths of the trees, and its loop  *)
(* counters the layers.                                                    *)
(***************************************************************************)
THEOREM SignerTypes == Spec => []TypeOK
<1>1. TypeInv => TypeOK  BY DEF TypeInv
<1> QED  BY TypeInvariant, <1>1, PTL

(***************************************************************************)
(* No index of verify is out of bounds, and one of ht_layer_witnesses only *)
(* on a signature that verify has refused: whatever trees or layers are    *)
(* missing, for every D and K_FORS.                                        *)
(***************************************************************************)
THEOREM OnlyRejectedPanic == Spec => []PanicOnlyAfterReject
<1>1. TypeInv => PanicOnlyAfterReject  BY DEF TypeInv
<1> QED  BY TypeInvariant, <1>1, PTL
-----------------------------------------------------------------------------
(***************************************************************************)
(* verify and ht_layer_witnesses walk the same signature, honest or not.   *)
(* w holds the values of that walk: what layer k reads, and at D the root. *)
(***************************************************************************)
Walk(w, n) ==
    /\ w[0] = ForsPkFromSig(sk.seeds.pk, GotFields.tree, GotFields.leaf, GotFields.md, got.sig.fors)
    /\ \A k \in 0 .. n - 1 :
         w[k + 1] = XmssPkFromSig(sk.seeds.pk, k, TreeAt(GotFields, k), LeafAt(GotFields, k), w[k],
                                  got.sig.ht[k])

\* The witnesses pushed so far are the links of w.
Pushed(w, n) ==
    \A k \in 0 .. n - 1 :
        /\ wits[k].tree_low = TreeAt(GotFields, k) /\ wits[k].idx_leaf = LeafAt(GotFields, k)
        /\ wits[k].prev_root = w[k] /\ wits[k].next_root = w[k + 1]

Judges(w) == Walk(w, D) /\ verdict = (w[D] = sk.pk_root)

InvGot ==
    pc \in {"received", "verifying", "judged", "emitting", "emitted"} =>
        got.msg \in Msgs /\ got.sig.r \in Rands

InvWalks ==
    /\ pc = "verifying" =>
         /\ fields = GotFields
         /\ \E w : Walk(w, j) /\ layer_msg = w[j] /\ (j > 0 => node = w[j])
    /\ pc \in {"judged", "emitting", "emitted"} /\ Whole(got.sig) => \E w : Judges(w)
    /\ pc = "emitting" =>
         /\ fields = GotFields
         /\ \E w : Walk(w, j) /\ layer_msg = w[j] /\ Pushed(w, j)
    /\ pc = "emitted" => \E w : Walk(w, D) /\ Pushed(w, D)

LEMMA WalkFrame ==
    ASSUME UNCHANGED <<sk, got>>, NEW w, NEW n, Walk(w, n)
    PROVE  Walk(w, n)' /\ GotFields' = GotFields
  BY DEF Walk, GotFields

LEMMA GotInit == Init => InvGot /\ InvWalks
  BY DEF Init, InvGot, InvWalks

LEMMA GotStep == IInv /\ InvGot /\ [Next]_vars => InvGot'
<1> SUFFICES ASSUME IInv, InvGot, [Next]_vars PROVE InvGot'
  OBVIOUS
<1>1. CASE SignEnd
  <2>1. in.msg \in Msgs /\ in.r \in Rands
    BY <1>1 DEF SignEnd, IInv, InvInput, Busy
  <2>2. /\ Signature.r = in.r
        /\ \A v : [Signature EXCEPT !.fors = v].r = in.r /\ [Signature EXCEPT !.ht = v].r = in.r
    BY DEF Signature
  <2>4. \A r \in Rands : [Signature EXCEPT !.r = r].r = r
    BY DEF Signature
  <2>5. got'.msg \in Msgs /\ got'.sig.r \in Rands
    <3>1. CASE Deliver(in.msg, Signature, "none")
      BY <2>1, <2>2, <3>1 DEF Deliver
    <3>2. CASE \E k \in Layers, p \in Places : Deliver(in.msg, LayerDamaged(Signature, k, p), "part")
      BY <2>1, <3>2 DEF Deliver, Signature, LayerDamaged
    <3>3. CASE \E i \in Trees, p \in Places : Deliver(in.msg, TreeDamaged(Signature, i, p), "part")
      BY <2>1, <3>3 DEF Deliver, Signature, TreeDamaged
    <3>4. CASE \E n \in {D - 1, D + 1} : Deliver(in.msg, [Signature EXCEPT !.ht = Resized(@, n)], "length")
      BY <2>1, <3>4 DEF Deliver, Signature
    <3>5. CASE \E n \in {K_FORS - 1, K_FORS + 1} : Deliver(in.msg, [Signature EXCEPT !.fors = Resized(@, n)], "length")
      BY <2>1, <3>5 DEF Deliver, Signature
    <3>6. CASE \E m \in Msgs \ {in.msg} : Deliver(m, Signature, "input")
      BY <2>1, <2>2, <3>6 DEF Deliver
    <3>7. CASE \E r \in Rands \ {in.r} : Deliver(in.msg, [Signature EXCEPT !.r = r], "input")
      <4>1. PICK r \in Rands \ {in.r} : Deliver(in.msg, [Signature EXCEPT !.r = r], "input")
        BY <3>7
      <4>2. got'.msg = in.msg /\ got'.sig = [Signature EXCEPT !.r = r]
        BY <4>1 DEF Deliver
      <4> QED  BY <2>1, <2>4, <4>2
    <3> QED  BY <1>1, <3>1, <3>2, <3>3, <3>4, <3>5, <3>6, <3>7 DEF SignEnd
  <2> QED  BY <2>5 DEF InvGot
<1>2. CASE VerifyStart \/ VerifyLayer \/ VerifyEnd \/ WitnessStart \/ WitnessLayer \/ WitnessEnd
  <2>1. got' = got /\ pc \in {"received", "verifying", "judged", "emitting"}
    BY <1>2 DEF VerifyStart, VerifyLayer, VerifyEnd, WitnessStart, WitnessLayer, WitnessEnd, verifyVars
  <2> QED  BY <2>1 DEF InvGot
<1>3. CASE SignLayer \/ NextSignature
           \/ (\E s \in Seeds : KeyGen(s)) \/ (\E m \in Msgs, r \in Rands : SignFors(m, r))
  <2>1. pc' \in {"idle", "signing"}
    BY <1>3 DEF SignLayer, NextSignature, KeyGen, SignFors
  <2> QED  BY <2>1 DEF InvGot
<1>4. CASE UNCHANGED vars
  BY <1>4 DEF vars, InvGot
<1> QED
  BY <1>1, <1>2, <1>3, <1>4 DEF Next, Finished

LEMMA WalksStep == TypeInv /\ InvWalks /\ [Next]_vars => InvWalks'
<1> SUFFICES ASSUME TypeInv, InvWalks, [Next]_vars PROVE InvWalks'
  OBVIOUS
<1>0. j \in 0 .. D /\ D \in Nat \ {0} /\ DOMAIN wits = Layers
  BY DEF TypeInv, TypeOK, SizeAssumption
<1>1. CASE VerifyStart
  <2>1. /\ pc = "received" /\ UNCHANGED <<sk, got>>
        /\ \/ pc' = "judged" /\ ~Whole(got.sig)
           \/ /\ pc' = "verifying" /\ j' = 0 /\ fields' = GotFields
              /\ layer_msg' = ForsPkFromSig(sk.seeds.pk, GotFields.tree, GotFields.leaf, GotFields.md, got.sig.fors)
    BY <1>1, VerifyStarts
  <2>a. PICK w : w = [k \in 0 .. D |-> layer_msg']
    OBVIOUS
  <2>2. pc' = "verifying" => Walk(w, 0) /\ layer_msg' = w[0] /\ j' = 0 /\ fields' = GotFields
    BY <2>1, <2>a, <1>0 DEF Walk
  <2>3. GotFields' = GotFields
    BY <2>1 DEF GotFields
  <2>4. pc' = "verifying" => Walk(w, j)' /\ layer_msg' = w[j'] /\ ~(j' > 0)
    BY <2>1, <2>2, <2>3 DEF Walk
  <2> QED  BY <2>1, <2>2, <2>3, <2>4 DEF InvWalks
<1>2. CASE VerifyLayer
  <2>1. /\ pc = "verifying" /\ pc' = pc /\ j < D /\ node' = LayerRoot(j) /\ layer_msg' = node'
        /\ j' = j + 1 /\ UNCHANGED <<sk, got, fields>>
    <3>1. j \in DOMAIN got.sig.ht
      BY <1>0, <1>2 DEF VerifyLayer, TypeInv, InvLen, Whole, Layers
    <3> QED  BY <1>2, <3>1 DEF VerifyLayer
  <2>2. PICK w : Walk(w, j) /\ layer_msg = w[j] /\ fields = GotFields
    BY <2>1 DEF InvWalks
  <2>a. PICK v : v = [k \in 0 .. D |-> IF k = j + 1 THEN node' ELSE w[k]]
    OBVIOUS
  <2>3. \A k \in 0 .. j : v[k] = w[k] /\ k \in 0 .. D
    BY <1>0, <2>a
  <2>4. v[j + 1] = node' /\ j + 1 \in 0 .. D
    BY <1>0, <2>1, <2>a
  <2>5. ASSUME NEW k \in 0 .. j
        PROVE  v[k + 1] = XmssPkFromSig(sk.seeds.pk, k, TreeAt(GotFields, k), LeafAt(GotFields, k), v[k],
                                        got.sig.ht[k])
    <3>1. CASE k = j
      BY <2>1, <2>2, <2>3, <2>4, <3>1 DEF LayerRoot
    <3>2. CASE k # j
      <4>1. k \in 0 .. j - 1 /\ k + 1 \in 0 .. j  BY <1>0, <3>2
      <4> QED  BY <2>2, <2>3, <4>1 DEF Walk
    <3> QED  BY <3>1, <3>2
  <2>6. Walk(v, j + 1)
    <3>1. 0 \in 0 .. j /\ (j + 1) - 1 = j  BY <1>0
    <3> QED  BY <2>2, <2>3, <2>5, <3>1 DEF Walk
  <2>7. GotFields' = GotFields
    BY <2>1 DEF GotFields
  <2>8. Walk(v, j)' /\ layer_msg' = v[j'] /\ node' = v[j']
    BY <2>1, <2>4, <2>6, <2>7 DEF Walk
  <2> QED  BY <2>1, <2>2, <2>7, <2>8 DEF InvWalks
<1>3. CASE VerifyEnd
  <2>1. /\ pc = "verifying" /\ j = D /\ pc' = "judged" /\ verdict' = (node = sk.pk_root)
        /\ UNCHANGED <<sk, got>>
    BY <1>3 DEF VerifyEnd, signVars
  <2>2. PICK w : Walk(w, D) /\ node = w[D]
    BY <1>0, <2>1 DEF InvWalks
  <2>3. Walk(w, D)'
    BY <2>1, <2>2, WalkFrame
  <2>4. Judges(w)'
    BY <2>1, <2>2, <2>3 DEF Judges
  <2> QED  BY <2>1, <2>4 DEF InvWalks
<1>4. CASE WitnessStart
  <2>1. /\ pc = "judged" /\ UNCHANGED <<sk, got, verdict>> /\ j' = 0 /\ fields' = GotFields
        /\ \/ pc' = "panic"
           \/ /\ pc' = "emitting"
              /\ layer_msg' = ForsPkFromSig(sk.seeds.pk, GotFields.tree, GotFields.leaf, GotFields.md, got.sig.fors)
    BY <1>4 DEF WitnessStart, Open, verifyVars
  <2>2. GotFields' = GotFields
    BY <2>1 DEF GotFields
  <2>3. (\E w : Judges(w)) => (\E w : Judges(w)')
    BY <2>1, WalkFrame DEF Judges
  <2>4. ASSUME pc' = "emitting" PROVE \E w : Walk(w, j)' /\ layer_msg' = w[j'] /\ Pushed(w, j)'
    <3>1. PICK w : w = [k \in 0 .. D |-> layer_msg']
      OBVIOUS
    <3>2. w[0] = layer_msg' /\ 0 .. j' - 1 = {}
      BY <1>0, <2>1, <3>1
    <3> QED  BY <2>1, <2>2, <2>4, <3>2 DEF Walk, Pushed
  <2> QED  BY <2>1, <2>2, <2>3, <2>4 DEF InvWalks
<1>5. CASE WitnessLayer
  <2>1. /\ pc = "emitting" /\ j < D
        /\ UNCHANGED <<sk, got, fields, verdict>>
        /\ \/ pc' = "panic"
           \/ pc' = pc /\ j' = j + 1 /\ layer_msg' = LayerRoot(j) /\ wits' = [wits EXCEPT ![j] = WitnessOf(j)]
    BY <1>5 DEF WitnessLayer, verifyVars
  <2>2. fields = GotFields /\ GotFields' = GotFields
    BY <2>1 DEF InvWalks, GotFields
  <2>3. (\E w : Judges(w)) => (\E w : Judges(w)')
    BY <2>1, WalkFrame DEF Judges
  <2>4. ASSUME pc' = "emitting" PROVE \E w : Walk(w, j)' /\ layer_msg' = w[j'] /\ Pushed(w, j)'
    <3>1. PICK w : Walk(w, j) /\ layer_msg = w[j] /\ Pushed(w, j)
      BY <2>1 DEF InvWalks
    <3>2. PICK v : v = [k \in 0 .. D |-> IF k = j + 1 THEN layer_msg' ELSE w[k]]
      OBVIOUS
    <3>3. \A k \in 0 .. j : v[k] = w[k] /\ k \in 0 .. D
      BY <1>0, <3>2
    <3>4. v[j + 1] = LayerRoot(j) /\ v[j + 1] = layer_msg' /\ j \in Layers
      BY <1>0, <2>1, <2>4, <3>2 DEF Layers
    <3>5. ASSUME NEW k \in 0 .. j
          PROVE  v[k + 1] = XmssPkFromSig(sk.seeds.pk, k, TreeAt(GotFields, k), LeafAt(GotFields, k), v[k],
                                          got.sig.ht[k])
      <4>1. CASE k = j
        BY <2>2, <3>1, <3>3, <3>4, <4>1 DEF LayerRoot
      <4>2. CASE k # j
        <5>1. k \in 0 .. j - 1 /\ k + 1 \in 0 .. j  BY <1>0, <4>2
        <5> QED  BY <3>1, <3>3, <5>1 DEF Walk
      <4> QED  BY <4>1, <4>2
    <3>6. Walk(v, j + 1)
      <4>1. 0 \in 0 .. j /\ (j + 1) - 1 = j  BY <1>0
      <4> QED  BY <3>1, <3>3, <3>5, <4>1 DEF Walk
    <3>7. /\ wits'[j].tree_low = TreeAt(GotFields, j) /\ wits'[j].idx_leaf = LeafAt(GotFields, j)
          /\ wits'[j].prev_root = v[j] /\ wits'[j].next_root = v[j + 1]
          /\ \A k \in 0 .. j - 1 : wits'[k] = wits[k]
      <4>1. j \in DOMAIN wits /\ \A k \in 0 .. j - 1 : k \in DOMAIN wits /\ k # j
        BY <1>0, <3>4 DEF Layers
      <4>2. wits' = [wits EXCEPT ![j] = WitnessOf(j)]  BY <2>1, <2>4
      <4>3. /\ WitnessOf(j).tree_low = TreeAt(GotFields, j) /\ WitnessOf(j).idx_leaf = LeafAt(GotFields, j)
            /\ WitnessOf(j).prev_root = layer_msg /\ WitnessOf(j).next_root = LayerRoot(j)
        BY <2>2 DEF WitnessOf
      <4>4. j \in 0 .. j  BY <1>0
      <4> QED  BY <3>1, <3>3, <3>4, <4>1, <4>2, <4>3, <4>4
    <3>8. \A k \in 0 .. j : k = j \/ (k \in 0 .. j - 1 /\ k + 1 \in 0 .. j)
      BY <1>0
    <3>9. j' = j + 1 /\ (j + 1) - 1 = j  BY <1>0, <2>1, <2>4
    <3>10. \A k \in 0 .. j :
             /\ wits'[k].tree_low = TreeAt(GotFields, k) /\ wits'[k].idx_leaf = LeafAt(GotFields, k)
             /\ wits'[k].prev_root = v[k] /\ wits'[k].next_root = v[k + 1]
      BY <3>1, <3>3, <3>7, <3>8 DEF Pushed
    <3>11. Pushed(v, j)'
      BY <2>2, <3>9, <3>10 DEF Pushed
    <3>12. Walk(v, j)'
      BY <2>1, <2>2, <3>6, <3>9 DEF Walk
    <3> QED  BY <3>4, <3>9, <3>11, <3>12
  <2> QED  BY <2>1, <2>2, <2>3, <2>4 DEF InvWalks
<1>6. CASE WitnessEnd
  <2>1. /\ pc = "emitting" /\ j = D /\ pc' = "emitted"
        /\ UNCHANGED <<sk, got, verdict, wits>>
    BY <1>6 DEF WitnessEnd, verifyVars
  <2>2. (\E w : Judges(w)) => (\E w : Judges(w)')
    BY <2>1, WalkFrame DEF Judges
  <2>3. \E w : (Walk(w, D) /\ Pushed(w, D))'
    <3>1. PICK w : Walk(w, D) /\ Pushed(w, D)
      BY <2>1 DEF InvWalks
    <3>2. Walk(w, D)' /\ GotFields' = GotFields
      BY <2>1, <3>1, WalkFrame
    <3>3. Pushed(w, D)'
      BY <2>1, <3>1, <3>2 DEF Pushed
    <3> QED  BY <3>2, <3>3
  <2> QED  BY <2>1, <2>2, <2>3 DEF InvWalks
<1>7. CASE SignEnd \/ SignLayer \/ NextSignature
           \/ (\E s \in Seeds : KeyGen(s)) \/ (\E m \in Msgs, r \in Rands : SignFors(m, r))
  <2>1. pc' \in {"idle", "signing", "received"}
    BY <1>7 DEF SignEnd, Deliver, SignLayer, NextSignature, KeyGen, SignFors
  <2> QED  BY <2>1 DEF InvWalks
<1>8. CASE UNCHANGED vars
  <2>1. UNCHANGED <<pc, sk, got, fields, j, layer_msg, node, verdict, wits>>
    BY <1>8 DEF vars
  <2> QED  BY <2>1 DEF InvWalks, Judges, Walk, Pushed, GotFields
<1> QED
  BY <1>1, <1>2, <1>3, <1>4, <1>5, <1>6, <1>7, <1>8 DEF Next, Finished

\* A set of natural numbers has a least element.
LEMMA Least ==
  ASSUME NEW T, T \subseteq Nat, T # {}
  PROVE  \E m \in T : \A k \in T : m <= k
<1>1. \E x \in T : \A y \in T : ~ (<<y, x>> \in OpToRel(<, Nat))
  BY NatLessThanWellFounded, WFMin
<1>2. PICK x \in T : \A y \in T : ~ (<<y, x>> \in OpToRel(<, Nat))
  BY <1>1
<1>3. ASSUME NEW y \in T, y < x PROVE FALSE
  <2>1. <<y, x>> \in OpToRel(<, Nat)  BY <1>3 DEF OpToRel
  <2> QED  BY <1>2, <2>1
<1> QED  BY <1>3

\* The equations of verify's walk have one solution: RootsOf.
Step(s, g, sig, w, k) ==
    IF k = 0 THEN ForsPkFromSig(s.pk, g.tree, g.leaf, g.md, sig.fors)
    ELSE XmssPkFromSig(s.pk, k - 1, TreeAt(g, k - 1), LeafAt(g, k - 1), w[k - 1], sig.ht[k - 1])

LEMMA RootsSolve ==
  ASSUME NEW s, NEW g, NEW sig, NEW v, v = [k \in 0 .. D |-> Step(s, g, sig, v, k)]
  PROVE  RootsOf(s, g, sig) = [k \in 0 .. D |-> Step(s, g, sig, RootsOf(s, g, sig), k)]
<1>1. \E w : w = [k \in 0 .. D |-> Step(s, g, sig, w, k)]  OBVIOUS
<1>2. RootsOf(s, g, sig) = CHOOSE w : w = [k \in 0 .. D |-> Step(s, g, sig, w, k)]
  BY Zenon DEF RootsOf, Step
<1> QED  BY <1>1, <1>2, Zenon

LEMMA RootsUnique ==
  ASSUME NEW s, NEW g, NEW sig, NEW w,
         w[0] = ForsPkFromSig(s.pk, g.tree, g.leaf, g.md, sig.fors),
         \A k \in Layers : w[k + 1] = XmssPkFromSig(s.pk, k, TreeAt(g, k), LeafAt(g, k), w[k], sig.ht[k])
  PROVE  \A k \in 0 .. D : RootsOf(s, g, sig)[k] = w[k]
<1>0. D \in Nat \ {0} /\ Layers = 0 .. D - 1  BY DEF Layers, SizeAssumption
<1>1. PICK v : v = [k \in 0 .. D |-> w[k]]  OBVIOUS
<1>2. ASSUME NEW k \in 0 .. D PROVE v[k] = Step(s, g, sig, v, k)
  <2>1. CASE k = 0  BY <1>0, <1>1, <2>1 DEF Step
  <2>2. CASE k # 0
    <3>1. k - 1 \in Layers /\ k - 1 \in 0 .. D /\ (k - 1) + 1 = k  BY <1>0, <2>2
    <3> QED  BY <1>1, <2>2, <3>1 DEF Step
  <2> QED  BY <2>1, <2>2
<1>3. v = [k \in 0 .. D |-> Step(s, g, sig, v, k)]  BY <1>1, <1>2
<1> DEFINE r == RootsOf(s, g, sig)
<1>4. r = [k \in 0 .. D |-> Step(s, g, sig, r, k)]  BY <1>3, RootsSolve
<1> HIDE DEF r
<1> DEFINE B == {k \in 0 .. D : r[k] # w[k]}
<1>5. ASSUME B # {} PROVE FALSE
  <2>1. PICK m \in B : \A k \in B : m <= k
    <3>1. B \subseteq Nat  OBVIOUS
    <3> QED  BY <1>5, <3>1, Least
  <2>2. m \in 0 .. D /\ r[m] = Step(s, g, sig, r, m)  BY <1>4
  <2>3. m # 0  BY <1>0, <2>2 DEF Step
  <2>4. m - 1 \in Layers /\ m - 1 \in 0 .. D /\ (m - 1) + 1 = m  BY <1>0, <2>2, <2>3
  <2>5. r[m - 1] = w[m - 1]  BY <2>1, <2>4
  <2>6. r[m] = w[m]  BY <2>2, <2>3, <2>4, <2>5 DEF Step
  <2> QED  BY <2>6
<1> QED  BY <1>5 DEF r

\* An index is its low bits and the rest of it shifted back.
LEMMA Recombine ==
    ASSUME NEW x \in Word, NEW h \in Nat
    PROVE  x = Shl(Shr(x, h), h) \cup Low(x, h)
<1>1. ASSUME NEW b \in x PROVE b \in Shl(Shr(x, h), h) \cup Low(x, h)
  <2>1. b \in 0 .. 63  BY DEF Word, BitPos
  <2>2. CASE b < h  BY <2>2 DEF Low
  <2>3. CASE ~(b < h)
    <3>1. b - h \in 0 .. 63 /\ (b - h) + h = b  BY <2>1, <2>3
    <3> QED  BY <2>1, <3>1 DEF Shl, Shr, BitPos
  <2> QED  BY <2>2, <2>3
<1>2. ASSUME NEW b \in Shl(Shr(x, h), h) PROVE b \in x
  <2>1. b \in 0 .. 63 /\ (b - h) + h \in x  BY DEF Shl, Shr, BitPos
  <2>2. (b - h) + h = b  BY <2>1
  <2> QED  BY <2>1, <2>2
<1> QED  BY <1>1, <1>2 DEF Low

(***************************************************************************)
(* What ht_layer_witnesses emits is one chain of layers, whatever was      *)
(* signed and whatever happened to the signature on its way, and verify    *)
(* accepts exactly the signatures of the right lengths for which it ends   *)
(* at pk_root: for every D, HPRIME, K_FORS and hash.                       *)
(***************************************************************************)
THEOREM EmittedWitnessesChain == Spec => []WitnessesChain
<1>1. IInv /\ TypeInv /\ InvGot /\ InvWalks => WitnessesChain
  <2> SUFFICES ASSUME IInv, TypeInv, InvGot, InvWalks, pc = "emitted"
               PROVE  /\ \A k \in 1 .. D - 1 :
                           /\ wits[k].prev_root = wits[k - 1].next_root
                           /\ wits[k - 1].tree_low = Shl(wits[k].tree_low, HPRIME) \cup wits[k].idx_leaf
                           /\ wits[k].idx_leaf \in Bits(HPRIME)
                      /\ wits[D - 1].tree_low = {}
                      /\ verdict = (Whole(got.sig) /\ wits[D - 1].next_root = sk.pk_root)
    BY DEF WitnessesChain
  <2>1. PICK w : Walk(w, D) /\ Pushed(w, D)
    BY DEF InvWalks
  <2>2. D \in Nat \ {0} /\ HPRIME \in Nat \ {0} /\ D - 1 \in 0 .. D - 1 /\ (D - 1) + 1 = D
    BY DEF SizeAssumption
  <2>3. sk.seeds \in Seeds /\ GotFields \in Digests(sk.seeds)
    <3>1. sk.seeds \in Seeds /\ sk.pk_root = TopRoot(sk.seeds) /\ got.msg \in Msgs /\ got.sig.r \in Rands
      BY DEF IInv, InvKey, InvGot
    <3> QED  BY <3>1, InDigests DEF GotFields, Fields
  <2>4. GotFields.tree \in Word
    BY <2>3, DigestWidths
  <2>5. ASSUME NEW k \in 1 .. D - 1
        PROVE  /\ wits[k].prev_root = wits[k - 1].next_root
               /\ wits[k - 1].tree_low = Shl(wits[k].tree_low, HPRIME) \cup wits[k].idx_leaf
               /\ wits[k].idx_leaf \in Bits(HPRIME)
    <3>1. k \in 0 .. D - 1 /\ k - 1 \in 0 .. D - 1 /\ k - 1 \in Nat /\ (k - 1) + 1 = k
      BY <2>2
    <3>2. wits[k].prev_root = w[k] /\ wits[k - 1].next_root = w[k]
      BY <2>1, <3>1 DEF Pushed
    <3>3. /\ wits[k - 1].tree_low = TreeAt(GotFields, k - 1)
          /\ wits[k].tree_low = TreeAt(GotFields, k) /\ wits[k].idx_leaf = LeafAt(GotFields, k)
      BY <2>1, <3>1 DEF Pushed
    <3>4. /\ TreeAt(GotFields, k) = Shr(TreeAt(GotFields, k - 1), HPRIME)
          /\ LeafAt(GotFields, k) = Low(TreeAt(GotFields, k - 1), HPRIME)
      BY <2>4, <3>1, NextLayer
    <3>5. TreeAt(GotFields, k - 1) \in Word
      BY <2>4, <3>1, TreeIsShift, ShrWord
    <3> QED  BY <2>2, <3>2, <3>3, <3>4, <3>5, Recombine, LowNarrows
  <2>6. wits[D - 1].tree_low = {}
    BY <2>1, <2>2, <2>3, TopTree DEF Pushed
  <2>7. verdict = (Whole(got.sig) /\ wits[D - 1].next_root = sk.pk_root)
    <3>1. wits[D - 1].next_root = w[D]  BY <2>1, <2>2 DEF Pushed
    <3>2. CASE Whole(got.sig)
      <4>1. PICK v : Judges(v)  BY <3>2 DEF InvWalks
      <4>2. \A u : Walk(u, D) => RootsOf(sk.seeds, GotFields, got.sig)[D] = u[D]
        <5> SUFFICES ASSUME NEW u, Walk(u, D) PROVE RootsOf(sk.seeds, GotFields, got.sig)[D] = u[D]
          OBVIOUS
        <5>1. D \in 0 .. D  BY <2>2
        <5>2. /\ u[0] = ForsPkFromSig(sk.seeds.pk, GotFields.tree, GotFields.leaf, GotFields.md, got.sig.fors)
              /\ \A k \in Layers : u[k + 1] = XmssPkFromSig(sk.seeds.pk, k, TreeAt(GotFields, k),
                                                          LeafAt(GotFields, k), u[k], got.sig.ht[k])
          BY DEF Walk, Layers
        <5> QED  BY <5>1, <5>2, RootsUnique
      <4>3. v[D] = w[D]  BY <2>1, <4>1, <4>2 DEF Judges
      <4> QED  BY <3>1, <3>2, <4>1, <4>3 DEF Judges
    <3>3. CASE ~Whole(got.sig)
      BY <3>3 DEF TypeInv, InvLen
    <3> QED  BY <3>2, <3>3
  <2> QED  BY <2>5, <2>6, <2>7
<1> QED
  BY <1>1, Invariant, TypeInvariant, GotInit, GotStep, WalksStep, PTL DEF Spec
-----------------------------------------------------------------------------
(***************************************************************************)
(* If a walk of verify ends at the root of the honest signature of f, it   *)
(* was the walk of that signature: from the top layer, whose tree is the   *)
(* same for all digests, down to the FORS key, each layer gives the leaf   *)
(* and the message of the next lower one.                                  *)
(***************************************************************************)
LEMMA OnlyHonestPasses ==
  ASSUME NoCollision, NEW s \in Seeds, NEW f \in Digests(s), NEW e \in Handed(s, f),
         e.on \in Digests(s), RootsOf(s, e.on, e.sig)[D] = TopRoot(s)
  PROVE  /\ e.on = f
         /\ e.sig.fors = HonestSig(s, f).fors
         /\ \A k \in Layers : e.sig.ht[k] = HonestSig(s, f).ht[k]
<1>0. D \in Nat \ {0} /\ HPRIME \in Nat  BY DEF SizeAssumption
<1> DEFINE g == e.on
           r == RootsOf(s, e.on, e.sig)
           h == HonestSig(s, f)
           Alike(i) == TreeAt(g, i) = TreeAt(f, i) /\ LeafAt(g, i) = LeafAt(f, i)
           T == {i \in 0 .. D : /\ r[i] = MsgAt(s, f, i)
                                /\ i < D => Alike(i)
                                /\ \A k \in Layers : k >= i => e.sig.ht[k] = h.ht[k]}
<1>1. ForsBinds(s, f, e) /\ \A k \in Layers : LayerBinds(s, f, e, k)
  BY DEF NoCollision
<1>2. f.tree \in Word /\ g.tree \in Word  BY DigestWidths
<1>3. D \in T
  <2>1. r[D] = MsgAt(s, f, D)  BY TopMsg
  <2>2. \A k \in Layers : ~(k >= D)  BY <1>0 DEF Layers
  <2> QED  BY <1>0, <2>1, <2>2
<1>4. PICK m \in T : \A i \in T : m <= i
  <2>1. T \subseteq Nat  BY <1>0
  <2> HIDE DEF T
  <2> QED  BY <1>3, <2>1, Least
<1>5. m \in 0 .. D /\ r[m] = MsgAt(s, f, m) /\ (m < D => Alike(m))
      /\ \A k \in Layers : k >= m => e.sig.ht[k] = h.ht[k]
  OBVIOUS
<1>6. m = 0
  <2> SUFFICES ASSUME m # 0 PROVE FALSE  OBVIOUS
  <2>1. PICK k \in Layers : k = m - 1 /\ k + 1 = m /\ k \in Nat /\ k \in 0 .. D /\ k < D
    BY <1>0, <1>5 DEF Layers
  <2>2. TreeAt(g, k) = TreeAt(f, k)
    <3>1. CASE m = D
      <4>1. k = D - 1  BY <2>1, <3>1
      <4> QED  BY <4>1, TopTree
    <3>2. CASE m < D
      <4>1. TreeAt(g, m) = TreeAt(f, m) /\ LeafAt(g, m) = LeafAt(f, m)  BY <1>5, <3>2
      <4>2. /\ TreeAt(f, m) = Shr(TreeAt(f, k), HPRIME) /\ LeafAt(f, m) = Low(TreeAt(f, k), HPRIME)
            /\ TreeAt(g, m) = Shr(TreeAt(g, k), HPRIME) /\ LeafAt(g, m) = Low(TreeAt(g, k), HPRIME)
        BY <1>2, <2>1, NextLayer
      <4>3. TreeAt(f, k) \in Word /\ TreeAt(g, k) \in Word  BY <1>2, <2>1, TreeIsShift, ShrWord
      <4> QED  BY <1>0, <4>1, <4>2, <4>3, SplitInjective
    <3> QED  BY <1>0, <1>5, <3>1, <3>2
  <2>3. MsgAt(s, f, m) = XmssRoot(s.sk, s.pk, k, TreeAt(f, k))  BY <2>1 DEF MsgAt
  <2>4. LeafAt(g, k) = LeafAt(f, k) /\ r[k] = MsgAt(s, f, k) /\ e.sig.ht[k] = h.ht[k]
    BY <1>1, <1>5, <2>1, <2>2, <2>3 DEF LayerBinds
  <2>5. \A i \in Layers : i >= k => i = k \/ i >= m  BY <2>1 DEF Layers
  <2>6. k \in T  BY <1>5, <2>1, <2>2, <2>4, <2>5
  <2> HIDE DEF T
  <2> QED  BY <1>4, <1>5, <2>1, <2>6
<1>7. TreeAt(g, 0) = g.tree /\ TreeAt(f, 0) = f.tree /\ LeafAt(g, 0) = g.leaf /\ LeafAt(f, 0) = f.leaf
      /\ MsgAt(s, f, 0) = ForsPk(s.sk, s.pk, f.tree, f.leaf)
  BY DEF TreeAt, LeafAt, MsgAt
<1>8. g = f /\ e.sig.fors = h.fors
  BY <1>0, <1>1, <1>5, <1>6, <1>7 DEF ForsBinds
<1>9. \A k \in Layers : k >= 0  BY DEF Layers
<1> QED  BY <1>5, <1>6, <1>8, <1>9
-----------------------------------------------------------------------------
\* How the signature handed to verify came from the one that sign made.
Came(e) ==
    LET h == HonestSig(sk.seeds, Own)
    IN  \/ got.change = "input" /\ e.sig = h
        \/ \E i \in Trees, p \in Places : e.sig.fors[i] = Damage(h.fors[i], p)
        \/ \E k \in Layers, p \in Places : e.sig.ht[k] = Damage(h.ht[k], p)

\* e is what verify has been handed.
Holds(e) ==
    /\ e.on = GotFields
    /\ e.sig.fors = got.sig.fors
    /\ \A k \in Layers : e.sig.ht[k] = got.sig.ht[k]

InvHanded ==
    pc \in {"received", "verifying", "judged"} /\ got.change # "none" /\ Whole(got.sig) =>
        \E e \in Handed(sk.seeds, Own) : Came(e) /\ Holds(e)

LEMMA HandedStep == IInv /\ InvHanded /\ [Next]_vars => InvHanded'
<1> SUFFICES ASSUME IInv, InvHanded, [Next]_vars PROVE InvHanded'
  OBVIOUS
<1>1. CASE SignEnd
  <2>1. /\ pc = "signing" /\ j = D /\ UNCHANGED <<sk, in, sig_fors, sig_ht>>
    BY <1>1 DEF SignEnd, Deliver, signVars
  <2>2. /\ sk.seeds \in Seeds /\ sk.pk_root = TopRoot(sk.seeds) /\ in.msg \in Msgs /\ in.r \in Rands
        /\ ForsSigned(Own) /\ HtSigned(Own, D) /\ DOMAIN sig_ht = Layers
    BY <2>1 DEF IInv, InvKey, InvInput, InvSign, Busy
  <2>3. Own' = Own /\ Own \in Digests(sk.seeds)  BY <2>1, <2>2, InDigests DEF Own
  <2>4. PICK h : h = HonestSig(sk.seeds, Own)  OBVIOUS
  <2>5. h.fors = sig_fors /\ \A k \in Layers : h.ht[k] = sig_ht[k]
    BY <2>2, <2>4 DEF HonestSig, ForsSigned, HtSigned, Layers
  <2>20. DOMAIN sig_fors = Trees  BY <2>2 DEF ForsSigned, ForsOf
  <2>6. \A g \in Digests(sk.seeds) : [on |-> g, sig |-> h] \in Handed(sk.seeds, Own)
    BY <2>4 DEF Handed
  <2>7. \A i \in Trees, p \in Places :
          [on |-> Own, sig |-> TreeDamaged(h, i, p)] \in Handed(sk.seeds, Own)
    BY <2>4 DEF Handed
  <2>8. \A k \in Layers, p \in Places :
          [on |-> Own, sig |-> LayerDamaged(h, k, p)] \in Handed(sk.seeds, Own)
    BY <2>4 DEF Handed
  <2>9. SUFFICES ASSUME got'.change # "none", Whole(got'.sig)
                 PROVE  \E e \in Handed(sk.seeds, Own) : Came(e)' /\ Holds(e)'
    BY <2>1, <2>3 DEF InvHanded
  <2>10. h = HonestSig(sk'.seeds, Own')  BY <2>1, <2>3, <2>4
  <2>11. ASSUME NEW m \in Msgs, NEW r \in Rands, NEW sig, sig.r = r,
                Deliver(m, sig, got'.change)
         PROVE  GotFields' = Fields(sk.seeds, m, r) /\ got'.msg = m /\ got'.sig = sig
    BY <2>1, <2>2, <2>11 DEF Deliver, GotFields, Fields
  <2>12. Signature.r = in.r /\ Signature.fors = sig_fors /\ Signature.ht = sig_ht
    BY DEF Signature
  <2>13. CASE \E k \in Layers, p \in Places : Deliver(in.msg, LayerDamaged(Signature, k, p), "part")
    <3>1. PICK k \in Layers, p \in Places :
             Deliver(in.msg, LayerDamaged(Signature, k, p), "part")
      BY <2>13
    <3>2. PICK sig : sig = LayerDamaged(Signature, k, p)  OBVIOUS
    <3>3. sig.r = in.r /\ sig.fors = sig_fors /\ sig.ht = [sig_ht EXCEPT ![k] = Damage(@, p)]
      BY <3>2 DEF Signature, LayerDamaged
    <3>4. GotFields' = Own /\ got'.sig = sig
      BY <2>2, <2>11, <3>1, <3>2, <3>3 DEF Deliver, Own
    <3>5. PICK e : e = [on |-> Own, sig |-> LayerDamaged(h, k, p)]  OBVIOUS
    <3>6. e.on = Own /\ e.sig.fors = h.fors /\ e.sig.ht = [h.ht EXCEPT ![k] = Damage(@, p)]
      BY <2>4, <3>5 DEF HonestSig, LayerDamaged
    <3>7. DOMAIN h.ht = Layers  BY <2>4 DEF HonestSig
    <3>8. e.sig.ht[k] = Damage(h.ht[k], p) /\ \A i \in Layers : e.sig.ht[i] = sig.ht[i]
      BY <2>2, <2>5, <3>3, <3>6, <3>7
    <3>9. Came(e)'  BY <2>10, <3>8 DEF Came
    <3>10. Holds(e)'  BY <2>5, <3>3, <3>4, <3>6, <3>8 DEF Holds
    <3> QED  BY <2>8, <3>5, <3>9, <3>10
  <2>14. CASE \E i \in Trees, p \in Places : Deliver(in.msg, TreeDamaged(Signature, i, p), "part")
    <3>1. PICK i \in Trees, p \in Places :
             Deliver(in.msg, TreeDamaged(Signature, i, p), "part")
      BY <2>14
    <3>2. PICK sig : sig = TreeDamaged(Signature, i, p)  OBVIOUS
    <3>3. sig.r = in.r /\ sig.ht = sig_ht /\ sig.fors = [sig_fors EXCEPT ![i] = Damage(@, p)]
      BY <3>2 DEF Signature, TreeDamaged
    <3>4. GotFields' = Own /\ got'.sig = sig
      BY <2>2, <2>11, <3>1, <3>2, <3>3 DEF Deliver, Own
    <3>5. PICK e : e = [on |-> Own, sig |-> TreeDamaged(h, i, p)]  OBVIOUS
    <3>6. e.on = Own /\ e.sig.ht = h.ht /\ e.sig.fors = [h.fors EXCEPT ![i] = Damage(@, p)]
      BY <2>4, <3>5 DEF HonestSig, TreeDamaged
    <3>7. e.sig.fors = sig.fors /\ e.sig.fors[i] = Damage(h.fors[i], p)
      BY <2>5, <2>20, <3>3, <3>6
    <3>8. Came(e)'  BY <2>10, <3>7 DEF Came
    <3>9. Holds(e)'  BY <2>5, <3>3, <3>4, <3>6, <3>7 DEF Holds
    <3> QED  BY <2>7, <3>5, <3>8, <3>9
  <2>15. ASSUME NEW m \in Msgs, NEW sig, sig.r \in Rands, sig.fors = sig_fors, sig.ht = sig_ht,
                Deliver(m, sig, "input")
         PROVE  \E e \in Handed(sk.seeds, Own) : Came(e)' /\ Holds(e)'
    <3>1. got'.change = "input"  BY <2>15 DEF Deliver
    <3>2. GotFields' = Fields(sk.seeds, m, sig.r) /\ got'.sig = sig
      BY <2>11, <2>15, <3>1
    <3>3. GotFields' \in Digests(sk.seeds)  BY <2>15, <3>2, InDigests
    <3>4. PICK e : e = [on |-> GotFields', sig |-> h]  OBVIOUS
    <3>5. e.on = GotFields' /\ e.sig = h  BY <3>4
    <3>6. Came(e)'  BY <2>10, <3>1, <3>5 DEF Came
    <3>7. Holds(e)'  BY <2>5, <2>15, <3>2, <3>5 DEF Holds
    <3> QED  BY <2>6, <3>3, <3>4, <3>6, <3>7
  <2>16. CASE \E m \in Msgs \ {in.msg} : Deliver(m, Signature, "input")
    BY <2>2, <2>12, <2>15, <2>16
  <2>17. CASE \E r \in Rands \ {in.r} : Deliver(in.msg, [Signature EXCEPT !.r = r], "input")
    <3>1. PICK r \in Rands : Deliver(in.msg, [Signature EXCEPT !.r = r], "input")  BY <2>17
    <3>2. PICK sig : sig = [Signature EXCEPT !.r = r]  OBVIOUS
    <3>3. sig.r = r /\ sig.fors = sig_fors /\ sig.ht = sig_ht  BY <3>2 DEF Signature
    <3> QED  BY <2>2, <2>15, <3>1, <3>2, <3>3
  <2>18. CASE \/ \E n \in {D - 1, D + 1} : Deliver(in.msg, [Signature EXCEPT !.ht = Resized(@, n)], "length")
              \/ \E n \in {K_FORS - 1, K_FORS + 1} :
                   Deliver(in.msg, [Signature EXCEPT !.fors = Resized(@, n)], "length")
    <3>1. \/ \E n \in {D - 1, D + 1} : DOMAIN got'.sig.ht = 0 .. n - 1
          \/ \E n \in {K_FORS - 1, K_FORS + 1} : DOMAIN got'.sig.fors = 0 .. n - 1
      BY <2>18 DEF Deliver, Signature, Resized
    <3>2. \A k \in Nat \ {0} : \A n \in {k - 1, k + 1} : 0 .. n - 1 # 0 .. k - 1
      <4> SUFFICES ASSUME NEW k \in Nat \ {0}, NEW n \in {k - 1, k + 1}, 0 .. n - 1 = 0 .. k - 1
                   PROVE FALSE
        OBVIOUS
      <4>1. k - 1 \in 0 .. k - 1 /\ k \notin 0 .. k - 1  OBVIOUS
      <4>2. n = k - 1 => k - 1 \notin 0 .. n - 1  OBVIOUS
      <4>3. n = k + 1 => k \in 0 .. n - 1  OBVIOUS
      <4> QED  BY <4>1, <4>2, <4>3
    <3>3. ~Whole(got'.sig)
      <4>1. D \in Nat \ {0} /\ K_FORS \in Nat \ {0}  BY DEF SizeAssumption
      <4> QED  BY <3>1, <3>2, <4>1 DEF Whole, Layers, Trees
    <3> QED  BY <2>9, <3>3
  <2>19. CASE Deliver(in.msg, Signature, "none")
    BY <2>9, <2>19 DEF Deliver
  <2> QED  BY <1>1, <2>13, <2>14, <2>16, <2>17, <2>18, <2>19 DEF SignEnd
<1>2. CASE VerifyStart \/ VerifyLayer \/ VerifyEnd \/ UNCHANGED vars
  <2>1. pc' \in {"received", "verifying", "judged"} => pc \in {"received", "verifying", "judged"}
    BY <1>2 DEF VerifyStart, VerifyLayer, VerifyEnd, vars
  <2>2. UNCHANGED <<sk, in, got>>
    BY <1>2 DEF VerifyStart, VerifyLayer, VerifyEnd, signVars, vars
  <2>3. Own' = Own /\ GotFields' = GotFields  BY <2>2 DEF Own, GotFields
  <2>4. \A e : (Came(e)' <=> Came(e)) /\ (Holds(e)' <=> Holds(e))
    BY <2>2, <2>3 DEF Came, Holds
  <2> QED  BY <2>1, <2>2, <2>3, <2>4 DEF InvHanded
<1>3. CASE WitnessStart \/ WitnessLayer \/ WitnessEnd \/ SignLayer \/ NextSignature
           \/ (\E s \in Seeds : KeyGen(s)) \/ (\E m \in Msgs, r \in Rands : SignFors(m, r))
  <2>1. pc' \in {"idle", "signing", "emitting", "emitted", "panic"}
    BY <1>3 DEF WitnessStart, Open, WitnessLayer, WitnessEnd, SignLayer, NextSignature, KeyGen, SignFors
  <2> QED  BY <2>1 DEF InvHanded
<1> QED
  BY <1>1, <1>2, <1>3 DEF Next, Finished

(***************************************************************************)
(* tampered_signature_fails and wrong_message_fails for a change at any    *)
(* place: if the hash has no collision on the walks that verify makes,     *)
(* verify refuses every altered signature, and accepts one for another     *)
(* message or randomizer only if its digest is the same.                   *)
(***************************************************************************)
THEOREM AlteredSignaturesFail ==
    ASSUME NoCollision PROVE Spec => []AlteredRejected
<1>1. Init => InvHanded  BY DEF Init, InvHanded
<1>2. IInv /\ TypeInv /\ InvGot /\ InvWalks /\ InvHanded => AlteredRejected
  <2> SUFFICES ASSUME IInv, TypeInv, InvGot, InvWalks, InvHanded,
                      pc = "judged", got.change # "none", verdict # FALSE
               PROVE  got.change = "input" /\ GotFields = Fields(sk.seeds, in.msg, in.r)
    BY DEF AlteredRejected
  <2>1. Whole(got.sig)  BY DEF TypeInv, InvLen
  <2>2. PICK w : Judges(w)  BY <2>1 DEF InvWalks
  <2>3. PICK e \in Handed(sk.seeds, Own) : Came(e) /\ Holds(e)  BY <2>1 DEF InvHanded
  <2>4. /\ sk.seeds \in Seeds /\ sk.pk_root = TopRoot(sk.seeds) /\ in.msg \in Msgs /\ in.r \in Rands
        /\ got.msg \in Msgs /\ got.sig.r \in Rands
    BY DEF IInv, InvKey, InvInput, InvGot, Busy
  <2>5. Own \in Digests(sk.seeds) /\ GotFields \in Digests(sk.seeds)
    BY <2>4, InDigests DEF Own, GotFields, Fields
  <2>6. w[D] = TopRoot(sk.seeds)  BY <2>2, <2>4 DEF Judges
  <2>7. /\ w[0] = ForsPkFromSig(sk.seeds.pk, e.on.tree, e.on.leaf, e.on.md, e.sig.fors)
        /\ \A k \in Layers :
             w[k + 1] = XmssPkFromSig(sk.seeds.pk, k, TreeAt(e.on, k), LeafAt(e.on, k), w[k], e.sig.ht[k])
    BY <2>2, <2>3 DEF Judges, Walk, Holds, Layers
  <2>8. RootsOf(sk.seeds, e.on, e.sig)[D] = TopRoot(sk.seeds)
    <3>1. D \in 0 .. D  BY DEF SizeAssumption
    <3> QED  BY <2>6, <2>7, <3>1, RootsUnique
  <2>9. /\ e.on = Own /\ e.sig.fors = HonestSig(sk.seeds, Own).fors
        /\ \A k \in Layers : e.sig.ht[k] = HonestSig(sk.seeds, Own).ht[k]
    BY <2>3, <2>4, <2>5, <2>8, OnlyHonestPasses DEF Holds
  <2>10. DamageShows(sk.seeds, Own)  BY <2>4, <2>5 DEF NoCollision
  <2>11. got.change = "input"
    BY <2>3, <2>9, <2>10 DEF Came, DamageShows
  <2> QED  BY <2>3, <2>9, <2>11 DEF Holds, Own
<1> QED
  BY <1>1, <1>2, Invariant, TypeInvariant, GotInit, GotStep, WalksStep, HandedStep, PTL DEF Spec
=============================================================================
