-------------------------- MODULE WotsChains_proofs --------------------------
(***************************************************************************)
(* Proofs about WotsChains, for any number of chains, any length, any      *)
(* chain hash and any chunks.  The argument: chain, the record of what     *)
(* key generation went through, is the same walk for every side, so the    *)
(* value a loop carries is always the entry of chain at its position.      *)
(***************************************************************************)
EXTENDS WotsChains, TLAPS

ChainTable(t) == IsTable(t, Chains) /\ \A c \in Chains : IsTable(t[c], Positions)

\* u is t with entry p of chain c set to v; w is a table f with entry c set to v.
Entered(u, t, c, p, v) ==
    /\ ChainTable(u)
    /\ u[c][p] = v
    /\ \A d \in Chains, q \in Positions : (d # c \/ q # p) => u[d][q] = t[d][q]

Put(g, f, c, v) ==
    /\ IsTable(g, Chains)
    /\ g[c] = v
    /\ \A d \in Chains : d # c => g[d] = f[d]

(***************************************************************************)
(* What an update of the table of chains leaves alone.                     *)
(***************************************************************************)
LEMMA EnterLemma ==
    ASSUME NEW t, ChainTable(t), NEW c \in Chains, NEW p \in Positions, NEW v
    PROVE  Entered([t EXCEPT ![c][p] = v], t, c, p, v)
  <1> DEFINE u == [t EXCEPT ![c][p] = v]
  <1>1. \A d \in Chains : u[d] = IF d = c THEN [t[c] EXCEPT ![p] = v] ELSE t[d]
    BY DEF ChainTable, IsTable
  <1>2. IsTable(u, Chains)
    BY DEF ChainTable, IsTable
  <1>3. IsTable([t[c] EXCEPT ![p] = v], Positions)
    BY DEF ChainTable, IsTable
  <1>4. \A q \in Positions : [t[c] EXCEPT ![p] = v][q] = IF q = p THEN v ELSE t[c][q]
    BY DEF ChainTable, IsTable
  <1> HIDE DEF u
  <1>5. ChainTable(u)
    BY <1>1, <1>2, <1>3 DEF ChainTable
  <1>6. Entered(u, t, c, p, v)
    BY <1>1, <1>4, <1>5 DEF Entered
  <1> QED BY <1>6 DEF u

(***************************************************************************)
(* What an update of a table with one entry per chain leaves alone.        *)
(***************************************************************************)
LEMMA PutLemma ==
    ASSUME NEW f, IsTable(f, Chains), NEW c \in Chains, NEW v
    PROVE  Put([f EXCEPT ![c] = v], f, c, v)
  BY DEF IsTable, Put
-----------------------------------------------------------------------------
\* The scalars and tables; hops has an invariant of its own below.
Types ==
    /\ phase \in {"keygen", "sign", "verify", "done"}
    /\ i \in Chains /\ k \in Positions
    /\ chunks \in [Chains -> Positions]
    /\ ChainTable(chain)
    /\ IsTable(ends, Chains) /\ IsTable(sig, Chains) /\ IsTable(vends, Chains)

\* Chain c is recorded up to position n, each value the hash of the one before.
Walked(c, n) ==
    /\ chain[c][0] = Start(c)
    /\ \A p \in Positions : p < n => chain[c][p + 1] = F(c, p, chain[c][p])

Whole(c) == Walked(c, WOTS_MAX) /\ ends[c] = chain[c][WOTS_MAX]

AtKeygen ==
    phase = "keygen" =>
        /\ \A c \in Chains : c < i => Whole(c)
        /\ Walked(i, k)
        /\ cur = chain[i][k]

AfterKeygen == phase # "keygen" => \A c \in Chains : Whole(c)

AtSign ==
    phase = "sign" =>
        /\ k <= chunks[i]
        /\ cur = chain[i][k]
        /\ \A c \in Chains : c < i => sig[c] = chain[c][chunks[c]]

AfterSign ==
    phase \in {"verify", "done"} => \A c \in Chains : sig[c] = chain[c][chunks[c]]

AtVerify ==
    phase = "verify" =>
        /\ k <= WOTS_MAX - chunks[i]
        /\ cur = chain[i][chunks[i] + k]
        /\ \A c \in Chains : c < i => vends[c] = chain[c][WOTS_MAX]

AfterVerify == phase = "done" => \A c \in Chains : vends[c] = chain[c][WOTS_MAX]

Inv == Types /\ AtKeygen /\ AfterKeygen /\ AtSign /\ AfterSign /\ AtVerify /\ AfterVerify

LEMMA Bounds ==
    /\ 0 \in Chains /\ 0 \in Positions
    /\ \A c \in Chains : c \in Int /\ c >= 0 /\ c < LEN
    /\ \A p \in Positions : p \in Int /\ p >= 0 /\ p <= WOTS_MAX
    /\ WOTS_MAX \in Positions /\ LEN \in Int
    /\ \A c \in Chains : c < LEN - 1 => c + 1 \in Chains
    /\ \A p \in Positions : p < WOTS_MAX => p + 1 \in Positions
  BY SizeAssumption DEF Chains, Positions

LEMMA InitInv == Init => Inv
  <1> SUFFICES ASSUME Init PROVE Inv
    OBVIOUS
  <1>1. ChainTable(chain) /\ chain[0][0] = Start(0)
    BY Bounds DEF Init, ChainTable, IsTable
  <1>2. Types
    BY <1>1, Bounds DEF Init, Types, IsTable
  <1>3. AtKeygen
    BY <1>1, Bounds DEF Init, AtKeygen, Walked
  <1> QED BY <1>2, <1>3 DEF Init, Inv, AfterKeygen, AtSign, AfterSign, AtVerify, AfterVerify
-----------------------------------------------------------------------------
(***************************************************************************)
(* wots_pk_full: the record grows with the value carried.                  *)
(***************************************************************************)
LEMMA KeyStepInv == ASSUME Inv, KeyStep PROVE Inv'
  <1>1. Entered(chain', chain, i, k + 1, cur')
    BY EnterLemma, Bounds DEF Inv, Types, KeyStep
  <1>2. k \in Int /\ k >= 0 /\ k + 1 \in Positions /\ k' = k + 1 /\ i \in Chains /\ i' = i
    BY Bounds DEF Inv, Types, KeyStep
  <1>3. Types'
    BY <1>1, <1>2 DEF Inv, Types, KeyStep, Entered
  <1>4. AtKeygen'
    <2>1. \A c \in Chains : c < i' => Whole(c)'
      <3> SUFFICES ASSUME NEW c \in Chains, c < i PROVE Whole(c)'
        BY <1>2
      <3>1. Whole(c) /\ c # i
        BY Bounds DEF Inv, AtKeygen, KeyStep
      <3>2. \A q \in Positions : chain'[c][q] = chain[c][q]
        BY <1>1, <3>1 DEF Entered
      <3>3. ends'[c] = ends[c]
        BY DEF KeyStep
      <3> QED BY <3>1, <3>2, <3>3, Bounds DEF Whole, Walked
    <2>2. cur' = F(i, k, chain[i][k]) /\ Walked(i, k)
      BY DEF Inv, AtKeygen, KeyStep
    <2>3. chain'[i][k + 1] = cur' /\ \A q \in Positions : q < k + 1 => chain'[i][q] = chain[i][q]
      BY <1>1, <1>2, Bounds DEF Entered
    <2>4. chain'[i][0] = Start(i)
      BY <2>2, <2>3, <1>2, Bounds DEF Walked
    <2>5. ASSUME NEW p \in Positions, p < k + 1 PROVE chain'[i][p + 1] = F(i, p, chain'[i][p])
      <3>1. CASE p = k
        BY <3>1, <2>2, <2>3, <1>2
      <3>2. CASE p < k
        BY <3>2, <2>2, <2>3, <1>2, Bounds DEF Walked
      <3> QED BY <3>1, <3>2, <2>5, <1>2, Bounds
    <2>6. chain'[i'][k'] = cur'
      BY <2>3, <1>2
    <2>7. Walked(i, k)'
      BY <2>4, <2>5, <1>2 DEF Walked
    <2> QED BY <2>1, <2>6, <2>7 DEF AtKeygen
  <1> QED BY <1>3, <1>4 DEF Inv, KeyStep, AfterKeygen, AtSign, AfterSign, AtVerify, AfterVerify

LEMMA KeyEndInv == ASSUME Inv, KeyEnd PROVE Inv'
  <1>1. Put(ends', ends, i, cur)
    BY PutLemma DEF Inv, Types, KeyEnd
  <1>2. i \in Chains /\ i \in Int /\ i < LEN /\ k = WOTS_MAX /\ cur = chain[i][WOTS_MAX] /\ Walked(i, WOTS_MAX)
    BY Bounds DEF Inv, Types, KeyEnd, AtKeygen
  <1>3. \A c \in Chains : c <= i => ends'[c] = chain[c][WOTS_MAX] /\ Walked(c, WOTS_MAX)
    BY <1>1, <1>2, Bounds DEF Inv, AtKeygen, KeyEnd, Put, Whole
  <1>4. CASE i < LEN - 1
    <2>1. i + 1 \in Chains /\ i' = i + 1 /\ cur' = Start(i + 1) /\ k' = 0 /\ phase' = "keygen"
      BY <1>4, <1>2, Bounds DEF KeyEnd
    <2>2. Entered(chain', chain, i + 1, 0, cur')
      BY <1>4, <2>1, EnterLemma, Bounds DEF Inv, Types, KeyEnd
    <2>3. Types'
      BY <1>1, <2>1, <2>2, Bounds DEF Inv, Types, KeyEnd, Entered, Put
    <2>4. ASSUME NEW c \in Chains, c < i + 1 PROVE Whole(c)'
      <3>1. c <= i /\ c # i + 1
        BY <2>4, <1>2, Bounds
      <3>2. \A q \in Positions : chain'[c][q] = chain[c][q]
        BY <3>1, <2>2 DEF Entered
      <3> QED BY <3>1, <3>2, <1>3, Bounds DEF Whole, Walked
    <2>5. chain'[i + 1][0] = Start(i + 1)
      BY <2>1, <2>2 DEF Entered
    <2>6. AtKeygen'
      BY <2>1, <2>4, <2>5, Bounds DEF AtKeygen, Walked
    <2> QED BY <2>1, <2>3, <2>6 DEF Inv, AfterKeygen, AtSign, AfterSign, AtVerify, AfterVerify
  <1>5. CASE ~(i < LEN - 1)
    <2>1. i' = 0 /\ cur' = Start(0) /\ k' = 0 /\ phase' = "sign" /\ chain' = chain /\ UNCHANGED <<chunks, sig, vends>>
      BY <1>5 DEF KeyEnd
    <2>2. Types'
      BY <1>1, <2>1, Bounds DEF Inv, Types, Put
    <2>3. \A c \in Chains : Whole(c)'
      BY <1>2, <1>3, <1>5, <2>1, Bounds DEF Whole, Walked
    <2>4. chain[0][0] = Start(0)
      BY <1>2, <1>3, Bounds DEF Walked
    <2>5. chunks[0] >= 0
      BY Bounds DEF Inv, Types
    <2>6. AtSign'
      BY <2>1, <2>4, <2>5, Bounds DEF AtSign
    <2> QED BY <2>1, <2>2, <2>3, <2>6 DEF Inv, AtKeygen, AfterKeygen, AfterSign, AtVerify, AfterVerify
  <1> QED BY <1>4, <1>5

(***************************************************************************)
(* sign: the walk below chunks[i] follows the record.                      *)
(***************************************************************************)
LEMMA SignStepInv == ASSUME Inv, SignStep PROVE Inv'
  <1>1. k' = k + 1 /\ k < chunks[i] /\ phase = "sign" /\ cur' = F(i, k, cur)
         /\ UNCHANGED <<phase, i, chunks, chain, ends, sig, vends>>
    BY DEF SignStep
  <1>2. i \in Chains /\ k \in Positions /\ chunks[i] \in Positions /\ k + 1 \in Positions
    BY <1>1, Bounds DEF Inv, Types
  <1>3. cur' = chain[i][k + 1]
    BY <1>1, <1>2, Bounds DEF Inv, AtSign, AfterKeygen, Whole, Walked
  <1>4. Types'
    BY <1>1, <1>2 DEF Inv, Types
  <1>5. AtSign'
    BY <1>1, <1>2, <1>3, Bounds DEF Inv, AtSign
  <1>6. AfterKeygen'
    BY <1>1 DEF Inv, AfterKeygen, Whole, Walked
  <1> QED BY <1>1, <1>4, <1>5, <1>6 DEF Inv, AtKeygen, AfterSign, AtVerify, AfterVerify

LEMMA SignEndInv == ASSUME Inv, SignEnd PROVE Inv'
  <1>1. k = chunks[i] /\ k' = 0 /\ phase = "sign" /\ UNCHANGED <<chunks, chain, ends, vends>>
    BY DEF SignEnd
  <1>2. Put(sig', sig, i, cur)
    BY PutLemma DEF Inv, Types, SignEnd
  <1>3. i \in Chains /\ cur = chain[i][chunks[i]]
    BY <1>1 DEF Inv, Types, AtSign
  <1>4. \A c \in Chains : c <= i => sig'[c] = chain[c][chunks[c]]
    BY <1>1, <1>2, <1>3, Bounds DEF Inv, AtSign, Put
  <1>5. AfterKeygen'
    BY <1>1 DEF Inv, AfterKeygen, Whole, Walked
  <1>6. \A c \in Chains : chain[c][0] = Start(c) /\ chunks[c] \in Positions
    BY <1>1 DEF Inv, Types, AfterKeygen, Whole, Walked
  <1>7. CASE i < LEN - 1
    <2>1. i' = i + 1 /\ i + 1 \in Chains /\ cur' = Start(i + 1) /\ phase' = phase
      BY <1>7, <1>3, Bounds DEF SignEnd
    <2>2. Types'
      BY <1>1, <1>2, <2>1, Bounds DEF Inv, Types, Put
    <2>3. AtSign'
      BY <1>1, <1>3, <1>4, <1>6, <2>1, Bounds DEF AtSign
    <2> QED BY <1>1, <1>5, <2>1, <2>2, <2>3 DEF Inv, AtKeygen, AfterSign, AtVerify, AfterVerify
  <1>8. CASE ~(i < LEN - 1)
    <2>1. i' = 0 /\ cur' = sig'[0] /\ phase' = "verify"
      BY <1>8 DEF SignEnd
    <2>2. Types'
      BY <1>1, <1>2, <2>1, Bounds DEF Inv, Types, Put
    <2>3. \A c \in Chains : sig'[c] = chain[c][chunks[c]]
      BY <1>3, <1>4, <1>8, Bounds
    <2>4. cur' = chain[0][chunks[0] + 0] /\ 0 <= WOTS_MAX - chunks[0]
      BY <2>1, <2>3, <1>6, Bounds
    <2>5. AtVerify'
      BY <2>1, <2>4, <1>1, Bounds DEF AtVerify
    <2>6. AfterSign'
      BY <1>1, <2>3 DEF AfterSign
    <2> QED BY <1>1, <1>5, <2>1, <2>2, <2>5, <2>6 DEF Inv, AtKeygen, AtSign, AfterVerify
  <1> QED BY <1>7, <1>8

(***************************************************************************)
(* wots_pk_from_sig: step start + k follows the record to its end.         *)
(***************************************************************************)
LEMMA VerifyStepInv == ASSUME Inv, VerifyStep PROVE Inv'
  <1>1. k' = k + 1 /\ k < WOTS_MAX - chunks[i] /\ phase = "verify" /\ cur' = F(i, chunks[i] + k, cur)
         /\ UNCHANGED <<phase, i, chunks, chain, ends, sig, vends>>
    BY DEF VerifyStep
  <1>2. i \in Chains /\ k \in Positions /\ chunks[i] \in Positions
    BY DEF Inv, Types
  <1>3. k + 1 \in Positions /\ chunks[i] + k \in Positions /\ chunks[i] + k < WOTS_MAX
    BY <1>1, <1>2, SizeAssumption DEF Positions
  <1>4. cur' = chain[i][chunks[i] + k + 1]
    BY <1>1, <1>2, <1>3 DEF Inv, AtVerify, AfterKeygen, Whole, Walked
  <1>5. chunks[i] + k + 1 = chunks[i] + (k + 1)
    BY <1>2, Bounds
  <1>6. Types'
    BY <1>1, <1>3 DEF Inv, Types
  <1>7. AtVerify'
    BY <1>1, <1>2, <1>4, <1>5, Bounds DEF Inv, AtVerify
  <1>8. AfterKeygen'
    BY <1>1 DEF Inv, AfterKeygen, Whole, Walked
  <1> QED BY <1>1, <1>6, <1>7, <1>8 DEF Inv, AtKeygen, AtSign, AfterSign, AfterVerify

LEMMA VerifyEndInv == ASSUME Inv, VerifyEnd PROVE Inv'
  <1>1. k = WOTS_MAX - chunks[i] /\ phase = "verify" /\ UNCHANGED <<chunks, chain, ends, sig>>
    BY DEF VerifyEnd
  <1>2. Put(vends', vends, i, cur)
    BY PutLemma DEF Inv, Types, VerifyEnd
  <1>3. i \in Chains /\ chunks[i] \in Positions
    BY DEF Inv, Types
  <1>4. cur = chain[i][WOTS_MAX]
    <2>1. cur = chain[i][chunks[i] + k]
      BY <1>1 DEF Inv, AtVerify
    <2>2. chunks[i] + k = WOTS_MAX
      BY <1>1, <1>3, Bounds
    <2> QED BY <2>1, <2>2
  <1>5. \A c \in Chains : c <= i => vends'[c] = chain[c][WOTS_MAX]
    BY <1>1, <1>2, <1>3, <1>4, Bounds DEF Inv, AtVerify, Put
  <1>6. AfterKeygen'
    BY <1>1 DEF Inv, AfterKeygen, Whole, Walked, VerifyEnd
  <1>7. CASE i < LEN - 1
    <2>1. i' = i + 1 /\ i + 1 \in Chains /\ cur' = sig[i + 1] /\ k' = 0 /\ phase' = phase
      BY <1>7, <1>3, Bounds DEF VerifyEnd
    <2>2. Types'
      BY <1>1, <1>2, <2>1, Bounds DEF Inv, Types, Put
    <2>3. chunks[i + 1] \in Positions /\ cur' = chain[i + 1][chunks[i + 1] + 0]
      BY <1>1, <2>1, Bounds DEF Inv, Types, AfterSign
    <2>4. AtVerify'
      BY <1>1, <1>3, <1>5, <2>1, <2>3, Bounds DEF AtVerify
    <2> QED BY <1>1, <1>6, <2>1, <2>2, <2>4 DEF Inv, AtKeygen, AtSign, AfterSign, AfterVerify
  <1>8. CASE ~(i < LEN - 1)
    <2>1. i' = i /\ k' = k /\ phase' = "done"
      BY <1>8 DEF VerifyEnd
    <2>2. Types'
      BY <1>1, <1>2, <2>1 DEF Inv, Types, Put
    <2>3. AfterVerify'
      BY <1>1, <1>3, <1>5, <1>8, Bounds DEF AfterVerify
    <2> QED BY <1>1, <1>6, <2>1, <2>2, <2>3 DEF Inv, AtKeygen, AtSign, AfterSign, AtVerify
  <1> QED BY <1>7, <1>8

LEMMA InvStep == Inv /\ [Next]_vars => Inv'
  <1> SUFFICES ASSUME Inv, [Next]_vars PROVE Inv'
    OBVIOUS
  <1>1. CASE UNCHANGED vars
    BY <1>1 DEF vars, Inv, Types, AtKeygen, AfterKeygen, AtSign, AfterSign, AtVerify, AfterVerify,
                Whole, Walked
  <1>2. CASE Next
    BY <1>1, <1>2, KeyStepInv, KeyEndInv, SignStepInv, SignEndInv, VerifyStepInv, VerifyEndInv
       DEF Next, Finished
  <1> QED BY <1>1, <1>2

LEMMA InvGivesEnds == Inv => EndsAgree
  <1> SUFFICES ASSUME Inv, phase = "done" PROVE vends = ends
    BY DEF EndsAgree
  <1>1. \A c \in Chains : vends[c] = ends[c]
    BY DEF Inv, AfterVerify, AfterKeygen, Whole
  <1> QED BY <1>1 DEF Inv, Types, IsTable

(***************************************************************************)
(* The verifier's chain ends are the signer's (wots_pk_from_sig against    *)
(* wots_pk_full), for every message, every number and length of chains and *)
(* every chain hash.                                                       *)
(***************************************************************************)
THEOREM VerifierReachesEnds == Spec => []EndsAgree
  <1>1. Spec => []Inv
    BY InitInv, InvStep, PTL DEF Spec
  <1> QED BY <1>1, InvGivesEnds, PTL
-----------------------------------------------------------------------------
\* The hash words from a up to b.
Between(a, b) == {p \in Positions : a <= p /\ p < b}

\* How far sign has come on chain c, and how far the verifier.
SignedTo(c) ==
    CASE phase = "keygen" -> 0
      [] phase = "sign"   -> IF c < i THEN chunks[c] ELSE IF c = i THEN k ELSE 0
      [] phase \in {"verify", "done"} -> chunks[c]

VerifiedTo(c) ==
    CASE phase \in {"keygen", "sign"} -> chunks[c]
      [] phase = "verify" -> IF c < i THEN WOTS_MAX ELSE IF c = i THEN chunks[c] + k ELSE chunks[c]
      [] phase = "done"   -> WOTS_MAX

HopsInv ==
    /\ hops \in [Chains -> [{"sign", "verify"} -> SUBSET Positions]]
    /\ \A c \in Chains :
         /\ hops[c]["sign"] = Between(0, SignedTo(c))
         /\ hops[c]["verify"] = Between(chunks[c], VerifiedTo(c))

LEMMA HopsInit == Init => HopsInv
  <1> SUFFICES ASSUME Init PROVE HopsInv
    OBVIOUS
  <1>1. hops \in [Chains -> [{"sign", "verify"} -> SUBSET Positions]]
    BY DEF Init
  <1>2. ASSUME NEW c \in Chains
        PROVE  hops[c]["sign"] = Between(0, SignedTo(c)) /\ hops[c]["verify"] = Between(chunks[c], VerifiedTo(c))
    <2>1. hops[c]["sign"] = {} /\ hops[c]["verify"] = {} /\ chunks[c] \in Positions
      BY <1>2 DEF Init
    <2>2. SignedTo(c) = 0 /\ VerifiedTo(c) = chunks[c]
      BY DEF Init, SignedTo, VerifiedTo
    <2>3. Between(0, 0) = {} /\ Between(chunks[c], chunks[c]) = {}
      BY <2>1, Bounds DEF Between
    <2> QED BY <2>1, <2>2, <2>3
  <1> QED BY <1>1, <1>2 DEF HopsInv

\* One more hash word on one side of one chain.
LEMMA HopLemma ==
    ASSUME HopsInv, NEW c \in Chains, NEW who \in {"sign", "verify"}, NEW p \in Positions,
           hops' = [hops EXCEPT ![c][who] = @ \cup {p}]
    PROVE  /\ hops' \in [Chains -> [{"sign", "verify"} -> SUBSET Positions]]
           /\ \A d \in Chains, w \in {"sign", "verify"} :
                hops'[d][w] = IF d = c /\ w = who THEN hops[d][w] \cup {p} ELSE hops[d][w]
  BY DEF HopsInv

LEMMA HopsStep == Inv /\ HopsInv /\ [Next]_vars => HopsInv'
  <1> SUFFICES ASSUME Inv, HopsInv, [Next]_vars PROVE HopsInv'
    OBVIOUS
  <1>1. /\ phase \in {"keygen", "sign", "verify", "done"}
        /\ i \in Chains /\ k \in Positions /\ chunks \in [Chains -> Positions]
    BY DEF Inv, Types
  <1>2. CASE SignStep
    <2>1. /\ phase = "sign" /\ k < chunks[i] /\ k' = k + 1 /\ UNCHANGED <<phase, i, chunks>>
          /\ hops' = [hops EXCEPT ![i]["sign"] = @ \cup {k}]
      BY <1>2 DEF SignStep
    <2>2. \A c \in Chains : SignedTo(c)' = (IF c = i THEN SignedTo(c) + 1 ELSE SignedTo(c))
                            /\ VerifiedTo(c)' = VerifiedTo(c) /\ chunks'[c] = chunks[c]
      BY <1>1, <2>1, Bounds DEF SignedTo, VerifiedTo
    <2>3. SignedTo(i) = k /\ Between(0, k + 1) = Between(0, k) \cup {k}
      BY <1>1, <2>1, Bounds DEF SignedTo, Between
    <2> QED BY <1>1, <2>1, <2>2, <2>3, HopLemma DEF HopsInv
  <1>3. CASE VerifyStep
    <2>1. /\ phase = "verify" /\ k < WOTS_MAX - chunks[i] /\ k' = k + 1 /\ UNCHANGED <<phase, i, chunks>>
          /\ hops' = [hops EXCEPT ![i]["verify"] = @ \cup {chunks[i] + k}]
      BY <1>3 DEF VerifyStep
    <2>2. \A c \in Chains : SignedTo(c)' = SignedTo(c) /\ chunks'[c] = chunks[c]
                            /\ VerifiedTo(c)' = (IF c = i THEN VerifiedTo(c) + 1 ELSE VerifiedTo(c))
      BY <1>1, <2>1, Bounds DEF SignedTo, VerifiedTo
    <2>3. VerifiedTo(i) = chunks[i] + k /\ chunks[i] \in Positions /\ chunks[i] + k \in Positions
      <3>1. VerifiedTo(i) = chunks[i] + k
        BY <1>1, <2>1, Bounds DEF VerifiedTo
      <3>2. chunks[i] \in Positions
        BY <1>1
      <3> QED BY <1>1, <2>1, <3>1, <3>2, SizeAssumption DEF Positions
    <2>4. Between(chunks[i], chunks[i] + k + 1) = Between(chunks[i], chunks[i] + k) \cup {chunks[i] + k}
      BY <1>1, <2>3, Bounds DEF Between
    <2> QED BY <1>1, <2>1, <2>2, <2>3, <2>4, HopLemma DEF HopsInv
  <1>4. ASSUME UNCHANGED <<hops, chunks>>,
               \A c \in Chains : SignedTo(c)' = SignedTo(c) /\ VerifiedTo(c)' = VerifiedTo(c)
        PROVE  HopsInv'
    BY <1>4 DEF HopsInv
  <1>5. CASE KeyStep
    BY <1>4, <1>5 DEF KeyStep, SignedTo, VerifiedTo
  <1>6. CASE KeyEnd
    BY <1>1, <1>4, <1>6, Bounds DEF KeyEnd, SignedTo, VerifiedTo
  <1>7. CASE SignEnd
    BY <1>1, <1>4, <1>7, Bounds DEF SignEnd, SignedTo, VerifiedTo
  <1>8. CASE VerifyEnd
    BY <1>1, <1>4, <1>8, Bounds DEF VerifyEnd, SignedTo, VerifiedTo
  <1>9. CASE UNCHANGED vars
    BY <1>4, <1>9 DEF vars, SignedTo, VerifiedTo
  <1> QED BY <1>2, <1>3, <1>5, <1>6, <1>7, <1>8, <1>9 DEF Next, Finished

(***************************************************************************)
(* The state keeps its types, the hash words included (they never reach    *)
(* WOTS_MAX).                                                              *)
(***************************************************************************)
THEOREM ChainTypes == Spec => []TypeOK
  <1>1. Inv /\ HopsInv => TypeOK
    BY DEF Inv, Types, HopsInv, TypeOK, ChainTable
  <1> QED BY <1>1, InitInv, InvStep, HopsInit, HopsStep, PTL DEF Spec

(***************************************************************************)
(* sign and wots_pk_from_sig use every hash word of a chain once between   *)
(* them, for every message and every size.                                 *)
(***************************************************************************)
THEOREM StepsAreSplit == Spec => []StepsPartition
  <1>1. Inv /\ HopsInv => StepsPartition
    <2> SUFFICES ASSUME Inv, HopsInv, phase = "done", NEW c \in Chains
                 PROVE  /\ hops[c]["sign"] \cap hops[c]["verify"] = {}
                        /\ hops[c]["sign"] \cup hops[c]["verify"] = 0 .. WOTS_MAX - 1
      BY DEF StepsPartition
    <2>1. hops[c]["sign"] = Between(0, chunks[c]) /\ hops[c]["verify"] = Between(chunks[c], WOTS_MAX)
      BY DEF HopsInv, SignedTo, VerifiedTo
    <2>2. chunks[c] \in Positions
      BY DEF Inv, Types
    <2> QED BY <2>1, <2>2, Bounds, SizeAssumption DEF Between, Positions
  <1> QED BY <1>1, InitInv, InvStep, HopsInit, HopsStep, PTL DEF Spec
=============================================================================
