----------------------------- MODULE WotsChains -----------------------------
(***************************************************************************)
(* One WOTS+ key of signer.rs: wots_pk_full walks every chain to its end,  *)
(* sign walks chain i to position chunks[i] and publishes the value,       *)
(* wots_pk_from_sig walks on from there.  Position k + 1 is the hash of    *)
(* position k under ADRS.hash = k on every side.  The compression of the   *)
(* chain ends by T_len is a function of them and is left out.              *)
(***************************************************************************)
EXTENDS Integers

CONSTANTS
    LEN,           \* chains (35)
    WOTS_MAX,      \* last position of a chain (15)
    None,
    Start(_),      \* prf_sk under the WOTS_PRF address of chain i
    F(_, _, _)     \* slh_f under (chain i, hash k) of a value

Chains    == 0 .. LEN - 1
Positions == 0 .. WOTS_MAX

ASSUME SizeAssumption == LEN \in Nat \ {0} /\ WOTS_MAX \in Nat \ {0}

VARIABLES
    phase,     \* "keygen", "sign", "verify", "done"
    i, k,      \* chain and position of the loop in progress
    chunks,    \* what base2b_with_csum made of the message
    chain,     \* history: chain[c][p], the values wots_pk_full went through
    ends,      \* the chain ends wots_pk_full compresses
    cur,       \* the value the loop carries
    sig,       \* the published values
    vends,     \* the chain ends wots_pk_from_sig compresses
    hops       \* history: the ADRS.hash words sign and verify used on each chain

vars == <<phase, i, k, chunks, chain, ends, cur, sig, vends, hops>>

IsTable(f, S) == f = [x \in S |-> f[x]]

TypeOK ==
    /\ phase \in {"keygen", "sign", "verify", "done"}
    /\ i \in Chains /\ k \in Positions
    /\ chunks \in [Chains -> Positions]
    /\ IsTable(chain, Chains) /\ \A c \in Chains : IsTable(chain[c], Positions)
    /\ IsTable(ends, Chains) /\ IsTable(sig, Chains) /\ IsTable(vends, Chains)
    /\ hops \in [Chains -> [{"sign", "verify"} -> SUBSET Positions]]

Init ==
    /\ phase = "keygen"
    /\ i = 0 /\ k = 0
    /\ chunks \in [Chains -> Positions]
    /\ chain = [c \in Chains |-> [p \in Positions |-> IF c = 0 /\ p = 0 THEN Start(0) ELSE None]]
    /\ ends = [c \in Chains |-> None]
    /\ cur = Start(0)
    /\ sig = [c \in Chains |-> None]
    /\ vends = [c \in Chains |-> None]
    /\ hops = [c \in Chains |-> [who \in {"sign", "verify"} |-> {}]]

\* Faulty: one step too many.
FaultyKeyStep ==
    /\ phase = "keygen" /\ k <= WOTS_MAX
    /\ cur' = F(i, k, cur)
    /\ k' = k + 1
    /\ UNCHANGED <<phase, i, chunks, chain, ends, sig, vends, hops>>

(***************************************************************************)
(* wots_pk_full: a step of chain i, or its end and the start of the next.  *)
(***************************************************************************)
KeyStep ==
    /\ phase = "keygen" /\ k < WOTS_MAX
    /\ cur' = F(i, k, cur)
    /\ chain' = [chain EXCEPT ![i][k + 1] = cur']
    /\ k' = k + 1
    /\ UNCHANGED <<phase, i, chunks, ends, sig, vends, hops>>

KeyEnd ==
    /\ phase = "keygen" /\ k = WOTS_MAX
    /\ ends' = [ends EXCEPT ![i] = cur]
    /\ k' = 0
    /\ IF i < LEN - 1
       THEN /\ i' = i + 1
            /\ cur' = Start(i + 1)
            /\ chain' = [chain EXCEPT ![i + 1][0] = cur']
            /\ UNCHANGED phase
       ELSE /\ i' = 0
            /\ cur' = Start(0)
            /\ phase' = "sign"
            /\ UNCHANGED chain
    /\ UNCHANGED <<chunks, sig, vends, hops>>

(***************************************************************************)
(* sign: the same chain from the same secret, up to chunks[i].             *)
(***************************************************************************)
SignStep ==
    /\ phase = "sign" /\ k < chunks[i]
    /\ cur' = F(i, k, cur)
    /\ hops' = [hops EXCEPT ![i]["sign"] = @ \cup {k}]
    /\ k' = k + 1
    /\ UNCHANGED <<phase, i, chunks, chain, ends, sig, vends>>

SignEnd ==
    /\ phase = "sign" /\ k = chunks[i]
    /\ sig' = [sig EXCEPT ![i] = cur]
    /\ k' = 0
    /\ IF i < LEN - 1
       THEN i' = i + 1 /\ cur' = Start(i + 1) /\ UNCHANGED phase
       ELSE i' = 0 /\ cur' = sig'[0] /\ phase' = "verify"
    /\ UNCHANGED <<chunks, chain, ends, vends, hops>>

\* Faulty: the verifier's hash words start at 0, not at the chunk.
FaultyVerifyStep ==
    /\ phase = "verify" /\ k < WOTS_MAX - chunks[i]
    /\ cur' = F(i, k, cur)
    /\ hops' = [hops EXCEPT ![i]["verify"] = @ \cup {k}]
    /\ k' = k + 1
    /\ UNCHANGED <<phase, i, chunks, chain, ends, sig, vends>>

(***************************************************************************)
(* wots_pk_from_sig: WOTS_MAX - start further steps, hashes start + k.     *)
(***************************************************************************)
VerifyStep ==
    /\ phase = "verify" /\ k < WOTS_MAX - chunks[i]
    /\ cur' = F(i, chunks[i] + k, cur)
    /\ hops' = [hops EXCEPT ![i]["verify"] = @ \cup {chunks[i] + k}]
    /\ k' = k + 1
    /\ UNCHANGED <<phase, i, chunks, chain, ends, sig, vends>>

\* Faulty: the next chain starts from the value of this one.
FaultyVerifyEnd ==
    /\ phase = "verify" /\ k = WOTS_MAX - chunks[i]
    /\ vends' = [vends EXCEPT ![i] = cur]
    /\ IF i < LEN - 1
       THEN i' = i + 1 /\ k' = 0 /\ cur' = sig[i] /\ UNCHANGED phase
       ELSE phase' = "done" /\ UNCHANGED <<i, k, cur>>
    /\ UNCHANGED <<chunks, chain, ends, sig, hops>>

VerifyEnd ==
    /\ phase = "verify" /\ k = WOTS_MAX - chunks[i]
    /\ vends' = [vends EXCEPT ![i] = cur]
    /\ IF i < LEN - 1
       THEN i' = i + 1 /\ k' = 0 /\ cur' = sig[i + 1] /\ UNCHANGED phase
       ELSE phase' = "done" /\ UNCHANGED <<i, k, cur>>
    /\ UNCHANGED <<chunks, chain, ends, sig, hops>>

Finished == phase = "done" /\ UNCHANGED vars

Next == KeyStep \/ KeyEnd \/ SignStep \/ SignEnd \/ VerifyStep \/ VerifyEnd \/ Finished

Spec == Init /\ [][Next]_vars
-----------------------------------------------------------------------------
(***************************************************************************)
(* The chain ends the verifier compresses are the ones key generation      *)
(* compressed, whatever the chunks: the loops of wots_pk_full, sign and    *)
(* wots_pk_from_sig meet at the published position without a gap, an       *)
(* overlap or a different hash word.                                       *)
(***************************************************************************)
EndsAgree == phase = "done" => vends = ends

(***************************************************************************)
(* Each step of a chain is made exactly once, by sign below chunks[i] or   *)
(* by the verifier from there on.                                          *)
(***************************************************************************)
StepsPartition ==
    phase = "done" =>
        \A c \in Chains :
            /\ hops[c]["sign"] \cap hops[c]["verify"] = {}
            /\ hops[c]["sign"] \cup hops[c]["verify"] = 0 .. WOTS_MAX - 1
=============================================================================
