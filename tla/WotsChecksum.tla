---------------------------- MODULE WotsChecksum ----------------------------
(***************************************************************************)
(* base2b_with_csum of signer.rs, its three loops as written, run on two   *)
(* digests side by side so that what two digests are turned into can be    *)
(* compared.  A digest has N bytes (16), so 2N message chunks and three    *)
(* checksum chunks (35 in all).                                            *)
(***************************************************************************)
EXTENDS Integers

CONSTANTS
    N,        \* bytes of a digest
    Inputs    \* the digests that may come (any)

ASSUME SizeAssumption == N \in 1 .. 16 /\ Inputs \subseteq [0 .. N - 1 -> 0 .. 255]

WOTS_MAX == 15
Both     == {1, 2}
MsgChunks == 0 .. 2 * N - 1
Chunks    == 0 .. 2 * N + 2

VARIABLES
    stage,    \* "split", "sum", "digits", "done"
    digests,  \* the two inputs
    loop,     \* loop position: a byte, then a chunk
    chunks,   \* the two outputs
    csum      \* the two checksums (u32; at most 480)

csumVars == <<stage, digests, loop, chunks, csum>>

CsumTypeOK ==
    /\ stage \in {"split", "sum", "digits", "done"}
    /\ digests \in [Both -> Inputs]
    /\ loop \in 0 .. 2 * N
    /\ chunks \in [Both -> [Chunks -> 0 .. WOTS_MAX]]
    /\ csum \in [Both -> 0 .. 2 * N * WOTS_MAX]

CsumInit ==
    /\ stage = "split"
    /\ digests \in [Both -> Inputs]
    /\ loop = 0
    /\ chunks = [w \in Both |-> [c \in Chunks |-> 0]]
    /\ csum = [w \in Both |-> 0]

High(byte) == (byte \div 16) % 16
\* Faulty: the low nibble is not masked.
FaultyLower(byte) == byte

Lower(byte) == byte % 16

SplitByte ==
    /\ stage = "split" /\ loop < N
    /\ chunks' = [w \in Both |-> [chunks[w] EXCEPT ![2 * loop]     = High(digests[w][loop]),
                                                   ![2 * loop + 1] = Lower(digests[w][loop])]]
    /\ loop' = loop + 1
    /\ UNCHANGED <<stage, digests, csum>>

SplitEnd ==
    /\ stage = "split" /\ loop = N
    /\ stage' = "sum" /\ loop' = 0
    /\ UNCHANGED <<digests, chunks, csum>>

\* Faulty: the chunks themselves are summed.
FaultyAddChunk ==
    /\ stage = "sum" /\ loop < 2 * N
    /\ csum' = [w \in Both |-> csum[w] + chunks[w][loop]]
    /\ loop' = loop + 1
    /\ UNCHANGED <<stage, digests, chunks>>

AddChunk ==
    /\ stage = "sum" /\ loop < 2 * N
    /\ csum' = [w \in Both |-> csum[w] + (WOTS_MAX - chunks[w][loop])]
    /\ loop' = loop + 1
    /\ UNCHANGED <<stage, digests, chunks>>

SumEnd ==
    /\ stage = "sum" /\ loop = 2 * N
    /\ stage' = "digits"
    /\ UNCHANGED <<digests, loop, chunks, csum>>

(***************************************************************************)
(* The checksum as three chunks: bit 8, bits 4 to 7, bits 0 to 3.          *)
(***************************************************************************)
\* Faulty: the sum is made a byte before it is shifted.
FaultyCsumTop(c) == ((c % 256) \div 256) % 2

CsumTop(c) == (c \div 256) % 2
CsumMid(c) == (c \div 16) % 16
CsumLow(c) == c % 16

CsumDigits ==
    /\ stage = "digits"
    /\ chunks' = [w \in Both |-> [chunks[w] EXCEPT ![2 * N]     = CsumTop(csum[w]),
                                                   ![2 * N + 1] = CsumMid(csum[w]),
                                                   ![2 * N + 2] = CsumLow(csum[w])]]
    /\ stage' = "done"
    /\ UNCHANGED <<digests, loop, csum>>

CsumFinished == stage = "done" /\ UNCHANGED csumVars

CsumNext == SplitByte \/ SplitEnd \/ AddChunk \/ SumEnd \/ CsumDigits \/ CsumFinished

CsumSpec == CsumInit /\ [][CsumNext]_csumVars
-----------------------------------------------------------------------------
(***************************************************************************)
(* What the checksum is for: the chunks of one digest are never all at     *)
(* most those of another, so no signature gives every chain value another  *)
(* one starts from (sign publishes position chunks[i] of chain i, and a    *)
(* chain can only be walked upwards).                                      *)
(***************************************************************************)
NoDominance ==
    stage = "done" /\ digests[1] # digests[2] =>
        \E c \in Chunks : chunks[1][c] > chunks[2][c]

(***************************************************************************)
(* The three checksum chunks hold the whole checksum: nothing is lost by   *)
(* the masks 0x1 and 0xf.                                                  *)
(***************************************************************************)
CsumExact ==
    stage = "done" =>
        \A w \in Both :
            csum[w] = 256 * chunks[w][2 * N] + 16 * chunks[w][2 * N + 1] + chunks[w][2 * N + 2]
=============================================================================
