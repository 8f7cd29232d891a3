---------------------------- MODULE SlhPrimitives ----------------------------
(***************************************************************************)
(* primitives.rs over poseidon.rs: calls of slh_f, slh_h, slh_tk, slh_tlen *)
(* and slh_hmsg, one round of a permutation per step.  poseidon_gl_reduce  *)
(* hashes its leaves level by level; slh_h absorbs fourteen elements in    *)
(* two blocks; slh_hmsg closes with the two halves of poseidon_gl_hash30.  *)
(***************************************************************************)
EXTENDS PoseidonGl

CONSTANTS
    Calls,      \* [prim, seed, adrs, ms]; adrs is <<r, pk_root>> for "Hmsg"
    MaxCalls    \* bound: calls made one after another

Prims == {"F", "H", "Tk", "Tlen", "Hmsg"}
Trees == {"Tk", "Tlen", "Hmsg"}         \* the primitives that reduce their inputs first

\* A 16-byte value as its two u64 halves, and as two field elements.
Value == (0 .. WORD - 1) \X (0 .. WORD - 1)
Elems == (0 .. P - 1) \X (0 .. P - 1)

ASSUME CallAssumption ==
    /\ MaxCalls \in Nat
    /\ \A c \in Calls :
        /\ c.prim \in Prims /\ c.seed \in Value /\ c.ms \in Seq(Value)
        /\ IF c.prim = "Hmsg" THEN c.adrs[1] \in Value /\ c.adrs[2] \in Value
                              ELSE c.adrs \in Seq(0 .. WORD - 1) /\ Len(c.adrs) = 7
        /\ Len(c.ms) >= 1
        /\ c.prim = "F" => Len(c.ms) = 1
        /\ c.prim = "H" => Len(c.ms) = 2

VARIABLES
    pc,      \* "idle", "reduce", "frame", or the permutation that is running
    call,
    cur, nxt,   \* a level of the reduce, and the next one as far as it is hashed
    lanes, r,   \* the state of the permutation and its next round
    fed,     \* history: the states handed to permute by the hash that runs
    nodes,   \* history: states handed to permute by the reduce, with its result
    out,     \* what the call returned last
    log,     \* history: the calls that ended, with what they fed
    made     \* calls made (bounded by MaxCalls)

vars == <<pc, call, cur, nxt, lanes, r, fed, nodes, out, log, made>>

Permuting == {"node", "only", "block1", "block2", "half1", "half2"}

Init ==
    /\ pc = "idle"
    /\ call \in Calls
    /\ cur = <<>> /\ nxt = <<>>
    /\ lanes = [n \in Lanes |-> 0] /\ r = 0
    /\ fed = <<>> /\ nodes = {} /\ out = <<>> /\ log = {} /\ made = 0

(***************************************************************************)
(* The call packs its inputs; F and H go on to their frame at once.        *)
(***************************************************************************)
Start(c) ==
    /\ pc = "idle" /\ made < MaxCalls
    /\ made' = made + 1
    /\ call' = c
    /\ cur' = [k \in DOMAIN c.ms |-> pack(c.ms[k])]
    /\ pc' = IF c.prim \in Trees THEN "reduce" ELSE "frame"
    /\ nxt' = <<>> /\ fed' = <<>> /\ nodes' = {}
    /\ UNCHANGED <<lanes, r, out, log>>
-----------------------------------------------------------------------------
Pairs == (Len(cur) + 1) \div 2

\* Faulty: the element that is left over is paired with itself.
FaultyRight(n) == IF n + 1 <= Len(cur) THEN cur[n + 1] ELSE cur[n]

\* The right partner of element n; an odd level is padded with zeros.
Right(n) == IF n + 1 <= Len(cur) THEN cur[n + 1] ELSE <<0, 0>>

\* A permutation starts on state s.
Feed(where, s) ==
    /\ pc' = where
    /\ lanes' = s /\ r' = 0
    /\ fed' = Append(fed, s)

ReduceNode ==
    LET n == 2 * Len(nxt) + 1
    IN  /\ pc = "reduce" /\ Len(cur) > 1 /\ Len(nxt) < Pairs
        /\ Feed("node", Absorb(cur[n] \o Right(n)))
        /\ UNCHANGED <<call, cur, nxt, nodes, out, log, made>>

Round ==
    /\ pc \in Permuting /\ r < ROUNDS
    /\ lanes' = RoundOf(lanes, r)
    /\ r' = r + 1
    /\ UNCHANGED <<pc, call, cur, nxt, fed, nodes, out, log, made>>

EndNode ==
    /\ pc = "node" /\ r = ROUNDS
    /\ nxt' = Append(nxt, Squeeze(lanes))
    /\ nodes' = nodes \cup {<<fed[Len(fed)], Squeeze(lanes)>>}
    /\ fed' = <<>>
    /\ pc' = "reduce"
    /\ UNCHANGED <<call, cur, lanes, r, out, log, made>>

\* Faulty: the level is built and not taken over.
FaultyEndLevel ==
    /\ pc = "reduce" /\ Len(cur) > 1 /\ Len(nxt) = Pairs
    /\ nxt' = <<>>
    /\ UNCHANGED <<pc, call, cur, lanes, r, fed, nodes, out, log, made>>

EndLevel ==
    /\ pc = "reduce" /\ Len(cur) > 1 /\ Len(nxt) = Pairs
    /\ cur' = nxt /\ nxt' = <<>>
    /\ UNCHANGED <<pc, call, lanes, r, fed, nodes, out, log, made>>

EndReduce ==
    /\ pc = "reduce" /\ Len(cur) = 1
    /\ pc' = "frame"
    /\ UNCHANGED <<call, cur, nxt, lanes, r, fed, nodes, out, log, made>>
-----------------------------------------------------------------------------
Tag(prim) ==
    CASE prim = "F" -> 0 [] prim = "H" -> 1 [] prim = "Tk" -> 2 [] prim = "Tlen" -> 3

\* tag, seed, ADRS, then the element pairs of cur.
Tagged ==
    <<Tag(call.prim)>> \o pack(call.seed) \o call.adrs
      \o (IF call.prim = "H" THEN cur[1] \o cur[2] ELSE cur[1])

\* The sub-tag, then r, seed, root and the reduced message.
HalfInputs(sub_tag) ==
    <<sub_tag>> \o pack(call.adrs[1]) \o pack(call.seed) \o pack(call.adrs[2]) \o cur[1]

(***************************************************************************)
(* The closing hash starts: all twelve elements, the first eight of        *)
(* fourteen, or the first half of hash30.                                  *)
(***************************************************************************)
Frame ==
    /\ pc = "frame"
    /\ \/ call.prim \in {"F", "Tk", "Tlen"} /\ Feed("only", Absorb(Tagged))
       \/ call.prim = "H" /\ Feed("block1", Absorb(SubSeq(Tagged, 1, 8)))
       \/ call.prim = "Hmsg" /\ Feed("half1", Absorb(HalfInputs(0)))
    /\ UNCHANGED <<call, cur, nxt, nodes, out, log, made>>

\* Faulty: the second block starts a lane late.
FaultySecondBlock ==
    /\ pc = "block1" /\ r = ROUNDS
    /\ Feed("block2", Overwrite(lanes, SubSeq(Tagged, 10, 14)))
    /\ UNCHANGED <<call, cur, nxt, nodes, out, log, made>>

SecondBlock ==
    /\ pc = "block1" /\ r = ROUNDS
    /\ Feed("block2", Overwrite(lanes, SubSeq(Tagged, 9, 14)))
    /\ UNCHANGED <<call, cur, nxt, nodes, out, log, made>>

SecondHalf ==
    /\ pc = "half1" /\ r = ROUNDS
    /\ out' = Squeeze(lanes)
    /\ Feed("half2", Absorb(HalfInputs(1)))
    /\ UNCHANGED <<call, cur, nxt, nodes, log, made>>

(***************************************************************************)
(* The call returns 16 bytes, hash30 the first half and 14 of the second.  *)
(***************************************************************************)
Return ==
    /\ pc \in {"only", "block2", "half2"} /\ r = ROUNDS
    /\ out' = IF pc = "half2" THEN out \o Low14(Squeeze(lanes)) ELSE Squeeze(lanes)
    /\ log' = log \cup {[call |-> call, pairs |-> cur, fed |-> fed]}
    /\ pc' = "idle"
    /\ UNCHANGED <<call, cur, nxt, lanes, r, fed, nodes, made>>

Finished == pc = "idle" /\ made = MaxCalls /\ UNCHANGED vars

Step ==
    \/ \E c \in Calls : Start(c)
    \/ ReduceNode \/ Round \/ EndNode \/ EndLevel \/ EndReduce
    \/ Frame \/ SecondBlock \/ SecondHalf \/ Return

Next == Step \/ Finished

Spec == Init /\ [][Next]_vars

\* The functions are sequential code: a call that can go on does.
FairSpec == Spec /\ WF_vars(Next)
-----------------------------------------------------------------------------
(***************************************************************************)
(* Everything that is packed, hashed or returned is below the prime, as    *)
(* the assertions of unpack_fe2_to_bytes16 require, and no sum or product  *)
(* of a round exceeds a u128.                                              *)
(***************************************************************************)
AlwaysCanonical ==
    /\ \A n \in Lanes : lanes[n] \in 0 .. P - 1
    /\ \A k \in DOMAIN cur : cur[k] \in Elems
    /\ \A k \in DOMAIN nxt : nxt[k] \in Elems
    /\ \A k \in DOMAIN out : out[k] \in 0 .. P - 1
    /\ pc \in Permuting /\ r < ROUNDS =>
         \A w \in RoundWides(lanes, r) : w \in 0 .. WORD * WORD - 1

\* The leaves under a node of level z, and the least level one node of which has them all.
Span[z \in Nat] == IF z = 0 THEN 1 ELSE 2 * Span[z - 1]
Height(count) ==
    CHOOSE h \in 0 .. count : Span[h] >= count /\ \A g \in 0 .. h - 1 : Span[g] < count

\* What the reduce of this call got from hashing a member of ls and one of rights.
Hashed(ls, rights) ==
    {d[2] : d \in {e \in nodes : \E l \in ls, right \in rights : e[1] = Absorb(l \o right)}}

\* The levels of the binary tree over ms in which what is missing is zero.
PaddedTree(ms) ==
    LET level[z \in Nat] ==
          [n \in 0 .. Len(ms) |->
              IF n * Span[z] >= Len(ms) THEN {<<0, 0>>}
              ELSE IF z = 0 THEN {pack(ms[n + 1])}
              ELSE Hashed(level[z - 1][2 * n], level[z - 1][2 * n + 1])]
    IN  level

(***************************************************************************)
(* poseidon_gl_reduce of any number of leaves is the root of the binary    *)
(* tree of least height over them in which a missing right child is zero:  *)
(* no leaf is lost, repeated or moved by the odd levels.                   *)
(***************************************************************************)
ReduceIsPaddedTree ==
    pc = "frame" /\ call.prim \in Trees =>
        {cur[1]} = PaddedTree(call.ms)[Height(Len(call.ms))][0]

(***************************************************************************)
(* The closing hash of a call feeds one or two states to the permutation.  *)
(* Those states, in their order, determine which of the five primitives it *)
(* is, the seed, the address (randomizer and root for slh_hmsg), all as    *)
(* field elements, and the pairs that are hashed: for slh_f and slh_h the  *)
(* inputs themselves, for the others the one pair their inputs reduce to,  *)
(* which ReduceIsPaddedTree relates to the inputs.  Nothing is said of     *)
(* single states: slh_hmsg has no tag of its own, and its first state, of  *)
(* sub-tag 0, may be one that slh_f feeds; only the second tells it apart. *)
(* The nodes of the reduce and the signer's prf_sk are not compared.       *)
(***************************************************************************)
Determined(e) ==
    [prim |-> e.call.prim, seed |-> pack(e.call.seed), pairs |-> e.pairs,
     adrs |-> IF e.call.prim = "Hmsg" THEN <<pack(e.call.adrs[1]), pack(e.call.adrs[2])>>
                                      ELSE [k \in 1 .. 7 |-> to_canonical(e.call.adrs[k])]]

SameFrameSameCall ==
    \A a, b \in log : a.fed = b.fed => Determined(a) = Determined(b)

(***************************************************************************)
(* Every call returns: the level loop of the reduce gets shorter levels.   *)
(***************************************************************************)
CallsReturn == pc # "idle" ~> pc = "idle"
=============================================================================
