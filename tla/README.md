# A TLA+ model of slh-dsa-neo

This directory models the Goldilocks-Poseidon SLH-DSA-128s signer of
`crates/slh-poseidon-gl` and the folding front end of `crates/neo-bridge` and
`crates/neo-ivc`: state machines that TLC checks on small instances, and theorems
that TLAPS proves for every value of the constants. Paths below are relative to
the repository root.

To run one check: `tlc -config MerkleForest.cfg MCMerkleForest.tla`. To check one
proof module: `tlapm MerkleForest_proofs.tla`. `PROJECT.json` maps every
definition to the source lines it stands for.

## 1. The system

    seeds, message --> signer --> signature --> layer witnesses --> layer_0..6.json
                                                                      |  (Circom, elsewhere)
                      verdict <-- chain of folds <-- matrices <-- .r1cs / .wtns

| Component (source) | State it keeps | Operations |
|---|---|---|
| Signer: `signer.rs` keygen, sign, verify, ht_layer_witnesses | a key (two seeds and the cached top root); inside sign the layer message and the running tree and leaf index | keygen, sign, verify, ht_layer_witnesses, two JSON builders |
| Merkle trees: `signer.rs` xmss_levels, xmss_auth_path, fors_levels, xmss_root_from_sig, fors_pk_from_sig | the levels of one tree, computed from leaves that a rayon pool hashes in any order | build, copy the path, walk it back |
| WOTS+ chains: `signer.rs` wots_pk_full, the loop of sign, wots_pk_from_sig | position and value of a chain | walk a chain, to its end, to a chunk, from a chunk |
| Chunks and checksum: base2b_with_csum | 35 chunks, running sum | one pass |
| Digest parsing: parse_digest | the indices being assembled | one pass |
| Hash primitives: `primitives.rs` | none | slh_f, slh_h, slh_tk, slh_tlen, slh_hmsg |
| Poseidon: `poseidon.rs` | the sponge state | permute, sponge, reduce, hash30, pack |
| Command line: `bin/cli.rs` | files under the output paths | self-check, emit-monolithic, emit-layers |
| Circom parsers: `neo-bridge/src/parser.rs` | read position, header, body offset | parse_circom_r1cs, parse_circom_wtns |
| Lift: `neo-bridge/src/lib.rs` | none | circom_to_neo_mats, circom_to_neo_sparse_mats, circom_witness_to_f |
| Step plan: `neo-ivc/src/step.rs` | plan options | smoke, production_multistep, build_plan, preprocess_sparse |
| Chain and finisher: `chain.rs`, `finisher.rs` | the chain under construction (in the library) | run_chain, verify_chain, close_chain, verify_compressed |
| Drivers: `bin/rfp_smoke_full.rs`, `rfp_smoke.rs`, `nifs_smoke.rs` | arguments, the step count, the plan | parse, lift, check, fold, verify |
| neo-bench, circuits, scripts | - | placeholders and stubs |

How they interact: everything is a call. The signer calls the primitives, these
Poseidon. The command line hands ht_layer_witnesses' result to files; Circom,
outside the repository, turns them into `.wtns`; the drivers hand the parsed and
lifted matrices to the folding library, which is also outside. The concurrency is
the rayon iterator over the leaves of a tree and processes of the command line that
run at the same time; the shared state is the file system between processes. The signer keeps no record of what
it signed.

What is hard here, and what correctness means:

* **Trees**: the leaves come in any order; signer and verifier write the same
  node address in different forms; the path must be of the leaf the index names.
* **Hypertree**: sign carries the indices from layer to layer (mask, then
  shift), verify and ht_layer_witnesses shift the 54-bit idx_tree; they must agree
  at all seven layers. Being stateless, sign must never sign two messages with
  one WOTS key, over any number of signatures.
* **WOTS**: the two halves of every chain must meet, for every chunk 0..15; the
  checksum must keep one message's chunks from dominating another's.
* **Digest**: 12-bit fields straddle bytes, shifts and masks are at 54 of 64 bits.
* **Hash primitives**: values must be canonical wherever the permutation, the
  sponge or unpack takes them to be, though seeds are arbitrary bytes; odd levels of the
  reduce; the states a closing
  hash feeds the permutation must tell its call apart.
* **Emission**: files are truncated and rewritten in place, one by one; the process
  can fail or be killed between and inside them, the next run finds the rest, and
  another process may write the same files meanwhile. Tree indices above 2^53 have to
  survive JSON.
* **Parsing**: sections in any order, unknown ones, a file cut anywhere; two
  copies of the lift, which differ for a wire out of range or named twice.
* **Folding**: nothing may be folded before all inputs are checked; PASS must
  mean the whole list; the accumulator must fit the number of steps; three drivers
  hold copies of the checks, two of the plan.

There is no network, no timeout, no retry and nothing is persisted but the emitted
files, so lost or duplicated messages and recovery protocols do not arise.
`PROJECT.json` lists each hazard at its line.

## 2. The modules

| Module | Models | Checked by | Proved in |
|---|---|---|---|
| `WordBits` | u64 words as sets of bit positions | (all below) | where it is used |
| `MerkleForest` | the trees, from parallel leaves to the verifier's roots | `MCMerkleForest` | `MerkleForest_proofs` |
| `MerkleContract` | what the trees promise, in two steps | as a property of the above | `MerkleForest_proofs` |
| `WotsChains` | the three loops over the chains | `MCWotsChains` | `WotsChains_proofs` |
| `WotsChecksum` | base2b_with_csum on two digests side by side | `MCWotsChecksum` | `Digests_proofs` |
| `ParseDigest` | parse_digest, all 240 bits | `MCParseDigest` | `Digests_proofs` |
| `SlhDsa` | keygen, sign, verify, ht_layer_witnesses, one layer per step | `MCSlhDsa`, `MCSlhDsaFull` | `SlhDsa_proofs` |
| `SlhFunctions` | one layer and one FORS signature as functions of a hash | through `MCSlhDsa` | - |
| `PoseidonGl` | poseidon.rs: the field, one round, absorb, squeeze, pack, unpack | through `MCSlhPrimitives` | through the next |
| `SlhPrimitives` | the five calls of primitives.rs with sponge, reduce and hash30 | `MCSlhPrimitives` | `SlhPrimitives_proofs` |
| `EmitLayers` | the command line, its files, processes at once | `MCEmitLayers` | `EmitLayers_proofs` |
| `CircomFormat` | what circom and snarkjs write to a file (external), and where | through `MCCircomBridge` | through the next |
| `CircomBridge` | both parsers, and both lifts side by side | `MCCircomBridge` | `CircomBridge_proofs` |
| `StepPlan` | step.rs, and rfp_smoke's copy of the plan | through `FoldDriver` | through the next |
| `FoldDriver` | rfp_smoke_full with chain.rs and finisher.rs | `MCFoldDriver`, `MCSmokeDrivers` | `FoldDriver_proofs` |
| `SmokeDrivers` | rfp_smoke and nifs_smoke after rfp_smoke_full on the same files | `MCSmokeDrivers` | `FoldDriver_proofs` |

Names follow the source (`cur_idx_tree`, `layer_msg`, `effective_steps`, ...); an
action is one iteration of a loop or one call. Operators whose names start with
`Faulty` are plausible bugs in the action of that name; they are part of no
specification and serve to see that each property can fail.

**Words.** TLC's integers have 32 bits, idx_tree has 54. A word is therefore the
set of its one bits: `x >> k` is `{b : b + k \in x}`, a mask is a filter, `x ^ 1`
adds or removes bit 0. This is exact at every width and turns index arithmetic
into set reasoning the provers can do. Where a word becomes an integer (the address of a
node) `Val` adds up its bits, as a recursive function like `Pow2`.

**MerkleForest.** `ComputeLeaf(n)` is a worker finishing leaf n, enabled for any
pending n; `CollectLeaves` is the barrier; `BuildLevel`, `CopyPathNode` and
`PushRoot` are the FORS loop of sign, `VerifyLeaf`, `VerifyNode`, `VerifyRoot`
fors_pk_from_sig, which writes the address of a node in a form of its own (`Climb`, beside the
signer's `HashIndex`). An XMSS tree is the case of one tree (K = 1): xmss_levels,
xmss_auth_path and xmss_root_from_sig run the same loops, their leaf hash is
wots_pk_full instead of F. Hashes are operators without any property, so what
holds holds for every hash.

**SlhDsa.** `SignLayer`, `VerifyLayer` and `WitnessLayer` are the three copies of
the layer loop; what one layer hashes is an operator parameter. `used` is a
history of what each WOTS key signed. `SignEnd` delivers the signature as made or
changed in one place, as the tests do: a value of any layer or of any FORS tree, an entry
too few or too many in either of its two Vecs, another message or randomizer. verify checks both
lengths before it indexes anything; without that check, and in ht_layer_witnesses, which has none,
a tree or layer that is not there is an index panic (`WitnessStart`, `WitnessLayer`). The three layer-local facts the
proofs need are assumptions, each of which another module establishes:
`DigestAssumption` (the indices fit their widths) by `IndicesFitTheTrees` of
`Digests_proofs`; `LayerAssumption` (one layer, and FORS, verify to their own
root) by `SignerVerifierAgree` and `VerifierReachesEnds`. TLC evaluates both in
the runs. `MCSlhDsa` discharges nothing by fiat: its layer operators are the
functions of `SlhFunctions` over a concrete hash. `NoCollision` is what
rejection needs of the hash. It is stated of the finitely many walks that verify makes
over what `SignEnd` may hand out: a layer, or FORS, that leads to the honest root does so from
the honest message, at the honest tree and leaf, with the honest part of the signature.
It is an assumption of both runs (`NoCollisionHere`), so TLC evaluates it there, and of
one theorem; no other result rests on it.

**WotsChains, WotsChecksum, ParseDigest** follow their loops statement by
statement. `chain`, `hops` and `exact` are histories for the properties.

**PoseidonGl, SlhPrimitives.** `Round` is one round of permute; `ReduceNode`,
`EndNode` and `EndLevel` are the two loops of poseidon_gl_reduce, `Frame` starts the
closing hash, `SecondBlock` and `SecondHalf` are the second permutations of sponge14 and
hash30. A value of 16 bytes is a pair of u64 halves, in general above the prime;
`pack` and `to_canonical` reduce it. `fed` and `nodes` record what was handed to
permute, and `PaddedTree` is the tree those records make over the inputs. Everything is parameterised by the number of values of a byte, the prime,
the round counts and the round constants. `SlhFunctions` keeps the same tags over
an abstract hash, for the signer.

**EmitLayers.** A user starts up to `MaxRuns` processes on the same paths, up to
`MaxAtOnce` at a time. A write is two steps, as `fs::write` is: `Truncate` empties the
file or fails before it touches it, `Write` fills it or fails leaving it torn; `Kill`
may strike at any point. If another process has written the file in between, the
content is that of the later writer or, since it does not truncate again, a mix
(`Torn`), unless both write the same bytes. `proc` is reset when a process starts
while none is running. What is written is what the JSON builders make of a
witness, and `JsInteger` is how the circuit's witness calculator reads it. `ContentAssumption`
says that a complete file can be told from a missing, an empty or a torn one. `dir` holds
the output directories that exist, since `create_dir_all` can only fail for another. --out and
--out-dir are the user's: an emit-monolithic may name any file of `Outs`, one of the layers included,
and `Apart` says that none does.

**CircomFormat, CircomBridge.** A file is a sequence of 32-bit words; all sizes and offsets of
the formats are multiples of four bytes. `CircomFormat` relates a file to what was written to
it: magic, version, sections one after the other in any order and of any type, one header, and
items (linear combinations, three to a constraint, or wires) with their offsets in the body. A
file that was cut holds what was written as far as it goes: `Holds` says nothing of words
beyond the end. Files that circom would not lay out so, such as one whose section sizes are
wrong, are left out, since for them there is no value a parser ought to return; a wrong magic,
version or field size, a missing section, and a wire out of range or named twice are in.
`Section` reads a header where it finds it, notes a body, and seeks to the recorded end,
possibly past the end of the file; `Combo` is one read_linear_combo (`row` and matrix follow
from how many were read), `Wire` one wire. The two lifts are loops of
their own, each with its matrix, row and term (`dwalk`, `swalk`): `DenseTerm` and `DenseNext` are
circom_to_neo_mats, `SparseTerm` and `SparseNext` circom_to_neo_sparse_mats, in any interleaving. The dense matrix is the flat buffer of the
code: a wire out of range lands in the next row, or panics past the end. BASE stands for 2^32
and the prime is BASE^2 - BASE + 1, which is Goldilocks for that base.

**StepPlan, FoldDriver.** From arguments to verdict. The folding library is external and
is modelled from how it is used: an append after the first fails unless the plan has
14 children and the parent shape of the circuit (step.rs documents both), compress
fails without a decider, and every other call may fail. Whether there is a
decider is left open (there is none at the pinned commit). A plan is a record of the
fields build_plan fills in; where the library's image layout puts the boundary is
an operator, `BoundaryOffset`.

**SmokeDrivers.** When rfp_smoke_full has ended on one witness file, the user
runs rfp_smoke (dense or sparse) and nifs_smoke on the same files, in either order. The checks
of each front end are a list in the order of the code; the first that fails is the
refusal.

## 3. What the runs check

| Run | Instance | Shows |
|---|---|---|
| `merkle_forest` | 2 trees of 8 leaves, 64 index pairs, all completion orders | no parent before its children, secret and path of the indexed leaf lead to its root, distinct addresses, equal roots, termination, refinement of `MerkleContract` |
| `slh_dsa_small` | 3 layers of height 2, 4 messages, 2 randomizers, 2 signatures in a row, concrete hash | acceptance, rejection of each alteration (both lengths included), index agreement, one message per WOTS key, chaining witnesses, panic only after a rejection |
| `slh_primitives` | 32 calls that differ pairwise in one thing, every pair of them in a row; bytes of one bit, so a u64 is 8 bits and the prime 2^8 - 2^4 + 1 = 241; 1 + 2 + 1 rounds | canonical values and no u128 overflow, the reduce of 1 to 7 leaves is the padded tree, the states a closing hash feeds determine its call, every call returns |
| `slh_dsa_full` | D = 7, HPRIME = 9, tree indices with 0, 54, alternating, boundary and 45 top bits, 2 leaves | the same index arithmetic at the source's widths |
| `wots_chains` | 3 chains of 4 positions, all 64 chunk lists | each step once, equal ends |
| `wots_checksum` | all pairs of 22 digests of 16 bytes, with checksums from 0 over 255 and 256 to 480 | no dominance, whole checksum |
| `parse_digest` | 482 digests of 30 bytes: one bit set, one clear, two stripes | every field bit by bit |
| `circom_bridge` | 6 constraint systems and a witness, three of them with a wire named twice or out of range; both lifts in any interleaving; sections in every order, extra sections, cut at every word, wrong magic or version | parsed as written or refused, complete files accepted; lifts agree on every file that names each wire once and in range, and hold every term |
| `emit_layers` | 2 layer files and the monolithic one, which --out may put on the first layer; 3 processes, 2 at once, 5 seeds | success means one whole chain, also when two processes with one seed interleave; failure leaves a prefix |
| `fold_driver` | all flags over all lists of one or two files of six kinds, and a list of three; the two other drivers on each single file | PASS, check order, accumulator choice; the same refusals, up to which of two foreign fields is named; the plan of rfp_smoke |
| `fold_driver_close` | as `fold_driver`, without the other drivers | a place where a doc says otherwise (section 5) |
| `circom_lift_twice` | the files of `circom_bridge` that name a wire twice | another one |

Why the bounds are enough. A tree of height 3 has a bottom, an inner and a top
level, and two trees are what sharing of addresses takes. Three layers have a
first, a middle and a top one, whose code differs; two signatures are what a
reused key takes. Positions 0 and 3 of a chain are the ends, 1 and 2 the middle.
The digests of `wots_checksum` take each of the three checksum digits through its least and greatest
value and the sum across 256, where its single top bit is set.
One-bit digests tell where each bit of the digest goes, their complements that
nothing else interferes, the stripes that neighbours do not carry. Three
processes allow a complete run, an interrupted one and another over the rest, and two
at once over what a third one left. Two layer files have a first and a last one; the
check of a link is between them. The scaled-down field keeps the shape of Goldilocks: the prime is
just below the word, so half of the inputs tried are not canonical, and the MDS
coefficients are the source's. One full round at each end and two partial ones
between are each kind of round after each other. Leaves of 1, 2, 3, 4, 5 and 7 give
reduces with no, one and two odd levels.
Where a proof exists the bound does not matter.

In `emit_layers` three of the five seeds stand for signatures that the signer never
makes (one that does not verify, one that does not chain, one that misses
pk_root); they are there so that the bail-outs of the command line run. The two
sound seeds are model values and interchangeable, which is the symmetry the run
uses: the other three are fixed by it, the witness operators treat the two alike, and both
properties are invariants. MAX_SAFE = 7 stands for 2^53 - 1; the
tree index 2 * 7 + 1 is what a JSON number would round.

What `OkMeansOneChain` does *not* say is part of the result: when two processes with
different seeds share a directory, both can report success over a mix of the two, an
emit-monolithic whose --out names a layer can report success over that layer, and nothing in the
code notices.

**Fairness.** Two modules have a liveness property. `MerkleForest`'s `FairSpec` assumes
weak fairness of `Next`: rayon runs every item of the iterator, and the thread never
waits for anything but `collect()`. `SlhPrimitives`' `FairSpec` assumes the same of
sequential code that waits for nothing. Since every step of either `Next` but the final
stutter makes progress, no stronger fairness is used. The processes of `EmitLayers` and
the drivers may be killed or wait for a disk or a library, so nothing is claimed
to happen there.

**Deadlock** is checked in all runs; a `Finished` step marks where a program ends.

## 4. What is proved

For all values of the constants, under the named assumptions of the modules
(sizes positive, words within 64 bits):

| Theorem | Statement | Argument |
|---|---|---|
| `TypeCorrect`, `SignerVerifierAgree`, `PathFollowsLeaf` | `TypeOK`, `RootsAgree`, `PathIsOfLeaf` of `MerkleForest` | `IInv`: finished trees are *complete* (each node is the hash of its children) and *signed* (secret and siblings of the leaf); the current one is so up to level z; the verifier's node at level z is the tree's node above the leaf. `ClimbLemma` is the step up: the verifier's form of the address is the signer's (`Pow2Quotient`). `RootsAgree` says nothing before the end, so it is far from inductive. |
| `NodesHaveOwnAddresses` | `AddressesDistinct` of `MerkleForest` | `Val` of a word of w bits is below `Pow2[w]` and no two words share it; both by induction over the bits (`BelowFacts`, `ValInjective`). So `fors_idx * 2^(H - z) + n` determines the tree and the node (`HashIndexInjective`). |
| `MerkleImplementsContract` | the refinement of `MerkleContract` | the contract's recursive `FullTree` is the only function in which each level is determined by the one below (`TreeUnique`), and a complete forest is one (`TreeRead`). From `IInv`, pushing the last root is the contract's `Sign`, the last `VerifyRoot` its `Verify`, and every other step leaves its state alone. |
| `NoNodeMissing` | `NoMissingNode` of `MerkleForest`, if no hash is the value of a missing node | a finished tree and every level of the current one up to z is filled (`CompleteIsFilled`), and the signature's slots are filled from there; without the assumption on hashes the statement is false |
| `IndicesAgree`, `WotsKeysAreOneTime`, `HonestSignaturesVerify` | `IndexAgreement`, `OneMessagePerWotsKey`, `HonestAccepted` of `SlhDsa` | the running indices are the k-th shift of the digest's (`NextLayer`); the tree and leaf at layer k determine everything above and the root below (`KeyDeterminesMsg`), hence the message; the verifier's layer message is always the signer's |
| `SignerTypes`, `OnlyRejectedPanic` | `TypeOK`, `PanicOnlyAfterReject` of `SlhDsa` | together with `IInv`, which gives the digests' widths: what is being verified has all of its FORS trees and layers and no more, and what does not has been refused (`InvLen`) |
| `EmittedWitnessesChain` | `WitnessesChain` of `SlhDsa` | `InvWalks`: there is a walk w of roots from the FORS key on, along which verify has come to `layer_msg = w[j]`; the verdict was positive exactly if both lengths are right and w ends at pk_root. ht_layer_witnesses makes the same walk from the same start, so each witness it pushes is a step of w. |
| `AlteredSignaturesFail` | `AlteredRejected` of `SlhDsa`, if `NoCollision` | `InvHanded`: what is being verified is one of the signatures that `SignEnd` can hand out. A positive verdict means that its walk ends at pk_root, the honest root of the top layer; from there downwards each layer's honest root forces that layer's part, its place, and the honest root below, down to the FORS part and the digest (`OnlyHonestPasses`). A signature of another length has been refused before. So nothing was altered, and only a message and randomizer of the same digest passes. |
| `VerifierReachesEnds` | `EndsAgree` of `WotsChains` | every walk is along the one chain the key generation recorded |
| `ChainTypes`, `StepsAreSplit` | `TypeOK`, `StepsPartition` of `WotsChains` | `HopsInv`: the hash words used so far for a chain are those below the chunk on the signer's side and from the chunk on on the verifier's |
| `ChecksumPreventsDominance`, `ChecksumKeepsAllBits`, `ChecksumTypes` | `NoDominance`, `CsumExact`, `CsumTypeOK` of `WotsChecksum` | if all chunks of one digest are at most the other's, its sum is at least the other's, while its checksum digits are at most: so the sums are equal and all chunks are |
| `ParsesTheFields`, `IndicesFitTheTrees`, `ArithmeticIsExact`, `DigestTypes` | `FieldsAreBitStrings`, `IndexWidths`, `Exact`, `TypeOK` of `ParseDigest` | after j bits `val` is the top j bits of its field; after i bytes idx_tree is the last 8i bits read |
| `ValuesCanonical` | `AlwaysCanonical` of `SlhPrimitives` | from `FieldAssumption` (the prime is below the word, and 264 elements below the square of the word): a round takes canonical lanes to canonical lanes and its products, sums and the MDS accumulator to a u128; what is absorbed or overwritten is canonical; so is everything squeezed, and with it the levels of the reduce |
| `FramesTellCallsApart` | `SameFrameSameCall` of `SlhPrimitives` | `FInv`: what a call has fed is its whole frame as far as the hash has come. Every word of the inputs is at a lane of its own, also across the two blocks of slh_h (`TaggedLanes`), packed elements are canonical already, and tag and lanes determine the rest (`TaggedInjective`, `HalfInjective`); the second half of slh_hmsg is no tagged frame (`HalvesAreNotTagged`) |
| `ReduceComputesTheTree` | `ReduceIsPaddedTree` of `SlhPrimitives` | `TInv`: the reduce is at some level z, of as many elements as there are blocks of 2^z inputs, each the node of the padded tree over the inputs; nxt is the level above as far as it goes; the history has every node below, and the state of the permutation is that after r rounds of what was absorbed. `PairsAreChildren` is the pairing: the right partner at the end of an odd level is zero because its leaves are beyond the input. `LevelUp` takes a level over, `HeightIs` says where it ends |
| `OkMeansOneChainHolds`, `InterruptedLeavesPrefixHolds` | the two invariants of `EmitLayers` | `ChainInv`: a process past the link checks has a chain that links up. `SharedInv`: among processes of one seed none of which failed, a layer that one has written is there, unless another is just rewriting it with the same bytes. `AloneInv`: a process that nobody disturbs has replaced the layers below its own and no other. |
| `ParserReturnsWhatWasWritten`, `CompleteFilesAreAccepted` | `ParsesWhatWasWritten`, `CompleteFilesParse` of `CircomBridge` | `AtScan`: after n sections the position is where section n + 1 begins, the header is the one written or none of the n is a header, and the body noted is that of one of them. `AtBody`: after n items the position is where item n + 1 begins and the n items are the first n written. What a read finds is right because it could be read (`HeaderReadsRight`, `ComboReadsRight`, `WireReadsRight`); what cannot be read was cut, since every part ends before its section does (`OffsetsGrow`, `ItemPlace`). |
| `LiftsAreOneMatrix` | `LiftsAgree` of `CircomBridge` | `DenseHolds`: of a file that names each wire once and in range (`Clean`), the cells of the terms the dense walk has done (`Done`) hold their values and the others zero. It is inductive because cells in range do not share a place in the flat buffer (`SamePlace`). `SparseHolds` says the same of the triplets and the other walk, none twice. Neither mentions the other walk; they meet when both have done every term (`AllDone`). |
| `LiftKeepsEveryTerm` | `LiftsWhatWasWritten` of `CircomBridge` | the first half of `SparseHolds`, for any file: the triplets so far are the terms done so far, as read; what was read is what was written by the theorem above. |
| `PassIsWholeChain`, `NothingFoldedUnchecked`, `AutoProfileFits` | `PassMeansWholeChain`, `CheckedBeforeFolded`, `AutoPlanFits` of `FoldDriver` | `FilesInv`: what each stage knows of the files; `ChainInv`: the chain is a prefix of the list handed over, the whole of it at verification; `PlanInv`: the plan is the one of the profile. A second append can only be reached with the production preset under auto (`SecondAppendAuto`). |
| `FrontEndsAgree`, `OneStepMirrors` | `SameRefusals`, `MirrorsRfpSmoke` of `SmokeDrivers` | `RunInv`, `EndedInv`: each of the other drivers is at a place, and ends with a status, that the file determines; the first failing check of each list is that of rfp_smoke_full, or the r1cs field where that one names the witness's (`VerdictIsFirst`, `StoppedAs`), and its plan with the smoke profile is rfp_smoke's field by field (`SmallPlanIsSmoke`). |

`HonestSignaturesVerify` is about the composition of layers: it takes from
`LayerAssumption` that one layer verifies to its root, which the forest and
chain theorems establish with their own loops. The link between them is by
reading (each module's hash operators instantiate the same functions); it is not
itself a theorem.

The library's induction theorems take a predicate as a parameter, which no prover
here can instantiate. Four proof modules therefore do induction by sets: a set of natural
numbers that is not empty has a least element (`Least`, from `WFMin`), so a set with 0 that is
closed under successor has them all (`SetInduct`), and a recursion over the natural numbers has
a solution (`RecursionExists`). That is what `Val`, `Pow2`, `FullTree`, `PaddedTree` and the
walks of `NoCollision` are reasoned about with.

The theorems about `CircomBridge` are about every file of `CircomFormat`: they assume of the
input only how it was laid out (`InputsAssumption`, which TLC evaluates on the files of the run),
and nothing of its field width, the number and length of its constraints, or where it ends.

Only model-checked: `Terminates` and `CallsReturn`, since liveness is outside what the prover
handles. Every invariant and action property of a passing run is proved.
`SlhFunctions` computes by
RECURSIVE operators, which the prover cannot use; TLC evaluates them.

## 5. Where a document and the code disagree

* `--close` (rfp_smoke_full.rs:11-12, 66-67) is documented as running "in
  addition to the `Uncompressed` accumulator verify". The code runs one or the other
  (207-235), and without a decider the `--close` path verifies nothing:
  run `fold_driver_close`.
* circom_to_neo_sparse_mats (neo-bridge lib.rs:58) is "Same as `circom_to_neo_mats`". Of a wire
  that a linear combination names twice the dense lift keeps the last term (44), the sparse one
  hands both to the library (85): run `circom_lift_twice`. circom names a wire once.

Noticed, without a run: `--n-steps` is "Ignored when multiple `--wtns` are given"
(rfp_smoke_full.rs:51-52), but `--n-steps 0` stops the program in that case too (90-92);
rfp_smoke_full.rs:60 calls 20 the r_len "for the HT-layer step", step.rs:82-83 says that
step needs 26; cli.rs:3 speaks of two subcommands, there are three.

## 6. Not modelled, and why

* The values of the 360 round constants: data, pinned by test vectors. Any
  constants that fit a u64 are covered by `ValuesCanonical`.
* That the permutation is hard to invert or to collide: the models take it as a
  function. `SameFrameSameCall` says which calls can be one and the same input of it: it compares
  the states of the closing hashes, in their order, and what they hash down to the pairs, but not the nodes
  of the reduce, nor the signer's prf_sk, nor single states: the first state of slh_hmsg, which
  has no tag of its own, may be one that slh_f feeds.
* poseidon_gl beyond twelve inputs, an empty reduce, hash30 beyond five pairs:
  assertions that no call in the crate reaches.
* Command-line parsing, `expand` (any function of the seed), printing, timing and the
  measured size of a proof change nothing that is modelled.
* The constant fields of a plan and the library's image layout.
* neo-bench (placeholders), circuits and scripts (elsewhere, stubs).
* Files changed by another program while a parser reads them.

## 7. Plan

Done in this order: words, trees (with contract and proofs), hypertree and signer,
chains, checksum, digest; emission, bridge, driver; then the hash primitives down to
the field, processes at once, the other two drivers and the plan, irregular wires; the
proofs of the signer, the chains and the driver, then those of emission, of the refinement, of
the frames and the reduce, of rejection and of the smoke drivers, last those of the parsers and
lifts. What is left:

1. A composition of `EmitLayers`, the circuit as an external step, and `FoldDriver`:
   what a fold of files from an interrupted or a mixed emission can report.
2. The layer loops of `MerkleForest` and `WotsChains` as the layer operators of `SlhDsa`, so that
   `LayerAssumption` becomes a theorem.
