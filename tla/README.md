# TLA+ models of the blobstreamx circuits

This directory holds TLA+ models of the circuit builders in
`src/src/commitment.rs` and `src/src/validator.rs`. It has TLC configurations that
check the models on small instances, and TLAPS proofs of the header-chain,
data-commitment, composed, varint and validator-layout invariants and of the
data-commitment refinement.

## 1. The system

The code builds plonky2 circuits. It has no concurrency, I/O or retries. A
builder function appends constraints, and a failed `assert_is_equal` does not
stop construction. Instead, no witness satisfies the circuit. The model
therefore treats each builder function as a sequential state machine, one step
per statement or loop iteration. A Boolean `sat` is the conjunction of every
assertion made so far. The prover's witness is the nondeterministic part: TLC
explores every witness drawn from a small universe. The hard questions are
these:

- Which witnesses does the circuit accept?
- Does an accepted witness mean what the spec says it means?
- Do the padding, ordering and wrap-around decisions hold at their boundaries?

### Inventory

| Component | Code | State | Operations |
|---|---|---|---|
| VarintMarshaller | validator.rs 58-131 `marshal_int64_varint` | limb bits, `septets`, `is_zero_septets`, `last_seen_non_zero_septet_idx`, `buffer` | septet loop, zero flags, scan for the last non-zero septet, buffer loop with the field "less than" |
| ValidatorMarshaller | validator.rs 133-177 | `buffer`, `ptr` | prefix bytes, public key, tag 16, varint copy |
| ProtobufFieldExtractor | commitment.rs 139-146 | none | slice bytes 2..34 of a leaf |
| DataRootTupleEncoder | commitment.rs 113-137 | `encoded_tuple` | 24 zero bytes, 8-byte big-endian height, data hash |
| MerkleCommitmentBuilder | commitment.rs 148-172 | `leaves`, `leaves_enabled` | loop over the window, two `Vec::resize`, `compute_root_from_leaves` |
| HeaderChainVerifier | commitment.rs 174-231 | `curr_header_hash`, the constraints | height difference, two `verify_block_height`, WINDOW_RANGE hops, final check |
| Orchestrator | commitment.rs 233-248 | both of the above | `get_data_commitment` on the trusted height, then `prove_header_chain` |

How the components interact:

- The orchestrator feeds `input.trusted_header.height` to the commitment builder
  as `start_block`.
- It then proves the chain over the same input.
- Both sets of constraints sit in one circuit.

The hard behaviours are the ones the hazards in `PROJECT.json` list:

- **Wrapping U64 arithmetic.** The height difference wraps, and so does
  `start_block + i`. The difference check cannot admit a fabricated header:
  the `last_block_id` walk and the height gadget already fix both heights, so
  `ChainLinked` and `HeightsAgree` hold without it. What it can get wrong is
  rejecting the honest witness, which `HonestAccepted` catches. The wrapped
  leaf heights are exercised by `CommitmentRefined` at 2-bit heights.
- **Resize truncation.** `Vec::resize` truncates when the window is larger than
  the tree.
- **Opposite orders.** The proofs run from the current header down, while the
  leaves run from the trusted header up.
- **Stale hash.** `curr_header_hash` is updated at the end of each hop.
- **Field comparison.** The varint's "less than" is computed in the field.
- **Dropped bit.** The varint drops bit 63.
- **Unchecked data hashes.** `data_hashes` is never checked against the
  authenticated data hashes.

## 2. Modules

| Module | Models | Variables |
|---|---|---|
| `HeaderChain` | `prove_header_chain` | `pc`, `sat`, the witness (`current_header`, `trusted_header`, the proofs read so far), `hop`, `curr_header_hash` |
| `DataCommitment` | `get_data_commitment`, `encode_data_root_tuple` | `dc_pc`, `data_hashes`, `start_block`, `leaves`, `leaves_enabled`, `data_commitment` |
| `CircuitParams` | the constants both builders share (`DataHashes`, `WINDOW_RANGE`, `HEIGHT_BITS`), `Heights` and the wrapping `U64` | none |
| `DataCommitmentProof` | `prove_data_commitment` | both of the above, composed by `EXTENDS` |
| `Varint` | `marshal_int64_varint` | `vpc`, `voting_power`, `septets`, `is_zero_septets`, `last_seen`, `idx`, `buffer` |
| `Validator` | `marshal_tendermint_validator`, composing `Varint` | `mpc`, `i`, `ptr`, `val_buffer`, `pubkey`, and the variables of `Varint` |
| `DataRootCommitment` | the abstract promise of `get_data_commitment`: one step commits the window | `data_hashes`, `start_block`, `root` |
| `HeaderChainProofs` | TLAPS proofs about `HeaderChain` | none |
| `DataCommitmentProofs` | TLAPS proofs about `DataCommitment`, including the refinement | none |
| `CommitmentChainProofs` | TLAPS proofs about `DataCommitmentProof` | none |
| `VarintProofs` | TLAPS proofs about `Varint` | none |
| `ValidatorProofs` | TLAPS proofs about `Validator` | none |
| `MC_*` | model values and small constants for TLC | none |

### HeaderChain

Header hashes are model values drawn from a universe `Headers`. The constants
`LastBlockId`, `DataHash` and `HeaderHeight` give the fields of each header.
`Canonical` is the real chain, and `CanonicalAssumption` ties it to heights and
links.

A Merkle proof is a record `[aunts, leaf]`. `get_root_from_merkle_proof` is
abstracted under collision resistance: the root is the header named by `aunts`
when the leaf is that header's own field, and `Junk` otherwise. The set of
proofs is quotiented to the cases the root can distinguish.

The actions follow the statements of the function in order:

- `CheckHeightDiff` (178-181) is a wrapping U64 subtraction compared with
  WINDOW_RANGE.
- `VerifyCurrentHeight` and `VerifyTrustedHeight` (183-197) call the external
  height gadget, modelled by its contract `height = HeaderHeight[header]`.
- `ChainHop` (202-228) is one loop iteration. Proof i is chosen when hop i
  reads it. The action makes both assertions, extracts the previous hash and
  updates `curr_header_hash`.
- `CheckTrustedHash` (229-230) is the final assertion.

### DataCommitment

`PushLeaf` is one iteration of the loop at 155-160. It encodes data hash i with
height `U64(start_block + i)`.

`EncodeDataRootTuple` builds the tuple:

- 24 zero bytes;
- the 8 big-endian bytes of the height: byte k is the low byte of the
  height divided by 256 eight minus k times (`Quotients` lists the nine
  quotients);
- the data hash as one element standing for its 32 bytes.

`DataCommitmentAssumption` states what the code's types give:

- every height fits in the 8 bytes that `height.encode()` writes
  (`FitsU64`), since a `U64Variable` has `HEIGHT_BITS = 64`;
- `Empty`, what a disabled slot contributes, is neither a data hash nor a
  leaf.

`ComputeRoot` (162-171) covers both `Vec::resize` calls, which may extend or
truncate, and the external `compute_root_from_leaves`. That gadget is modelled
as the sequence of enabled leaves, with `Empty` in each disabled slot. A root
therefore determines exactly the enabled leaves and their positions.

#### Refinement

`DataRootCommitment` states what the builder promises, without loops or
resizes: one `Commit` step, enabled only when the window fits in the tree,
sets the root to the window's (data hash, wrapped height) pairs followed by
`Empty` padding. `DataCommitment` instances it with a refinement mapping: the
abstract `root` is the decoded committed sequence (`DecodedRoot`, which reads
the height back from the 8 big-endian bytes) once `dc_pc = "done"`, and empty
before. `CommitmentRefined == Abstract!Spec` is checked as a `PROPERTY`: every
`PushLeaf` step is a stutter and `ComputeRoot` is the `Commit` step.

### DataCommitmentProof

This module extends both modules. Their variables are disjoint, and the
constants they share are declared once in `CircuitParams`, which both extend.
`start_block` is constrained to `trusted_header.height` in `ProofInit`, which is
what the call at 239-242 does. The composition is written with `EXTENDS`
rather than `INSTANCE` so that its proofs can cite the component lemmas:
tlapm does not make the theorems of an instanced module usable when that
module has an `ASSUME`.

`GetDataCommitment` runs the commitment steps. `ProveHeaderChain` then runs the
chain steps, matching the order of lines 238-244. The order is immaterial to
the constraints, but it keeps the interleaving deterministic.

### Varint

The widths are constants:

| Constant | In the code | In the MC |
|---|---|---|
| `LIMB_BITS` | 32 | 5 |
| `SEPTET_BITS` | 7 | 3 |
| `VARINT_BYTES` | 9 | 3 |
| `FieldP` (field order) | Goldilocks | 7 |

`VarintAssumption` keeps the code's two structural facts:

- `VARINT_BYTES * SEPTET_BITS = 2 * LIMB_BITS - 1`, so the top bit is never
  read.
- `FieldP >= 2 * VARINT_BYTES`, so `last - (i + 1)` taken modulo the field lies
  in `0 .. VARINT_BYTES - 1` exactly when `i < last`.

With 5 + 5 bits there are 1024 inputs, and every one is checked.

### Validator

`Validator` is one step per iteration of the four byte loops of
`marshal_tendermint_validator`; the inner loop over 8 bits and the `ptr += 8`
are part of the step (`WriteByteBits`). The nested call to
`marshal_int64_varint` is `MarshalVarint`: while `mpc = "varint"` the steps of
`Varint`, instanced over shared variables, run; the copy loop
(`CopyVarintByte`) reads the returned buffer once `vpc = "done"`.

`MC_Validator` keeps the code's byte layout: 32-byte keys and 7-bit septets
(`ValidatorAssumption` requires `SEPTET_BITS = 7`, since a varint byte is a
record byte). The limbs are 11 bits and the varint 3 bytes (21 bits), so the
record is 40 bytes. Two public keys and twelve voting powers, chosen at the
septet boundaries (0, 1, 127, 128, 2^14 - 1, 2^14, 2^21 - 1, 2^21, ...; the
last ones exercise the dropped top bit), are enumerated rather than all 2^22.

`RecordBits` is the record the four loops are meant to lay out, bit by bit:
the prefix bytes with the least significant bit first, then the key's bits,
then the tag byte, then the bits of the varint buffer. `RecordLayout` says the
finished buffer is exactly that; a write through the loop's own index
instead of `ptr` overwrites the prefix and breaks it. `ValidatorAssumption` includes
`Varint`'s own assumption, so that the proofs can use it.

## 3. Runs

| Run | Checks | Shows |
|---|---|---|
| `header_chain` | TypeOK, ChainLinked, HeightsAgree, HonestAccepted | over 5 headers, see below: accepted witnesses are linked and carry true heights; honest witnesses are accepted |
| `data_commitment` | DCTypeOK, CommitmentRefined | with a 3-block window in a 4-leaf tree, the builder implements `DataRootCommitment` |
| `data_commitment_overfull` (violation) | WindowCommitted | with W = 3 and NB = 2 the window is truncated |
| `varint` | VarintTypeOK, VarintRoundTrip, VarintCanonical, VarintContinuation | all 1024 inputs decode correctly, at minimal length, with zero bytes after it; byte i continues exactly when a later septet is non-zero |
| `validator` | ValidatorTypeOK, ValidatorParses, RecordLayout | the record stays in its buffer, is the concatenation of its four fields, and parses as field 1 holding the key and field 2 holding the voting power |
| `data_commitment_proof` | CommittedHeightsAreChainHeights | the committed heights are those of the authenticated headers |
| `unauthenticated_data_hashes` (violation) | CommittedDataHashesAuthenticated | the committed data hashes are not tied to the proven ones |
| `spec_window_heights` (violation) | SpecWindowHeights | the code commits trusted .. trusted+W-1, not trusted+1 .. trusted+W |

### Bounds

`MC_HeaderChain` uses the headers g (height 0), h1, h2 (the canonical chain),
x (a fork at height 2 with the same parent as h2) and y (a fabricated header at
height 3). It also has two data hashes, W = 2, and 2-bit heights, so the U64
subtraction wraps. With these, each of the following can be tried and is
caught:

- forks;
- wrong heights;
- wrong data-hash proofs;
- wrapped differences;
- non-canonical current headers.

`MC_DataCommitmentProof` drops y to keep the composed state space at about 6
million states.

### Fairness and termination

No run assumes fairness and no property is a liveness property. Circuit
construction is a single-threaded loop nest with static bounds: it ends by
construction, so that it ends says nothing about the code. Construction ends with `pc = "done"`, and
nothing happens after it. That is why the runs say `CHECK_DEADLOCK FALSE`.

## 4. Findings

- **Unauthenticated data hashes (code bug).** `prove_data_commitment` never
  compares `data_hashes` with the data hashes that `data_hash_proofs`
  authenticate. TLC finds the real chain accepted with a committed data hash
  that differs from the block's own.
- **Window off by one (spec/code divergence).** The committed window starts at
  the trusted height. The spec says the blocks after it.
- **Silent truncation (spec gap).** Nothing enforces `WINDOW_RANGE <= NB_LEAVES`.
  When it fails, the commitment silently drops blocks.

## 5. Proofs

Every theorem below holds for every value of the constants that satisfies the
named assumptions. TLC checked each inductive invariant as an invariant of a
run before it was proved.

### HeaderChainProofs

Assuming `ConstantsAssumption` and `CanonicalAssumption`:

- `TypeCorrect`: `Spec => []TypeOK`.
- `ChainLinkedInvariant`: `Spec => []ChainLinked`.
- `HeightsAgreeInvariant`: `Spec => []HeightsAgree`.
- `HonestAcceptedInvariant`: `Spec => []HonestAccepted`.

`ChainLinked` is not inductive by itself, because it speaks only of the final
state. The strengthening `IInv` adds four things:

- `curr_header_hash` is always the last hash of the walk (`chain[hop + 1]`).
- While `sat` holds, every hop so far is linked (`LinkedSoFar`).
- No hop happens before the walk.
- At `done`, all W hops have been taken and the final hash equals the trusted
  header.

The step case has one proof case per action. The `ChainHop` case rests on four
lemmas:

- `HopChain`: appending one proof keeps the walk and extends it by the
  extracted hash.
- `PrevRootMatches` and `DataRootMatches`: a root equal to a real hash forces
  the leaf to be that header's own field.
- `TypeStep`: every step preserves `TypeOK`.

`HeightsAgree` rests on `HInv == IInv /\ HeightsSoFar`. `HeightsSoFar` says
that while `sat` holds, the current header's claimed height is its real
height, and after the height checks so is the trusted header's. It also says
that when the current header is canonical, every hash of the walk so far is
canonical and one height below the previous one. The `ChainHop` case uses
`PrevRootMatches` and `CanonicalAssumption`, split on whether the height is 0.
`HInvHeightsAgree` states the final implication as a lemma.

`HonestAccepted` (completeness) rests on `IInv /\ HonestSoFar`. `HonestSoFar`
says that while the witness is the honest one, `sat` holds and the walk has
visited the real headers one height apart. Under an honest witness, the next
step's honest witness restricts to the current one, since the walk only
appends. The `ChainHop` case needs the header reached to be above genesis.
That follows from the height difference W and `hop < W`: the header's height
is at least the trusted height plus 1.

### DataCommitmentProofs

Assuming `DataCommitmentAssumption`:

- `DCTypeCorrect`: `DCSpec => []DCTypeOK`.
- `CommitmentRefinement`: `WINDOW_RANGE <= NB_LEAVES` implies
  `DCSpec => CommitmentRefined`, i.e. `get_data_commitment` implements
  `DataRootCommitment`.

The inductive invariant `DCInv` pins the builder's state exactly. During the
loop, `leaves` is the prefix of the window's tuples
(`leaves[k] = Tuple(k)`). After the resize, `leaves` is the padded window,
`leaves_enabled` is `EnabledFlags` and `data_commitment` is the masked root.
The lemmas:

- `EncodeU64Inverse`: the Horner value of `EncodeU64(x)` is `x` for every `x`
  that fits in 8 bytes.
- `TupleReadsBack`: `DecodeHeight` and `DecodeDataHash` recover the height and
  the data hash of an encoded tuple.
- `ResizedWindow` and `PaddedRoot`: the two `Vec::resize` calls and
  `compute_root_from_leaves` put the window's tuples in the first W slots and
  `Empty` after them.
- `CommittedRoot`: the decoded root equals the abstract `Commit` root.

The refinement proof maps `DCInit` to the abstract `Init`. Under the mapping,
`PushLeaf` is a stutter, because the abstract root stays empty until
`dc_pc = "done"`. `ComputeRoot` is the `Commit` step (`CommitmentStep`). The
hypothesis `WINDOW_RANGE <= NB_LEAVES` is the abstract `Commit`'s guard and
the tree size the doc comment of `get_data_commitment` asks for. The code does
not enforce it, and the `data_commitment_overfull` run shows what happens
without it.

### CommitmentChainProofs

- `CommittedHeightsInvariant`: `WINDOW_RANGE <= NB_LEAVES` implies
  `ProofSpec => []CommittedHeightsAreChainHeights`.

Its invariant is `CInv == HInv /\ DCInv /\ Link`. `Link` says that
`start_block` is the trusted height, and that the chain can reach `done` only
after the commitment is computed. A composed step is a step or a stutter of
each component (`ComponentSteps`), so the component step lemmas carry over.
At an accepted state:

- `DoneRoot` gives leaf i's height as `U64(trusted + i - 1)`.
- `HInvHeightsAgree` and `ChainLinked` give the height of the header of proof
  W + 1 - i as `current - (W + 1 - i) = trusted + i - 1`.
- This is a real header's height, so it lies below `2^HEIGHT_BITS`, where
  `U64` is the identity (`U64Small`).

### VarintProofs

For every width and field satisfying `VarintAssumption`:

- `IsLtCorrect`: `IsLtLastNonZeroSeptetIdx(last, i) <=> i < last`, the field
  comparison of the buffer loop.
- `ContinuationInvariant`: `VarintSpec => []VarintContinuation`.

Its inductive invariant `VInv` records, per phase, three facts:

- the zero flags are those of the septets;
- `last_seen` is the last non-zero septet among those scanned
  (`ScannedUpTo`);
- the continuation bits written so far are set exactly below `last_seen`.

### ValidatorProofs

Assuming `ValidatorAssumption`, for every key length and varint width:

- `RecordLayoutInvariant`: `Spec => []RecordLayout`.

The inductive invariant `LInv` states the pointer discipline of the four
loops:

- In each loop, `ptr` is the field's start plus 8 times the loop index.
  The starts are `0`, `PubkeyStart = 32`, `TagStart` and `VarintStart`.
- Every bit below `ptr` already holds its `RecordBits` value.
- No varint byte is copied before `marshal_int64_varint` returns (`i = 0`
  while `vpc # "done"`).
- At `done`, `ptr` is the record length and the varint is finished.

The last point matters because `RecordBits` reads the varint buffer, which
changes while the nested call runs. The invariant has to pin that nothing of
the buffer has been copied yet. The lemmas:

- `WriteByteStep`: one pass of the inner loop writes exactly the eight bits
  at `ptr`.
- `RecordBitsAt`: the record's bit j of each byte of each field.
- `PrefixStep`, `PubkeyStep`, `TagStep`, `MarshalStep`, `CopyStep`: one per
  action of `Next`.

### What stays with TLC

- **Varint round trip and types.** `VarintTypeOK`, `VarintRoundTrip` and
  `VarintCanonical` need the value of a septet or of the decoded buffer. Each
  is a `le_sum` accumulator: a recursive function over a symbolic width with
  terms `b * 2^j`. Two things are missing for that:
  - the fixpoint equation of such a function, which needs the library's
    `NatInductiveDef` (an operator parameter the provers cannot
    instantiate);
  - any fact about `2^j` for a variable `j`, which the SMT backend does not
    have.
- **Validator.** `ValidatorTypeOK` includes `VarintTypeOK`. `ValidatorParses`
  reads bytes with the same accumulator (`ByteAt`) and the varint with
  `DecodeVarint`, so the same limit applies. Its structural half, where each
  bit lands, is proved as `RecordLayout`. What remains with TLC is that those
  bits spell the protobuf encoding.
- **Induction over data and RECURSIVE operators** are out of the provers'
  reach. The recursive helpers are written as recursive functions, so they
  remain open to later proofs.

## 6. Not modelled

- **`encode_marshalled_varint`.** It prepends the constant bytes 0x00 and 0x08;
  nothing in `src/` calls it (its caller is the external height gadget).
- **External gadgets** from plonky2x and the shared code: Merkle proof roots,
  `compute_root_from_leaves` and `verify_block_height`. They are used only
  through their contracts.
- **The byte offset of `extract_hash_from_protobuf`.** It is modelled at field
  level. The leaf layout and the offset constants are defined outside `src/`,
  and under collision-resistant proofs the only accepted leaf is the real
  encoding, so a byte-level model would check the offset against a layout
  taken from the spec rather than from this code.
- **The tests** build circuits on fixtures and change no state.

Further work: a proof of `WindowCommitted`, which holds under the same
hypothesis as the refinement when the heights do not wrap.
