---------------------------- MODULE HeaderChain -----------------------------
(***************************************************************************)
(* The header-chain walk of prove_header_chain (src/src/commitment.rs).   *)
(*                                                                         *)
(* The circuit is built once and evaluated on a witness; a constraint that *)
(* does not hold does not stop the evaluation, it makes the witness        *)
(* unprovable.  So the state machine below walks the statements of        *)
(* prove_header_chain in order and keeps `sat`, the conjunction of every   *)
(* asserted equality so far.  The witness (the CelestiaHeaderChain-        *)
(* ProofInputVariable) is chosen by the prover: the two headers in Init,   *)
(* and proof i of each array at hop i, which is the only place it is read. *)
(*                                                                         *)
(* Hashes are abstract.  A header is named by its hash; the universe       *)
(* Headers holds every header that matters (real or fabricated), with the *)
(* fields the walk reads: the hash of its last_block_id, its data_hash and *)
(* its height.  A Merkle inclusion proof is abstracted to its leaf and its *)
(* aunts, where `aunts` names the header whose tree the sibling path comes *)
(* from; by collision resistance the recomputed root is that header's hash *)
(* only when the leaf is that header's own field, and Junk (no header's    *)
(* hash) otherwise.                                                        *)
(***************************************************************************)
EXTENDS Integers, Sequences, CircuitParams

CONSTANTS
  Headers,        \* hashes of all headers in the universe
  NoHash,         \* a hash value that is no header's hash (genesis last_block_id)
  Junk,           \* the root recomputed from a leaf that is not in the aunts' tree
  LastBlockId,    \* LastBlockId[h]: the hash inside header h's last_block_id
  DataHash,       \* DataHash[h]: header h's data_hash
  HeaderHeight,   \* HeaderHeight[h]: header h's height
  Canonical       \* the headers of the real chain

Hashes == Headers \cup {NoHash}

ASSUME ConstantsAssumption ==
  /\ NoHash \notin Headers /\ Junk \notin Hashes
  /\ LastBlockId \in [Headers -> Hashes]
  /\ DataHash \in [Headers -> DataHashes]
  /\ HeaderHeight \in [Headers -> Heights]
  /\ Canonical \subseteq Headers
  /\ WINDOW_RANGE \in Nat \ {0}
  /\ HEIGHT_BITS \in Nat \ {0}

(* The real chain: one header per height, each linked to the one below,   *)
(* the lowest one being genesis.                                           *)
ASSUME CanonicalAssumption ==
  \A h \in Canonical :
     /\ \A g \in Canonical : HeaderHeight[g] = HeaderHeight[h] => g = h
     /\ IF HeaderHeight[h] = 0
          THEN LastBlockId[h] = NoHash
          ELSE /\ LastBlockId[h] \in Canonical
               /\ HeaderHeight[LastBlockId[h]] = HeaderHeight[h] - 1

(* HeaderVariable: a header hash and the height claimed for it (the height *)
(* proof and byte length are folded into verify_block_height below).      *)
HeaderInputs == [header : Headers, height : Heights]

(* Leaves of the two proof arrays: the protobuf BlockID (hash at offset 2) *)
(* and the protobuf-encoded data_hash.                                     *)
BlockIdLeaf(h) == [hash |-> LastBlockId[h]]
DataHashLeaf(h) == [data_hash |-> DataHash[h]]

PrevHeaderProofs ==
  {p \in [aunts : Headers \cup {Junk}, leaf : [hash : Hashes]] :
     p.aunts \in Headers => p.leaf = BlockIdLeaf(p.aunts)}
DataHashProofs ==
  {p \in [aunts : Headers \cup {Junk}, leaf : [data_hash : DataHashes]] :
     p.aunts \in Headers => p.leaf = DataHashLeaf(p.aunts)}

(* get_root_from_merkle_proof: the root a proof recomputes.                *)
GetRootFromPrevHeaderProof(p) ==
  IF p.aunts \in Headers /\ p.leaf = BlockIdLeaf(p.aunts) THEN p.aunts ELSE Junk
GetRootFromDataHashProof(p) ==
  IF p.aunts \in Headers /\ p.leaf = DataHashLeaf(p.aunts) THEN p.aunts ELSE Junk

(* extract_hash_from_protobuf::<2, _>: the 32 bytes after the tag and      *)
(* length bytes of the BlockID are its hash field.                        *)
ExtractHashFromProtobuf(leaf) == leaf.hash

(* A defective height gadget that checks the header's proof but not the  *)
(* height it is given.                                                     *)
VerifyBlockHeightIgnoringHeight(header, height) == TRUE

(* verify_block_height: the height proof shows `height` is the height     *)
(* field of the header with hash `header`.                                 *)
VerifyBlockHeight(header, height) == height = HeaderHeight[header]

VARIABLES
  pc,                  \* the statement of prove_header_chain reached
  sat,                 \* every constraint added so far holds on the witness
  current_header,      \* input.current_header
  trusted_header,      \* input.trusted_header
  prev_header_proofs,  \* input.prev_header_proofs[0..hop)
  data_hash_proofs,    \* input.data_hash_proofs[0..hop)
  hop,                 \* the loop index i
  curr_header_hash     \* curr_header_hash

vars == <<pc, sat, current_header, trusted_header, prev_header_proofs,
          data_hash_proofs, hop, curr_header_hash>>

Init ==
  /\ current_header \in HeaderInputs
  /\ trusted_header \in HeaderInputs
  /\ prev_header_proofs = <<>>
  /\ data_hash_proofs = <<>>
  /\ hop = 0
  /\ curr_header_hash = current_header.header
  /\ sat = TRUE
  /\ pc = "height_diff"

(* A defective height check: against WINDOW_RANGE + 1.                     *)
CheckHeightDiffOffByOne ==
  /\ pc = "height_diff"
  /\ sat' = (sat /\ U64(current_header.height - trusted_header.height)
                      = U64(WINDOW_RANGE + 1))
  /\ pc' = "verify_current"
  /\ UNCHANGED <<current_header, trusted_header, prev_header_proofs,
                 data_hash_proofs, hop, curr_header_hash>>

(* Verify current_block_height - trusted_block_height == WINDOW_RANGE.    *)
CheckHeightDiff ==
  /\ pc = "height_diff"
  /\ sat' = (sat /\ U64(current_header.height - trusted_header.height)
                      = U64(WINDOW_RANGE))
  /\ pc' = "verify_current"
  /\ UNCHANGED <<current_header, trusted_header, prev_header_proofs,
                 data_hash_proofs, hop, curr_header_hash>>

VerifyCurrentHeight ==
  /\ pc = "verify_current"
  /\ sat' = (sat /\ VerifyBlockHeight(current_header.header, current_header.height))
  /\ pc' = "verify_trusted"
  /\ UNCHANGED <<current_header, trusted_header, prev_header_proofs,
                 data_hash_proofs, hop, curr_header_hash>>

VerifyTrustedHeight ==
  /\ pc = "verify_trusted"
  /\ sat' = (sat /\ VerifyBlockHeight(trusted_header.header, trusted_header.height))
  /\ pc' = "walk"
  /\ UNCHANGED <<current_header, trusted_header, prev_header_proofs,
                 data_hash_proofs, hop, curr_header_hash>>

(* Defective loops: one that forgets the bound of the loop, one that does  *)
(* not assert the prev header proof against the current hash.             *)
ChainHopUnbounded ==
  /\ pc = "walk"
  /\ \E prev_header_proof \in PrevHeaderProofs :
     \E data_hash_proof \in DataHashProofs :
       LET prev_header_hash == ExtractHashFromProtobuf(prev_header_proof.leaf)
       IN /\ sat' = (/\ sat
                     /\ GetRootFromPrevHeaderProof(prev_header_proof) = curr_header_hash
                     /\ GetRootFromDataHashProof(data_hash_proof) = prev_header_hash)
          /\ curr_header_hash' = prev_header_hash
          /\ prev_header_proofs' = Append(prev_header_proofs, prev_header_proof)
          /\ data_hash_proofs' = Append(data_hash_proofs, data_hash_proof)
  /\ hop' = hop + 1
  /\ UNCHANGED <<pc, current_header, trusted_header>>

ChainHopNoPrevCheck ==
  /\ pc = "walk"
  /\ hop < WINDOW_RANGE
  /\ \E prev_header_proof \in PrevHeaderProofs :
     \E data_hash_proof \in DataHashProofs :
       LET prev_header_hash == ExtractHashFromProtobuf(prev_header_proof.leaf)
       IN /\ sat' = (sat /\ GetRootFromDataHashProof(data_hash_proof) = prev_header_hash)
          /\ curr_header_hash' = prev_header_hash
          /\ prev_header_proofs' = Append(prev_header_proofs, prev_header_proof)
          /\ data_hash_proofs' = Append(data_hash_proofs, data_hash_proof)
  /\ hop' = hop + 1
  /\ UNCHANGED <<pc, current_header, trusted_header>>

(* One iteration of the loop: the previous header's BlockID is proved      *)
(* under the current hash, its hash extracted, that header's data hash     *)
(* proved under it, and the walk moves one header down.                    *)
ChainHop ==
  /\ pc = "walk"
  /\ hop < WINDOW_RANGE
  /\ \E prev_header_proof \in PrevHeaderProofs :
     \E data_hash_proof \in DataHashProofs :
       LET data_hash_proof_root == GetRootFromDataHashProof(data_hash_proof)
           prev_header_proof_root == GetRootFromPrevHeaderProof(prev_header_proof)
           prev_header_hash == ExtractHashFromProtobuf(prev_header_proof.leaf)
       IN /\ sat' = (/\ sat
                     /\ prev_header_proof_root = curr_header_hash
                     /\ data_hash_proof_root = prev_header_hash)
          /\ curr_header_hash' = prev_header_hash
          /\ prev_header_proofs' = Append(prev_header_proofs, prev_header_proof)
          /\ data_hash_proofs' = Append(data_hash_proofs, data_hash_proof)
  /\ hop' = hop + 1
  /\ UNCHANGED <<pc, current_header, trusted_header>>

(* Verify the last header hash in the chain is the trusted header.        *)
CheckTrustedHash ==
  /\ pc = "walk"
  /\ hop = WINDOW_RANGE
  /\ sat' = (sat /\ curr_header_hash = trusted_header.header)
  /\ pc' = "done"
  /\ UNCHANGED <<current_header, trusted_header, prev_header_proofs,
                 data_hash_proofs, hop, curr_header_hash>>

Next ==
  \/ CheckHeightDiff
  \/ VerifyCurrentHeight
  \/ VerifyTrustedHeight
  \/ ChainHop
  \/ CheckTrustedHash

Spec == Init /\ [][Next]_vars

-----------------------------------------------------------------------------
TypeOK ==
  /\ pc \in {"height_diff", "verify_current", "verify_trusted", "walk", "done"}
  /\ sat \in BOOLEAN
  /\ current_header \in HeaderInputs
  /\ trusted_header \in HeaderInputs
  /\ hop \in 0 .. WINDOW_RANGE
  /\ prev_header_proofs \in Seq(PrevHeaderProofs)
  /\ Len(prev_header_proofs) = hop
  /\ data_hash_proofs \in Seq(DataHashProofs)
  /\ Len(data_hash_proofs) = hop
  /\ curr_header_hash \in Hashes

(* The hashes the walk visits: chain[1] is the current header, chain[k+1]  *)
(* the hash extracted at hop k.                                            *)
chain ==
  [k \in 1 .. hop + 1 |->
     IF k = 1 THEN current_header.header
              ELSE ExtractHashFromProtobuf(prev_header_proofs[k - 1].leaf)]

(* A witness that satisfies every constraint of prove_header_chain links   *)
(* the current header to the trusted one through exactly WINDOW_RANGE      *)
(* last_block_id hashes, and data_hash_proofs[k] authenticates the data    *)
(* hash of the k-th header below the current one.  This is what the       *)
(* prev-header and data-hash assertions of the loop and the final         *)
(* comparison with the trusted header establish together.                  *)
ChainLinked ==
  (pc = "done" /\ sat) =>
     /\ chain[WINDOW_RANGE + 1] = trusted_header.header
     /\ \A k \in 1 .. WINDOW_RANGE :
           /\ LastBlockId[chain[k]] = chain[k + 1]
           /\ data_hash_proofs[k].leaf = DataHashLeaf(chain[k + 1])

(* When the current header is a real one, an accepted witness commits to   *)
(* the real heights: the claimed heights are those of the two headers and  *)
(* the k-th header of the walk sits k below the current height, so the    *)
(* U64 height difference cannot have wrapped.                              *)
HeightsAgree ==
  (pc = "done" /\ sat /\ current_header.header \in Canonical) =>
     /\ current_header.height = HeaderHeight[current_header.header]
     /\ trusted_header.height = HeaderHeight[trusted_header.header]
     /\ \A k \in 1 .. WINDOW_RANGE + 1 :
           /\ chain[k] \in Canonical
           /\ HeaderHeight[chain[k]] = current_header.height - (k - 1)

(* The witness an honest prover builds from the real chain: the real      *)
(* headers WINDOW_RANGE apart with their heights, and at every hop the     *)
(* proofs taken from the header reached so far.                            *)
HonestWitness ==
  /\ current_header.header \in Canonical
  /\ trusted_header.header \in Canonical
  /\ current_header.height = HeaderHeight[current_header.header]
  /\ trusted_header.height = HeaderHeight[trusted_header.header]
  /\ current_header.height - trusted_header.height = WINDOW_RANGE
  /\ \A k \in 1 .. hop :
        /\ prev_header_proofs[k] = [aunts |-> chain[k], leaf |-> BlockIdLeaf(chain[k])]
        /\ data_hash_proofs[k] = [aunts |-> chain[k + 1], leaf |-> DataHashLeaf(chain[k + 1])]

(* Completeness: the honest witness of a real chain satisfies every        *)
(* constraint, as test_prove_header_chain expects for heights 3800..3804.  *)
HonestAccepted == (pc = "done" /\ HonestWitness) => sat
=============================================================================
