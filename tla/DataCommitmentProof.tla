------------------------ MODULE DataCommitmentProof -------------------------
(***************************************************************************)
(* prove_data_commitment (src/src/commitment.rs): the data commitment of   *)
(* the window starting at the trusted header's height is computed first,  *)
(* then the header chain is proved, and the commitment is returned.  Both *)
(* sets of constraints sit in one circuit: the witness is accepted when   *)
(* the header chain's constraints hold (get_data_commitment asserts        *)
(* nothing).                                                               *)
(***************************************************************************)
EXTENDS HeaderChain, DataCommitment

proof_vars == <<vars, dc_vars>>

(* get_data_commitment is called with start_block set to                  *)
(* input.trusted_header.height.                                            *)
ProofInit ==
  /\ Init
  /\ DCInit
  /\ start_block = trusted_header.height

(* get_data_commitment runs to its end before prove_header_chain starts.   *)
GetDataCommitment == DCNext /\ UNCHANGED vars

ProveHeaderChain ==
  /\ dc_pc = "done"
  /\ Next
  /\ UNCHANGED dc_vars

ProofNext == GetDataCommitment \/ ProveHeaderChain

ProofSpec == ProofInit /\ [][ProofNext]_proof_vars

-----------------------------------------------------------------------------
(* The proof is accepted for a window that ends at a real current header.  *)
Accepted == pc = "done" /\ sat /\ current_header.header \in Canonical

(* The header whose data hash data_hash_proofs[k] authenticated is         *)
(* chain[k + 1]; leaf i of the commitment lines up with                   *)
(* data_hash_proofs[WINDOW_RANGE + 1 - i], as the proofs run from the      *)
(* current header down while the leaves run up from the trusted one.       *)
ProofOfLeaf(i) == WINDOW_RANGE + 1 - i

(* The heights the commitment encodes are exactly the heights of the       *)
(* headers whose data hashes the chain walk authenticated: leaf i holds    *)
(* trusted height + i - 1, the height of the header reached at hop         *)
(* WINDOW_RANGE + 1 - i.  It ties get_data_commitment's start block and    *)
(* index to prove_header_chain's height checks and walk order.             *)
CommittedHeightsAreChainHeights ==
  Accepted =>
    \A i \in 1 .. WINDOW_RANGE :
       DecodeHeight(data_commitment[i])
         = HeaderHeight[chain[ProofOfLeaf(i) + 1]]

(* The data hashes the commitment encodes are those the chain walk         *)
(* authenticated (the end-to-end guarantee the spec states for            *)
(* prove_data_commitment): leaf i carries the data hash proved by          *)
(* data_hash_proofs[WINDOW_RANGE + 1 - i].                                 *)
CommittedDataHashesAuthenticated ==
  Accepted =>
    \A i \in 1 .. WINDOW_RANGE :
       DecodeDataHash(data_commitment[i])
         = data_hash_proofs[ProofOfLeaf(i)].leaf.data_hash

(* The spec's window: the commitment covers the WINDOW_RANGE blocks        *)
(* immediately following the trusted header, heights trusted + 1 ..        *)
(* trusted + WINDOW_RANGE.                                                 *)
SpecWindowHeights ==
  Accepted =>
    \A i \in 1 .. WINDOW_RANGE :
       DecodeHeight(data_commitment[i]) = trusted_header.height + i
=============================================================================
