----------------------- MODULE CommitmentChainProofs -----------------------
(***************************************************************************)
(* Proofs about prove_data_commitment, the composition of                 *)
(* get_data_commitment and prove_header_chain: the heights the returned   *)
(* commitment encodes are the heights of the headers the chain walk       *)
(* authenticated, for every universe of headers and every window, tree    *)
(* and height width with the window fitting in the tree.                  *)
(*                                                                         *)
(* The argument composes the inductive invariants of the two components   *)
(* (HInv of HeaderChainProofs, DCInv of DataCommitmentProofs): each step  *)
(* of the composition is a step of one component and a stutter of the     *)
(* other.  Link adds what ties them: start_block is the trusted height,   *)
(* and the header chain finishes only after the commitment is computed.   *)
(***************************************************************************)
EXTENDS DataCommitmentProof, HeaderChainProofs, DataCommitmentProofs

Link ==
  /\ start_block = trusted_header.height
  /\ pc = "done" => dc_pc = "done"

CInv == HInv /\ DCInv /\ Link

USE ConstantsAssumption, DataCommitmentAssumption

-----------------------------------------------------------------------------
(* A step of prove_data_commitment is a step or a stutter of each part.   *)
LEMMA ComponentSteps ==
  [ProofNext]_proof_vars => [Next]_vars /\ [DCNext]_dc_vars
<1> SUFFICES ASSUME [ProofNext]_proof_vars PROVE [Next]_vars /\ [DCNext]_dc_vars
  OBVIOUS
<1>1. CASE GetDataCommitment
  BY <1>1 DEF GetDataCommitment
<1>2. CASE ProveHeaderChain
  BY <1>2 DEF ProveHeaderChain
<1>3. CASE UNCHANGED proof_vars
  BY <1>3 DEF proof_vars
<1>. QED  BY <1>1, <1>2, <1>3 DEF ProofNext

(* Every step of prove_data_commitment preserves CInv.                    *)
LEMMA CInvStep == CInv /\ [ProofNext]_proof_vars => CInv'
<1> SUFFICES ASSUME CInv, [ProofNext]_proof_vars PROVE CInv'
  OBVIOUS
<1>1. HInv'
  BY ComponentSteps, IInvStep, HeightsStep DEF CInv, HInv
<1>2. DCInv'
  BY ComponentSteps, DCInvStep DEF CInv
<1>3. Link'
  <2>1. CASE GetDataCommitment
    <3>1. pc # "done"
      BY <2>1 DEF GetDataCommitment, DCNext, PushLeaf, ComputeRoot, CInv, Link
    <3>. QED
      BY <2>1, <3>1 DEF GetDataCommitment, DCNext, PushLeaf, ComputeRoot,
                        vars, CInv, Link
  <2>2. CASE ProveHeaderChain
    <3>1. trusted_header' = trusted_header
      BY <2>2 DEF ProveHeaderChain, Next, CheckHeightDiff, VerifyCurrentHeight,
                  VerifyTrustedHeight, ChainHop, CheckTrustedHash
    <3>. QED
      BY <2>2, <3>1 DEF ProveHeaderChain, dc_vars, CInv, Link
  <2>3. CASE UNCHANGED proof_vars
    BY <2>3 DEF proof_vars, vars, dc_vars, CInv, Link
  <2>. QED  BY <2>1, <2>2, <2>3 DEF ProofNext
<1>. QED  BY <1>1, <1>2, <1>3 DEF CInv

(* prove_data_commitment starts in CInv.                                  *)
LEMMA CInvInit == ProofInit => CInv
<1> SUFFICES ASSUME ProofInit PROVE CInv
  OBVIOUS
<1>0. Init
  BY DEF ProofInit
<1>1. HInv
  <2>1. TypeOK
    <3>1. /\ <<>> \in Seq(PrevHeaderProofs) /\ <<>> \in Seq(DataHashProofs)
          /\ Len(<<>>) = 0
      BY EmptySeq
    <3>2. current_header.header \in Hashes
      BY <1>0 DEF Init, HeaderInputs, Hashes
    <3>3. /\ pc \in {"height_diff", "verify_current", "verify_trusted", "walk", "done"}
          /\ sat \in BOOLEAN
      BY <1>0 DEF Init
    <3>4. /\ current_header \in HeaderInputs /\ trusted_header \in HeaderInputs
          /\ hop \in 0 .. WINDOW_RANGE
      BY <1>0 DEF Init
    <3>5. /\ prev_header_proofs \in Seq(PrevHeaderProofs)
          /\ Len(prev_header_proofs) = hop
          /\ data_hash_proofs \in Seq(DataHashProofs)
          /\ Len(data_hash_proofs) = hop
          /\ curr_header_hash \in Hashes
      BY <1>0, <3>1, <3>2 DEF Init
    <3>. QED  BY <3>3, <3>4, <3>5 DEF TypeOK
  <2>2. IInv
    BY <1>0, <2>1 DEF Init, IInv, chain, LinkedSoFar
  <2>3. HeightsSoFar
    BY <1>0 DEF Init, HeightsSoFar
  <2>. QED  BY <2>2, <2>3 DEF HInv
<1>2. DCInv
  BY DCInvInit DEF ProofInit
<1>3. Link
  BY DEF ProofInit, Init, Link
<1>. QED  BY <1>1, <1>2, <1>3 DEF CInv

-----------------------------------------------------------------------------
(* A height of the window below 2^HEIGHT_BITS is its own U64 value.        *)
LEMMA U64Small ==
  ASSUME NEW x \in Heights
  PROVE  U64(x) = x
<1>1. 2^HEIGHT_BITS \in Nat \ {0}
  BY DEF Heights
<1>. QED  BY <1>1 DEF U64, Heights

(* CInv gives CommittedHeightsAreChainHeights when the window fits in the  *)
(* tree.                                                                    *)
LEMMA CInvHeights ==
  ASSUME WINDOW_RANGE <= NB_LEAVES
  PROVE  CInv => CommittedHeightsAreChainHeights
<1> SUFFICES ASSUME CInv, Accepted, NEW i \in 1 .. WINDOW_RANGE
             PROVE  DecodeHeight(data_commitment[i])
                      = HeaderHeight[chain[ProofOfLeaf(i) + 1]]
  BY DEF CommittedHeightsAreChainHeights
<1>1. dc_pc = "done" /\ start_block = trusted_header.height
  BY DEF CInv, Link, Accepted
<1>2. DecodeHeight(data_commitment[i]) = U64(start_block + i - 1)
  BY <1>1, DoneRoot DEF CInv
<1>3. /\ trusted_header.height = HeaderHeight[trusted_header.header]
      /\ \A k \in 1 .. WINDOW_RANGE + 1 :
            /\ chain[k] \in Canonical
            /\ HeaderHeight[chain[k]] = current_header.height - (k - 1)
  BY HInvHeightsAgree DEF CInv, Accepted, HeightsAgree
<1>4. chain[WINDOW_RANGE + 1] = trusted_header.header
  BY DEF CInv, HInv, IInv, Accepted
<1>5. current_header.height \in Int
  BY DEF CInv, HInv, IInv, TypeOK, HeaderInputs, Heights
<1>6. trusted_header.height = current_header.height - WINDOW_RANGE
  BY <1>3, <1>4, <1>5
<1>. DEFINE j == ProofOfLeaf(i) + 1
<1>7. j \in 1 .. WINDOW_RANGE + 1 /\ j = WINDOW_RANGE + 2 - i
  BY DEF ProofOfLeaf
<1>8. /\ chain[j] \in Canonical
      /\ HeaderHeight[chain[j]] = trusted_header.height + i - 1
  BY <1>3, <1>5, <1>6, <1>7
<1>9. trusted_header.height + i - 1 \in Heights
  BY <1>8
<1>. QED  BY <1>1, <1>2, <1>8, <1>9, U64Small

(* The heights the commitment of prove_data_commitment encodes are the     *)
(* heights of the headers whose data hashes prove_header_chain            *)
(* authenticated, leaf i lining up with proof WINDOW_RANGE + 1 - i: the     *)
(* start block of get_data_commitment, its U64 index arithmetic and the    *)
(* walk order of prove_header_chain agree (the invariant                   *)
(* CommittedHeightsAreChainHeights checked by TLC on                       *)
(* MC_DataCommitmentProof), for every window that fits in the tree.        *)
THEOREM CommittedHeightsInvariant ==
  ASSUME WINDOW_RANGE <= NB_LEAVES
  PROVE  ProofSpec => []CommittedHeightsAreChainHeights
<1>1. ProofInit => CInv
  BY CInvInit
<1>2. CInv /\ [ProofNext]_proof_vars => CInv'
  BY CInvStep
<1>3. CInv => CommittedHeightsAreChainHeights
  BY CInvHeights
<1>. QED  BY <1>1, <1>2, <1>3, PTL DEF ProofSpec
=============================================================================
