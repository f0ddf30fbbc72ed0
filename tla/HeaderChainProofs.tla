------------------------- MODULE HeaderChainProofs --------------------------
(***************************************************************************)
(* Proofs about the header-chain walk of prove_header_chain: the type      *)
(* invariant; soundness, i.e. a witness satisfying every constraint links  *)
(* the current header to the trusted one (ChainLinked) with the real       *)
(* heights (HeightsAgree); and completeness, i.e. the honest witness of    *)
(* the real chain is accepted (HonestAccepted); for every universe of      *)
(* headers, every window size and every height width.                     *)
(***************************************************************************)
EXTENDS HeaderChain, SequenceTheorems, TLAPS

(* The walk so far, when no constraint has failed: every header reached    *)
(* is a header whose last_block_id names the next one, and each data hash  *)
(* proof carries the data hash of the header below.                       *)
LinkedSoFar ==
  \A k \in 1 .. hop :
     /\ chain[k] \in Headers
     /\ LastBlockId[chain[k]] = chain[k + 1]
     /\ data_hash_proofs[k].leaf = DataHashLeaf(chain[k + 1])

(* The inductive strengthening of ChainLinked: curr_header_hash is always  *)
(* the last hash of the walk, the loop has not started before the walk,   *)
(* and the walk is complete once the final check has run.                 *)
IInv ==
  /\ TypeOK
  /\ curr_header_hash = chain[hop + 1]
  /\ sat => LinkedSoFar
  /\ pc \in {"height_diff", "verify_current", "verify_trusted"} => hop = 0
  /\ pc = "done" =>
        /\ hop = WINDOW_RANGE
        /\ sat => curr_header_hash = trusted_header.header

USE ConstantsAssumption

-----------------------------------------------------------------------------
(* What one hop does to the walk: the recorded proofs grow by one, and     *)
(* the walk keeps its hashes and gains the extracted one.                  *)
LEMMA HopChain ==
  ASSUME TypeOK,
         NEW pp \in PrevHeaderProofs, NEW dp \in DataHashProofs,
         prev_header_proofs' = Append(prev_header_proofs, pp),
         data_hash_proofs' = Append(data_hash_proofs, dp),
         hop' = hop + 1,
         current_header' = current_header
  PROVE  /\ prev_header_proofs' \in Seq(PrevHeaderProofs)
         /\ Len(prev_header_proofs') = hop'
         /\ data_hash_proofs' \in Seq(DataHashProofs)
         /\ Len(data_hash_proofs') = hop'
         /\ \A k \in 1 .. hop : data_hash_proofs'[k] = data_hash_proofs[k]
         /\ data_hash_proofs'[hop + 1] = dp
         /\ \A k \in 1 .. hop + 1 : chain'[k] = chain[k]
         /\ chain'[hop + 2] = ExtractHashFromProtobuf(pp.leaf)
<1>1. /\ Append(prev_header_proofs, pp) \in Seq(PrevHeaderProofs)
      /\ Len(Append(prev_header_proofs, pp)) = hop + 1
      /\ \A k \in 1 .. hop : Append(prev_header_proofs, pp)[k] = prev_header_proofs[k]
      /\ Append(prev_header_proofs, pp)[hop + 1] = pp
  BY AppendProperties DEF TypeOK
<1>2. /\ Append(data_hash_proofs, dp) \in Seq(DataHashProofs)
      /\ Len(Append(data_hash_proofs, dp)) = hop + 1
      /\ \A k \in 1 .. hop : Append(data_hash_proofs, dp)[k] = data_hash_proofs[k]
      /\ Append(data_hash_proofs, dp)[hop + 1] = dp
  BY AppendProperties DEF TypeOK
<1>3. hop \in Nat
  BY DEF TypeOK
<1>4. \A k \in 1 .. hop + 1 : chain'[k] = chain[k]
  BY <1>1, <1>3 DEF chain
<1>5. chain'[hop + 2] = ExtractHashFromProtobuf(pp.leaf)
  BY <1>1, <1>3 DEF chain
<1>. QED  BY <1>1, <1>2, <1>4, <1>5

-----------------------------------------------------------------------------
(* Every step of the walk preserves TypeOK.                               *)
LEMMA TypeStep == TypeOK /\ [Next]_vars => TypeOK'
<1> SUFFICES ASSUME TypeOK, [Next]_vars PROVE TypeOK'
  OBVIOUS
<1>1. CASE CheckHeightDiff
  BY <1>1 DEF CheckHeightDiff, TypeOK
<1>2. CASE VerifyCurrentHeight
  BY <1>2 DEF VerifyCurrentHeight, TypeOK
<1>3. CASE VerifyTrustedHeight
  BY <1>3 DEF VerifyTrustedHeight, TypeOK
<1>4. CASE ChainHop
  <2>1. PICK pp \in PrevHeaderProofs, dp \in DataHashProofs :
           /\ curr_header_hash' = ExtractHashFromProtobuf(pp.leaf)
           /\ prev_header_proofs' = Append(prev_header_proofs, pp)
           /\ data_hash_proofs' = Append(data_hash_proofs, dp)
    BY <1>4 DEF ChainHop
  <2>2. ExtractHashFromProtobuf(pp.leaf) \in Hashes
    BY DEF PrevHeaderProofs, ExtractHashFromProtobuf
  <2>3. hop' = hop + 1 /\ hop + 1 \in 0 .. WINDOW_RANGE
    BY <1>4 DEF ChainHop, TypeOK
  <2>. QED  BY <1>4, <2>1, <2>2, <2>3, HopChain DEF ChainHop, TypeOK
<1>5. CASE CheckTrustedHash
  BY <1>5 DEF CheckTrustedHash, TypeOK
<1>6. CASE UNCHANGED vars
  BY <1>6 DEF vars, TypeOK
<1>. QED  BY <1>1, <1>2, <1>3, <1>4, <1>5, <1>6 DEF Next

(* TypeOK is an invariant of the walk.                                     *)
THEOREM TypeCorrect == Spec => []TypeOK
<1>1. Init => TypeOK
  BY EmptySeq DEF Init, TypeOK, HeaderInputs, Hashes
<1>2. TypeOK /\ [Next]_vars => TypeOK'
  BY TypeStep
<1>. QED  BY <1>1, <1>2, PTL DEF Spec

-----------------------------------------------------------------------------
(* A root recomputed from a proof is a hash the walk can hold only when    *)
(* the proof is a genuine one of that header.                              *)
LEMMA PrevRootMatches ==
  ASSUME NEW pp \in PrevHeaderProofs, NEW h \in Hashes,
         GetRootFromPrevHeaderProof(pp) = h
  PROVE  /\ h \in Headers
         /\ LastBlockId[h] = ExtractHashFromProtobuf(pp.leaf)
  BY DEF GetRootFromPrevHeaderProof, BlockIdLeaf, ExtractHashFromProtobuf, Hashes

LEMMA DataRootMatches ==
  ASSUME NEW dp \in DataHashProofs, NEW h \in Hashes,
         GetRootFromDataHashProof(dp) = h
  PROVE  dp.leaf = DataHashLeaf(h)
  BY DEF GetRootFromDataHashProof, Hashes

(* Every step of the walk preserves the strengthening IInv.              *)
LEMMA IInvStep == IInv /\ [Next]_vars => IInv'
<1> SUFFICES ASSUME IInv, [Next]_vars PROVE IInv'
  OBVIOUS
<1>0. TypeOK'
  BY TypeStep DEF IInv
<1>1. CASE CheckHeightDiff \/ VerifyCurrentHeight \/ VerifyTrustedHeight
  <2>1. /\ UNCHANGED <<current_header, trusted_header, prev_header_proofs,
                       data_hash_proofs, hop, curr_header_hash>>
        /\ sat' => sat
        /\ pc' \in {"verify_current", "verify_trusted", "walk"}
        /\ pc \in {"height_diff", "verify_current", "verify_trusted"}
    BY <1>1 DEF CheckHeightDiff, VerifyCurrentHeight, VerifyTrustedHeight
  <2>2. chain' = chain
    BY <2>1 DEF chain
  <2>. QED  BY <1>0, <2>1, <2>2 DEF IInv, LinkedSoFar
<1>2. CASE ChainHop
  <2>1. PICK pp \in PrevHeaderProofs, dp \in DataHashProofs :
           /\ sat' = (/\ sat
                      /\ GetRootFromPrevHeaderProof(pp) = curr_header_hash
                      /\ GetRootFromDataHashProof(dp) = ExtractHashFromProtobuf(pp.leaf))
           /\ curr_header_hash' = ExtractHashFromProtobuf(pp.leaf)
           /\ prev_header_proofs' = Append(prev_header_proofs, pp)
           /\ data_hash_proofs' = Append(data_hash_proofs, dp)
    BY <1>2 DEF ChainHop
  <2>2. /\ pc = "walk" /\ pc' = "walk"
        /\ hop \in Nat /\ hop' = hop + 1
        /\ current_header' = current_header
    BY <1>2 DEF ChainHop, IInv, TypeOK
  <2>3. /\ \A k \in 1 .. hop : data_hash_proofs'[k] = data_hash_proofs[k]
        /\ data_hash_proofs'[hop + 1] = dp
        /\ \A k \in 1 .. hop + 1 : chain'[k] = chain[k]
        /\ chain'[hop + 2] = ExtractHashFromProtobuf(pp.leaf)
    BY <2>1, <2>2, HopChain DEF IInv
  <2>4. curr_header_hash' = chain'[hop' + 1]
    BY <2>1, <2>2, <2>3
  <2>5. sat' => LinkedSoFar'
    <3> SUFFICES ASSUME sat' PROVE LinkedSoFar'
      OBVIOUS
    <3>1. curr_header_hash \in Hashes /\ ExtractHashFromProtobuf(pp.leaf) \in Hashes
      BY DEF IInv, TypeOK, PrevHeaderProofs, ExtractHashFromProtobuf
    <3>2. /\ curr_header_hash \in Headers
          /\ LastBlockId[curr_header_hash] = ExtractHashFromProtobuf(pp.leaf)
      BY <2>1, <3>1, PrevRootMatches
    <3>3. dp.leaf = DataHashLeaf(ExtractHashFromProtobuf(pp.leaf))
      BY <2>1, <3>1, DataRootMatches
    <3>4. LinkedSoFar
      BY <2>1 DEF IInv
    <3>5. ASSUME NEW k \in 1 .. hop
          PROVE  /\ chain'[k] \in Headers
                 /\ LastBlockId[chain'[k]] = chain'[k + 1]
                 /\ data_hash_proofs'[k].leaf = DataHashLeaf(chain'[k + 1])
      BY <2>2, <2>3, <3>4 DEF LinkedSoFar
    <3>6. /\ chain'[hop + 1] \in Headers
          /\ LastBlockId[chain'[hop + 1]] = chain'[hop + 2]
          /\ data_hash_proofs'[hop + 1].leaf = DataHashLeaf(chain'[hop + 2])
      BY <2>2, <2>3, <3>2, <3>3 DEF IInv
    <3>. QED  BY <2>2, <3>5, <3>6 DEF LinkedSoFar
  <2>. QED  BY <1>0, <2>2, <2>4, <2>5 DEF IInv
<1>3. CASE CheckTrustedHash
  <2>1. /\ UNCHANGED <<current_header, trusted_header, prev_header_proofs,
                       data_hash_proofs, hop, curr_header_hash>>
        /\ sat' = (sat /\ curr_header_hash = trusted_header.header)
        /\ pc' = "done" /\ pc = "walk"
        /\ hop = WINDOW_RANGE
    BY <1>3 DEF CheckTrustedHash
  <2>2. chain' = chain
    BY <2>1 DEF chain
  <2>. QED  BY <1>0, <2>1, <2>2 DEF IInv, LinkedSoFar
<1>4. CASE UNCHANGED vars
  <2>1. chain' = chain
    BY <1>4 DEF vars, chain
  <2>. QED  BY <1>4, <2>1 DEF vars, IInv, TypeOK, LinkedSoFar
<1>. QED  BY <1>1, <1>2, <1>3, <1>4 DEF Next

(* A witness that satisfies every constraint of prove_header_chain links   *)
(* the current header to the trusted one through WINDOW_RANGE              *)
(* last_block_id hashes, each data hash proof authenticating the data     *)
(* hash of the header below (the invariant ChainLinked checked by TLC on  *)
(* MC_HeaderChain).                                                        *)
THEOREM ChainLinkedInvariant == Spec => []ChainLinked
<1>1. Init => IInv
  BY EmptySeq DEF Init, IInv, TypeOK, HeaderInputs, Hashes, chain, LinkedSoFar
<1>2. IInv /\ [Next]_vars => IInv'
  BY IInvStep
<1>3. IInv => ChainLinked
  BY DEF IInv, ChainLinked, LinkedSoFar, TypeOK
<1>. QED  BY <1>1, <1>2, <1>3, PTL DEF Spec
-----------------------------------------------------------------------------
(* The height facts the constraints establish so far: the two claimed      *)
(* heights are the headers' own once verify_block_height has run on them,  *)
(* and, from a real current header, every hash the walk reached is either *)
(* the real header hop - 1 below it or, past genesis, NoHash.              *)
HeightsSoFar ==
  /\ (sat /\ pc \in {"verify_trusted", "walk", "done"}) =>
        current_header.height = HeaderHeight[current_header.header]
  /\ (sat /\ pc \in {"walk", "done"}) =>
        trusted_header.height = HeaderHeight[trusted_header.header]
  /\ (sat /\ pc \in {"verify_trusted", "walk", "done"}
          /\ current_header.header \in Canonical) =>
        \A k \in 1 .. hop + 1 :
           \/ chain[k] = NoHash
           \/ /\ chain[k] \in Canonical
              /\ HeaderHeight[chain[k]] = current_header.height - (k - 1)

HInv == IInv /\ HeightsSoFar

(* Every step of the walk preserves HeightsSoFar, given IInv.             *)
LEMMA HeightsStep == IInv /\ HeightsSoFar /\ [Next]_vars => HeightsSoFar'
<1> SUFFICES ASSUME IInv, HeightsSoFar, [Next]_vars PROVE HeightsSoFar'
  OBVIOUS
<1>1. CASE CheckHeightDiff
  BY <1>1 DEF CheckHeightDiff, HeightsSoFar
<1>2. CASE VerifyCurrentHeight
  <2>1. /\ UNCHANGED <<current_header, trusted_header, prev_header_proofs, hop>>
        /\ sat' = (sat /\ current_header.height = HeaderHeight[current_header.header])
        /\ pc' = "verify_trusted"
        /\ hop = 0
    BY <1>2 DEF VerifyCurrentHeight, VerifyBlockHeight, IInv
  <2>2. chain' = chain /\ chain[1] = current_header.header
    BY <2>1 DEF chain
  <2>3. current_header.height \in Int
    BY DEF IInv, TypeOK, HeaderInputs, Heights
  <2>4. ASSUME sat', current_header.header \in Canonical
        PROVE  \A k \in 1 .. hop' + 1 :
                 /\ chain'[k] \in Canonical
                 /\ HeaderHeight[chain'[k]] = current_header'.height - (k - 1)
    <3>1. current_header.height = HeaderHeight[current_header.header]
      BY <2>1, <2>4
    <3>. QED  BY <2>1, <2>2, <2>3, <2>4, <3>1
  <2>. QED  BY <2>1, <2>2, <2>4 DEF HeightsSoFar
<1>3. CASE VerifyTrustedHeight
  <2>1. /\ UNCHANGED <<current_header, trusted_header, prev_header_proofs, hop>>
        /\ sat' = (sat /\ trusted_header.height = HeaderHeight[trusted_header.header])
        /\ pc = "verify_trusted" /\ pc' = "walk"
    BY <1>3 DEF VerifyTrustedHeight, VerifyBlockHeight
  <2>2. chain' = chain
    BY <2>1 DEF chain
  <2>. QED  BY <2>1, <2>2 DEF HeightsSoFar
<1>4. CASE ChainHop
  <2>1. PICK pp \in PrevHeaderProofs, dp \in DataHashProofs :
           /\ sat' = (/\ sat
                      /\ GetRootFromPrevHeaderProof(pp) = curr_header_hash
                      /\ GetRootFromDataHashProof(dp) = ExtractHashFromProtobuf(pp.leaf))
           /\ prev_header_proofs' = Append(prev_header_proofs, pp)
           /\ data_hash_proofs' = Append(data_hash_proofs, dp)
    BY <1>4 DEF ChainHop
  <2>2. /\ pc = "walk" /\ pc' = "walk"
        /\ hop \in Nat /\ hop' = hop + 1
        /\ current_header' = current_header /\ trusted_header' = trusted_header
    BY <1>4 DEF ChainHop, IInv, TypeOK
  <2>3. /\ \A k \in 1 .. hop + 1 : chain'[k] = chain[k]
        /\ chain'[hop + 2] = ExtractHashFromProtobuf(pp.leaf)
    BY <2>1, <2>2, HopChain DEF IInv
  <2>4. ASSUME sat', current_header.header \in Canonical
        PROVE  \A k \in 1 .. hop' + 1 :
                 \/ chain'[k] = NoHash
                 \/ /\ chain'[k] \in Canonical
                    /\ HeaderHeight[chain'[k]] = current_header.height - (k - 1)
    <3>1. curr_header_hash = chain[hop + 1] /\ curr_header_hash \in Hashes
      BY DEF IInv, TypeOK
    <3>2. /\ chain[hop + 1] \in Headers
          /\ LastBlockId[chain[hop + 1]] = ExtractHashFromProtobuf(pp.leaf)
      BY <2>1, <3>1, <2>4, PrevRootMatches
    <3>3. \A k \in 1 .. hop + 1 :
             \/ chain[k] = NoHash
             \/ /\ chain[k] \in Canonical
                /\ HeaderHeight[chain[k]] = current_header.height - (k - 1)
      BY <2>1, <2>2, <2>4 DEF HeightsSoFar
    <3>4. /\ chain[hop + 1] \in Canonical
          /\ HeaderHeight[chain[hop + 1]] = current_header.height - hop
      BY <3>2, <3>3, <2>2
    <3>5. \/ chain'[hop + 2] = NoHash
          \/ /\ chain'[hop + 2] \in Canonical
             /\ HeaderHeight[chain'[hop + 2]] = current_header.height - (hop + 1)
      <4>1. CASE HeaderHeight[chain[hop + 1]] = 0
        BY <4>1, <3>2, <3>4, <2>3, CanonicalAssumption
      <4>2. CASE HeaderHeight[chain[hop + 1]] # 0
        <5>1. /\ LastBlockId[chain[hop + 1]] \in Canonical
              /\ HeaderHeight[LastBlockId[chain[hop + 1]]] = HeaderHeight[chain[hop + 1]] - 1
          BY <4>2, <3>4, CanonicalAssumption
        <5>2. current_header.height \in Int
          BY DEF IInv, TypeOK, HeaderInputs, Heights
        <5>. QED  BY <5>1, <5>2, <3>2, <3>4, <2>2, <2>3
      <4>. QED  BY <4>1, <4>2
    <3>. QED  BY <2>2, <2>3, <3>3, <3>5
  <2>. QED  BY <2>1, <2>2, <2>3, <2>4 DEF HeightsSoFar
<1>5. CASE CheckTrustedHash
  <2>1. /\ UNCHANGED <<current_header, trusted_header, prev_header_proofs, hop>>
        /\ sat' => sat
        /\ pc = "walk" /\ pc' = "done"
    BY <1>5 DEF CheckTrustedHash
  <2>2. chain' = chain
    BY <2>1 DEF chain
  <2>. QED  BY <2>1, <2>2 DEF HeightsSoFar
<1>6. CASE UNCHANGED vars
  <2>1. chain' = chain
    BY <1>6 DEF vars, chain
  <2>. QED  BY <1>6, <2>1 DEF vars, HeightsSoFar
<1>. QED  BY <1>1, <1>2, <1>3, <1>4, <1>5, <1>6 DEF Next

(* HInv gives HeightsAgree.                                                *)
LEMMA HInvHeightsAgree == HInv => HeightsAgree
<1> SUFFICES ASSUME HInv, pc = "done", sat, current_header.header \in Canonical
             PROVE  HeightsAgree
  BY DEF HeightsAgree
<1>1. /\ hop = WINDOW_RANGE
      /\ chain[WINDOW_RANGE + 1] = trusted_header.header
      /\ trusted_header.header \in Headers
      /\ LinkedSoFar
  BY DEF HInv, IInv, TypeOK, HeaderInputs
<1>2. \A k \in 1 .. WINDOW_RANGE + 1 : chain[k] # NoHash
  BY <1>1, ConstantsAssumption DEF LinkedSoFar
<1>. QED  BY <1>1, <1>2 DEF HInv, HeightsSoFar, HeightsAgree

(* An accepted witness whose current header is real carries the real     *)
(* heights of both headers, and its walk visits the real headers one      *)
(* height apart, so the wrapping U64 height difference of                 *)
(* prove_header_chain cannot let a wrong trusted header through (the      *)
(* invariant HeightsAgree checked by TLC on MC_HeaderChain).               *)
THEOREM HeightsAgreeInvariant == Spec => []HeightsAgree
<1>1. Init => HInv
  BY EmptySeq DEF Init, HInv, IInv, TypeOK, HeaderInputs, Hashes, chain,
                  LinkedSoFar, HeightsSoFar
<1>2. HInv /\ [Next]_vars => HInv'
  BY IInvStep, HeightsStep DEF HInv
<1>3. HInv => HeightsAgree
  BY HInvHeightsAgree
<1>. QED  BY <1>1, <1>2, <1>3, PTL DEF Spec
-----------------------------------------------------------------------------
(* Completeness so far: while the witness is the honest one, no constraint *)
(* has failed, and the walk has visited the real headers one height apart  *)
(* from the current one.                                                   *)
HonestSoFar ==
  HonestWitness =>
     /\ sat
     /\ \A k \in 1 .. hop + 1 :
          /\ chain[k] \in Canonical
          /\ HeaderHeight[chain[k]] = current_header.height - (k - 1)

(* Every step of the walk preserves HonestSoFar, given IInv.              *)
LEMMA HonestStep == IInv /\ HonestSoFar /\ [Next]_vars => HonestSoFar'
<1> SUFFICES ASSUME IInv, HonestSoFar, [Next]_vars, HonestWitness'
             PROVE  HonestSoFar'
  BY DEF HonestSoFar
<1>0. /\ current_header \in HeaderInputs /\ trusted_header \in HeaderInputs
      /\ current_header.height \in Int /\ trusted_header.height \in Nat
  BY DEF IInv, TypeOK, HeaderInputs, Heights
<1>1. CASE \/ CheckHeightDiff \/ VerifyCurrentHeight \/ VerifyTrustedHeight
           \/ CheckTrustedHash \/ UNCHANGED vars
  <2>1. UNCHANGED <<current_header, trusted_header, prev_header_proofs,
                    data_hash_proofs, hop, curr_header_hash>>
    BY <1>1 DEF CheckHeightDiff, VerifyCurrentHeight, VerifyTrustedHeight,
                CheckTrustedHash, vars
  <2>2. chain' = chain
    BY <2>1 DEF chain
  <2>3. HonestWitness
    BY <2>1, <2>2 DEF HonestWitness
  <2>4. /\ sat
        /\ \A k \in 1 .. hop + 1 :
             /\ chain[k] \in Canonical
             /\ HeaderHeight[chain[k]] = current_header.height - (k - 1)
    BY <2>3 DEF HonestSoFar
  <2>5. sat'
    <3>1. CASE CheckHeightDiff
      <4>1. U64(current_header.height - trusted_header.height) = U64(WINDOW_RANGE)
        BY <2>3 DEF HonestWitness
      <4>. QED  BY <3>1, <2>4, <4>1 DEF CheckHeightDiff
    <3>2. CASE VerifyCurrentHeight
      BY <3>2, <2>3, <2>4 DEF VerifyCurrentHeight, VerifyBlockHeight, HonestWitness
    <3>3. CASE VerifyTrustedHeight
      BY <3>3, <2>3, <2>4 DEF VerifyTrustedHeight, VerifyBlockHeight, HonestWitness
    <3>4. CASE CheckTrustedHash
      <4>1. hop = WINDOW_RANGE /\ curr_header_hash = chain[WINDOW_RANGE + 1]
        BY <3>4 DEF CheckTrustedHash, IInv
      <4>2. /\ chain[WINDOW_RANGE + 1] \in Canonical
            /\ HeaderHeight[chain[WINDOW_RANGE + 1]] = HeaderHeight[trusted_header.header]
            /\ trusted_header.header \in Canonical
        BY <4>1, <2>3, <2>4, <1>0 DEF HonestWitness
      <4>3. curr_header_hash = trusted_header.header
        BY <4>1, <4>2, CanonicalAssumption
      <4>. QED  BY <3>4, <2>4, <4>3 DEF CheckTrustedHash
    <3>5. CASE UNCHANGED vars
      BY <3>5, <2>4 DEF vars
    <3>. QED  BY <1>1, <3>1, <3>2, <3>3, <3>4, <3>5
  <2>. QED  BY <2>1, <2>2, <2>4, <2>5 DEF HonestSoFar
<1>2. CASE ChainHop
  <2>1. PICK pp \in PrevHeaderProofs, dp \in DataHashProofs :
           /\ sat' = (/\ sat
                      /\ GetRootFromPrevHeaderProof(pp) = curr_header_hash
                      /\ GetRootFromDataHashProof(dp) = ExtractHashFromProtobuf(pp.leaf))
           /\ prev_header_proofs' = Append(prev_header_proofs, pp)
           /\ data_hash_proofs' = Append(data_hash_proofs, dp)
    BY <1>2 DEF ChainHop
  <2>2. /\ pc = "walk"
        /\ hop \in 0 .. WINDOW_RANGE - 1 /\ hop' = hop + 1
        /\ current_header' = current_header /\ trusted_header' = trusted_header
        /\ curr_header_hash = chain[hop + 1]
    BY <1>2 DEF ChainHop, IInv, TypeOK
  <2>3. /\ prev_header_proofs' \in Seq(PrevHeaderProofs)
        /\ Len(prev_header_proofs') = hop'
        /\ \A j \in 1 .. hop : prev_header_proofs'[j] = prev_header_proofs[j]
        /\ prev_header_proofs'[hop + 1] = pp
        /\ \A j \in 1 .. hop : data_hash_proofs'[j] = data_hash_proofs[j]
        /\ data_hash_proofs'[hop + 1] = dp
        /\ \A j \in 1 .. hop + 1 : chain'[j] = chain[j]
        /\ chain'[hop + 2] = ExtractHashFromProtobuf(pp.leaf)
    <3>1. \A j \in 1 .. hop : Append(prev_header_proofs, pp)[j] = prev_header_proofs[j]
      BY AppendProperties DEF IInv, TypeOK
    <3>. QED  BY <2>1, <2>2, <3>1, HopChain DEF IInv
  <2>4. HonestWitness
    <3>1. /\ current_header.header \in Canonical
          /\ trusted_header.header \in Canonical
          /\ current_header.height = HeaderHeight[current_header.header]
          /\ trusted_header.height = HeaderHeight[trusted_header.header]
          /\ current_header.height - trusted_header.height = WINDOW_RANGE
      BY <2>2 DEF HonestWitness
    <3>2. ASSUME NEW k \in 1 .. hop
          PROVE  /\ prev_header_proofs[k] = [aunts |-> chain[k], leaf |-> BlockIdLeaf(chain[k])]
                 /\ data_hash_proofs[k] = [aunts |-> chain[k + 1], leaf |-> DataHashLeaf(chain[k + 1])]
      <4>1. k \in 1 .. hop' /\ k + 1 \in 1 .. hop + 1
        BY <2>2
      <4>2. /\ prev_header_proofs'[k] = [aunts |-> chain'[k], leaf |-> BlockIdLeaf(chain'[k])]
            /\ data_hash_proofs'[k] = [aunts |-> chain'[k + 1], leaf |-> DataHashLeaf(chain'[k + 1])]
        BY <4>1 DEF HonestWitness
      <4>3. /\ prev_header_proofs'[k] = prev_header_proofs[k]
            /\ data_hash_proofs'[k] = data_hash_proofs[k]
        BY <2>3
      <4>4. chain'[k] = chain[k]
        BY <2>2, <2>3
      <4>5. chain'[k + 1] = chain[k + 1]
        BY <2>3, <4>1
      <4>. QED  BY <4>2, <4>3, <4>4, <4>5
    <3>. QED  BY <3>1, <3>2 DEF HonestWitness
  <2>5. /\ sat
        /\ \A j \in 1 .. hop + 1 :
             /\ chain[j] \in Canonical
             /\ HeaderHeight[chain[j]] = current_header.height - (j - 1)
    BY <2>4 DEF HonestSoFar
  <2>6. /\ pp = [aunts |-> chain[hop + 1], leaf |-> BlockIdLeaf(chain[hop + 1])]
        /\ dp = [aunts |-> chain'[hop + 2], leaf |-> DataHashLeaf(chain'[hop + 2])]
    <3>1. hop + 1 \in 1 .. hop'
      BY <2>2
    <3>2. /\ prev_header_proofs'[hop + 1] = [aunts |-> chain'[hop + 1], leaf |-> BlockIdLeaf(chain'[hop + 1])]
          /\ data_hash_proofs'[hop + 1] = [aunts |-> chain'[hop + 2], leaf |-> DataHashLeaf(chain'[hop + 2])]
      BY <2>2, <3>1 DEF HonestWitness
    <3>3. chain'[hop + 1] = chain[hop + 1]
      BY <2>2, <2>3
    <3>. QED  BY <2>3, <3>2, <3>3
  <2>7. /\ chain[hop + 1] \in Canonical
        /\ HeaderHeight[chain[hop + 1]] = current_header.height - hop
    BY <2>2, <2>5
  <2>8. /\ chain'[hop + 2] = LastBlockId[chain[hop + 1]]
        /\ chain'[hop + 2] \in Canonical
        /\ HeaderHeight[chain'[hop + 2]] = current_header.height - (hop + 1)
    <3>1. current_header.height - trusted_header.height = WINDOW_RANGE
      BY <2>4 DEF HonestWitness
    <3>2. HeaderHeight[chain[hop + 1]] # 0
      BY <1>0, <2>2, <2>7, <3>1
    <3>3. /\ LastBlockId[chain[hop + 1]] \in Canonical
          /\ HeaderHeight[LastBlockId[chain[hop + 1]]] = HeaderHeight[chain[hop + 1]] - 1
      BY <2>7, <3>2, CanonicalAssumption
    <3>4. chain'[hop + 2] = LastBlockId[chain[hop + 1]]
      BY <2>3, <2>6 DEF BlockIdLeaf, ExtractHashFromProtobuf
    <3>. QED  BY <1>0, <2>2, <2>7, <3>3, <3>4
  <2>9. sat'
    <3>1. GetRootFromPrevHeaderProof(pp) = curr_header_hash
      BY <2>2, <2>6, <2>7 DEF GetRootFromPrevHeaderProof
    <3>2. GetRootFromDataHashProof(dp) = ExtractHashFromProtobuf(pp.leaf)
      <4>1. chain'[hop + 2] \in Headers
        BY <2>8, ConstantsAssumption
      <4>. QED  BY <2>3, <2>6, <4>1 DEF GetRootFromDataHashProof
    <3>. QED  BY <2>1, <2>5, <3>1, <3>2
  <2>10. ASSUME NEW j \in 1 .. hop' + 1
         PROVE  /\ chain'[j] \in Canonical
                /\ HeaderHeight[chain'[j]] = current_header'.height - (j - 1)
    <3>1. CASE j <= hop + 1
      <4>1. j \in 1 .. hop + 1
        BY <2>2, <3>1
      <4>2. chain'[j] = chain[j]
        BY <2>3, <4>1
      <4>3. /\ chain[j] \in Canonical
            /\ HeaderHeight[chain[j]] = current_header.height - (j - 1)
        BY <2>5, <4>1
      <4>. QED  BY <2>2, <4>2, <4>3
    <3>2. CASE ~(j <= hop + 1)
      BY <2>2, <2>8, <3>2
    <3>. QED  BY <3>1, <3>2
  <2>. QED  BY <2>9, <2>10 DEF HonestSoFar
<1>. QED  BY <1>1, <1>2 DEF Next

(* Completeness of prove_header_chain: the witness an honest prover builds *)
(* from the real chain, with the two real headers WINDOW_RANGE apart,      *)
(* satisfies every constraint (the invariant HonestAccepted checked by TLC *)
(* on MC_HeaderChain, and what test_prove_header_chain expects).          *)
THEOREM HonestAcceptedInvariant == Spec => []HonestAccepted
<1>1. Init => IInv /\ HonestSoFar
  <2> SUFFICES ASSUME Init PROVE IInv /\ HonestSoFar
    OBVIOUS
  <2>1. IInv
    BY EmptySeq DEF Init, IInv, TypeOK, HeaderInputs, Hashes, chain, LinkedSoFar
  <2>2. /\ hop = 0 /\ sat
        /\ chain[1] = current_header.header
        /\ current_header.height \in Int
    BY DEF Init, chain, HeaderInputs, Heights
  <2>. QED  BY <2>1, <2>2 DEF HonestSoFar, HonestWitness
<1>2. IInv /\ HonestSoFar /\ [Next]_vars => IInv' /\ HonestSoFar'
  BY IInvStep, HonestStep
<1>3. IInv /\ HonestSoFar => HonestAccepted
  BY DEF HonestSoFar, HonestAccepted
<1>. QED  BY <1>1, <1>2, <1>3, PTL DEF Spec
=============================================================================
