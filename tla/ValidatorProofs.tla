---------------------------- MODULE ValidatorProofs ----------------------------
(***************************************************************************)
(* Proofs about marshal_tendermint_validator: for every key length and    *)
(* every varint width, the finished record is the concatenation of the    *)
(* prefix, the key, the tag byte and the varint buffer (RecordLayout).    *)
(*                                                                         *)
(* The argument is the pointer discipline of the four loops: in each loop *)
(* ptr is the start of the field plus eight times the loop index, and     *)
(* every bit below ptr already holds its final value.  The varint is     *)
(* only copied once marshal_int64_varint has returned, after which its    *)
(* buffer no longer changes.                                               *)
(***************************************************************************)
EXTENDS Validator, TLAPS

RecordIndices == 0 .. (VALIDATOR_BITS_LEN_MAX - 1)

(* The pointer at the start of each loop of the code.                      *)
PubkeyStart == 8 * Len(PrefixPubkeyBytes)
TagStart == PubkeyStart + PUBKEY_BYTES_LEN * 8
VarintStart == TagStart + 8

(* The inductive invariant: where ptr stands in each loop, and that every  *)
(* bit below it is the record's.                                           *)
LInv ==
  /\ mpc \in {"prefix", "pubkey", "tag", "varint", "done"}
  /\ val_buffer = [k \in RecordIndices |-> val_buffer[k]]
  /\ mpc = "prefix" => i \in 0 .. (Len(PrefixPubkeyBytes) - 1) /\ ptr = i * 8
  /\ mpc = "pubkey" => i \in 0 .. (PUBKEY_BYTES_LEN - 1) /\ ptr = PubkeyStart + i * 8
  /\ mpc = "tag" => ptr = TagStart /\ i = 0
  /\ mpc = "varint" => /\ i \in 0 .. (VARINT_BYTES - 1)
                       /\ ptr = VarintStart + i * 8
                       /\ vpc # "done" => i = 0
  /\ mpc = "done" => ptr = VALIDATOR_BITS_LEN_MAX /\ vpc = "done"
  /\ \A k \in 0 .. (ptr - 1) : val_buffer[k] = RecordBits[k]

USE ValidatorAssumption DEF V!VarintAssumption

(* The layout constants: the four fields fill the record exactly.          *)
LEMMA Layout ==
  /\ Len(PrefixPubkeyBytes) = 4
  /\ PubkeyStart = 32
  /\ TagStart = 32 + PUBKEY_BYTES_LEN * 8
  /\ VarintStart = 40 + PUBKEY_BYTES_LEN * 8
  /\ VALIDATOR_BITS_LEN_MAX = VarintStart + VARINT_BYTES * 8
  /\ VARINT_BYTES \in Nat \ {0}
  BY DEF PrefixPubkeyBytes, PubkeyStart, TagStart, VarintStart, VALIDATOR_BITS_LEN_MAX

(* One pass of the inner loop over j writes bits into the eight bits at   *)
(* ptr and nothing else; if they are the record's bits there, every bit  *)
(* below the advanced pointer is the record's.                             *)
LEMMA WriteByteStep ==
  ASSUME LInv, NEW bits, WriteByteBits(bits),
         ptr \in Nat, ptr + 8 <= VALIDATOR_BITS_LEN_MAX,
         \A j \in 0 .. 7 : bits[j] = RecordBits[ptr + j]
  PROVE  /\ val_buffer' = [k \in RecordIndices |-> val_buffer'[k]]
         /\ ptr' = ptr + 8
         /\ \A k \in 0 .. (ptr' - 1) : val_buffer'[k] = RecordBits[k]
         /\ \A k \in 0 .. (ptr - 1) : val_buffer'[k] = val_buffer[k]
<1>1. DOMAIN val_buffer = RecordIndices
  BY DEF LInv
<1>2. val_buffer' = [k \in RecordIndices |->
                       IF k \in ptr .. ptr + 7 THEN bits[k - ptr] ELSE val_buffer[k]]
  BY <1>1 DEF WriteByteBits
<1>3. \A k \in 0 .. (ptr + 7) : val_buffer'[k] = RecordBits[k]
  <2> SUFFICES ASSUME NEW k \in 0 .. (ptr + 7) PROVE val_buffer'[k] = RecordBits[k]
    OBVIOUS
  <2>1. k \in RecordIndices
    BY DEF RecordIndices, VALIDATOR_BITS_LEN_MAX
  <2>2. CASE k < ptr
    <3>0. k \notin ptr .. ptr + 7
      BY <2>2
    <3>1. val_buffer'[k] = val_buffer[k]
      BY <1>2, <2>1, <3>0, Zenon
    <3>2. \A m \in 0 .. (ptr - 1) : val_buffer[m] = RecordBits[m]
      BY DEF LInv
    <3>. QED  BY <3>1, <3>2, <2>2
  <2>3. CASE k >= ptr
    <3>0. k \in ptr .. ptr + 7 /\ k - ptr \in 0 .. 7 /\ ptr + (k - ptr) = k
      BY <2>3
    <3>1. val_buffer'[k] = bits[k - ptr]
      BY <1>2, <2>1, <3>0, Zenon
    <3>. QED  BY <3>0, <3>1, Zenon
  <2>. QED  BY <2>2, <2>3
<1>4. ptr' = ptr + 8
  BY DEF WriteByteBits
<1>5. \A k \in 0 .. (ptr - 1) : val_buffer'[k] = val_buffer[k]
  <2>1. \A m \in 0 .. (ptr - 1) : val_buffer[m] = RecordBits[m]
    BY DEF LInv
  <2>2. \A m \in 0 .. (ptr - 1) : m \in 0 .. (ptr + 7)
    OBVIOUS
  <2>. QED  BY <1>3, <2>1, <2>2
<1>6. val_buffer' = [k \in RecordIndices |-> val_buffer'[k]]
  BY <1>2
<1>. QED  BY <1>3, <1>4, <1>5, <1>6

(* The record's bit j of each byte of each field.                          *)
LEMMA RecordBitsAt ==
  ASSUME NEW j \in 0 .. 7
  PROVE  /\ \A b \in 0 .. 3 :
               RecordBits[b * 8 + j] = V!Bit(PrefixPubkeyBytes[b + 1], j)
         /\ \A b \in 0 .. (PUBKEY_BYTES_LEN - 1) :
               RecordBits[PubkeyStart + b * 8 + j] = pubkey[b * 8 + j]
         /\ RecordBits[TagStart + j] = V!Bit(PREFIX_VOTING_POWER_BYTE, j)
         /\ \A b \in 0 .. (VARINT_BYTES - 1) :
               RecordBits[VarintStart + b * 8 + j] = buffer[b * 8 + j]
<1>1. \A b \in 0 .. 3 : RecordBits[b * 8 + j] = V!Bit(PrefixPubkeyBytes[b + 1], j)
  <2> SUFFICES ASSUME NEW b \in 0 .. 3
               PROVE  RecordBits[b * 8 + j] = V!Bit(PrefixPubkeyBytes[b + 1], j)
    OBVIOUS
  <2>1. /\ b * 8 + j \in 0 .. (VALIDATOR_BITS_LEN_MAX - 1) /\ b * 8 + j < 32
        /\ (b * 8 + j) \div 8 = b /\ (b * 8 + j) % 8 = j
    BY DEF VALIDATOR_BITS_LEN_MAX
  <2>2. RecordBits[b * 8 + j]
          = V!Bit(PrefixPubkeyBytes[(b * 8 + j) \div 8 + 1], (b * 8 + j) % 8)
    BY <2>1 DEF RecordBits
  <2>. QED  BY <2>1, <2>2
<1>2. \A b \in 0 .. (PUBKEY_BYTES_LEN - 1) :
         RecordBits[PubkeyStart + b * 8 + j] = pubkey[b * 8 + j]
  <2> SUFFICES ASSUME NEW b \in 0 .. (PUBKEY_BYTES_LEN - 1)
               PROVE  RecordBits[PubkeyStart + b * 8 + j] = pubkey[b * 8 + j]
    OBVIOUS
  <2>1. \A k \in 32 .. (32 + PUBKEY_BYTES_LEN * 8 - 1) : RecordBits[k] = pubkey[k - 32]
    BY DEF RecordBits, VALIDATOR_BITS_LEN_MAX
  <2>2. /\ PubkeyStart + b * 8 + j \in 32 .. (32 + PUBKEY_BYTES_LEN * 8 - 1)
        /\ PubkeyStart + b * 8 + j - 32 = b * 8 + j
    BY Layout
  <2>3. RecordBits[PubkeyStart + b * 8 + j] = pubkey[PubkeyStart + b * 8 + j - 32]
    BY <2>1, <2>2, Layout
  <2>. QED  BY <2>2, <2>3
<1>3. RecordBits[TagStart + j] = V!Bit(PREFIX_VOTING_POWER_BYTE, j)
  <2>1. /\ TagStart + j \in 0 .. (VALIDATOR_BITS_LEN_MAX - 1)
        /\ ~(TagStart + j < 32)
        /\ ~(TagStart + j < 32 + PUBKEY_BYTES_LEN * 8)
        /\ 32 + PUBKEY_BYTES_LEN * 8 <= TagStart + j
        /\ TagStart + j < 40 + PUBKEY_BYTES_LEN * 8
        /\ (TagStart + j) % 8 = j
    BY Layout DEF VALIDATOR_BITS_LEN_MAX
  <2>. QED  BY <2>1 DEF RecordBits
<1>4. \A b \in 0 .. (VARINT_BYTES - 1) :
         RecordBits[VarintStart + b * 8 + j] = buffer[b * 8 + j]
  <2> SUFFICES ASSUME NEW b \in 0 .. (VARINT_BYTES - 1)
               PROVE  RecordBits[VarintStart + b * 8 + j] = buffer[b * 8 + j]
    OBVIOUS
  <2>1. \A k \in (40 + PUBKEY_BYTES_LEN * 8) .. (VALIDATOR_BITS_LEN_MAX - 1) :
           RecordBits[k] = buffer[k - (40 + PUBKEY_BYTES_LEN * 8)]
    BY DEF RecordBits, VALIDATOR_BITS_LEN_MAX
  <2>2. /\ VarintStart + b * 8 + j
             \in (40 + PUBKEY_BYTES_LEN * 8) .. (VALIDATOR_BITS_LEN_MAX - 1)
        /\ VarintStart + b * 8 + j - (40 + PUBKEY_BYTES_LEN * 8) = b * 8 + j
    BY Layout
  <2>3. RecordBits[VarintStart + b * 8 + j]
          = buffer[VarintStart + b * 8 + j - (40 + PUBKEY_BYTES_LEN * 8)]
    BY <2>1, <2>2, Layout
  <2>. QED  BY <2>2, <2>3
<1>. QED  BY <1>1, <1>2, <1>3, <1>4

(* Steps that leave the key and the varint buffer alone leave the record  *)
(* to be written alone.                                                    *)
LEMMA RecordBitsUnchanged ==
  UNCHANGED <<pubkey, buffer>> => RecordBits' = RecordBits
  BY DEF RecordBits

(* marshal_tendermint_validator starts in LInv.                            *)
LEMMA LInvInit == Init => LInv
  BY Layout DEF Init, LInv, RecordIndices

(* The body of the loop over the prefix bytes preserves LInv.              *)
LEMMA PrefixStep == LInv /\ WritePrefixByte => LInv'
<1> SUFFICES ASSUME LInv, WritePrefixByte PROVE LInv'
  OBVIOUS
<1>1. mpc = "prefix" /\ i \in 0 .. 3 /\ ptr = i * 8
  BY Layout DEF WritePrefixByte, LInv
<1>2. RecordBits' = RecordBits
  BY RecordBitsUnchanged DEF WritePrefixByte, varint_vars
<1>. DEFINE bits == [j \in 0 .. 7 |-> V!Bit(PrefixPubkeyBytes[i + 1], j)]
<1>3. WriteByteBits(bits)
  BY DEF WritePrefixByte
<1>4. \A j \in 0 .. 7 : bits[j] = RecordBits[ptr + j]
  BY <1>1, RecordBitsAt
<1>5. /\ val_buffer' = [k \in RecordIndices |-> val_buffer'[k]]
      /\ ptr' = ptr + 8
      /\ \A k \in 0 .. (ptr' - 1) : val_buffer'[k] = RecordBits'[k]
  <2>1. ptr \in Nat /\ ptr + 8 <= VALIDATOR_BITS_LEN_MAX
    BY <1>1, Layout DEF VALIDATOR_BITS_LEN_MAX
  <2>2. /\ val_buffer' = [k \in RecordIndices |-> val_buffer'[k]]
        /\ ptr' = ptr + 8
        /\ \A k \in 0 .. (ptr' - 1) : val_buffer'[k] = RecordBits[k]
    BY <1>3, <1>4, <2>1, WriteByteStep
  <2>. QED  BY <1>2, <2>2
<1>6. \/ mpc' = "pubkey" /\ i' = 0 /\ i = 3
      \/ mpc' = "prefix" /\ i' = i + 1 /\ i # 3
  BY <1>1, Layout DEF WritePrefixByte
<1>7. /\ mpc' = "prefix" => i' \in 0 .. 3 /\ ptr' = i' * 8
      /\ mpc' = "pubkey" => i' \in 0 .. (PUBKEY_BYTES_LEN - 1) /\ ptr' = 32 + i' * 8
  BY <1>1, <1>5, <1>6
<1>8. Len(PrefixPubkeyBytes) - 1 = 3 /\ PubkeyStart = 32
  BY Layout
<1>. QED  BY <1>5, <1>6, <1>7, <1>8 DEF LInv

(* The body of the loop over the key's bytes preserves LInv.               *)
LEMMA PubkeyStep == LInv /\ WritePubkeyByte => LInv'
<1> SUFFICES ASSUME LInv, WritePubkeyByte PROVE LInv'
  OBVIOUS
<1>1. mpc = "pubkey" /\ i \in 0 .. (PUBKEY_BYTES_LEN - 1) /\ ptr = PubkeyStart + i * 8
  BY DEF WritePubkeyByte, LInv
<1>2. RecordBits' = RecordBits
  BY RecordBitsUnchanged DEF WritePubkeyByte, varint_vars
<1>. DEFINE bits == [j \in 0 .. 7 |-> pubkey[i * 8 + j]]
<1>3. WriteByteBits(bits)
  BY DEF WritePubkeyByte
<1>4. \A j \in 0 .. 7 : bits[j] = RecordBits[ptr + j]
  BY <1>1, RecordBitsAt, Layout
<1>5. /\ val_buffer' = [k \in RecordIndices |-> val_buffer'[k]]
      /\ ptr' = ptr + 8
      /\ \A k \in 0 .. (ptr' - 1) : val_buffer'[k] = RecordBits'[k]
  <2>1. ptr \in Nat /\ ptr + 8 <= VALIDATOR_BITS_LEN_MAX
    BY <1>1, Layout DEF VALIDATOR_BITS_LEN_MAX
  <2>2. /\ val_buffer' = [k \in RecordIndices |-> val_buffer'[k]]
        /\ ptr' = ptr + 8
        /\ \A k \in 0 .. (ptr' - 1) : val_buffer'[k] = RecordBits[k]
    BY <1>3, <1>4, <2>1, WriteByteStep
  <2>. QED  BY <1>2, <2>2
<1>6. \/ mpc' = "tag" /\ i' = 0 /\ i = PUBKEY_BYTES_LEN - 1
      \/ mpc' = "pubkey" /\ i' = i + 1 /\ i # PUBKEY_BYTES_LEN - 1
  BY <1>1 DEF WritePubkeyByte
<1>7. /\ mpc' = "pubkey" => i' \in 0 .. (PUBKEY_BYTES_LEN - 1) /\ ptr' = PubkeyStart + i' * 8
      /\ mpc' = "tag" => ptr' = TagStart /\ i' = 0
  <2>1. ptr' = ptr + 8
    BY <1>5
  <2>. QED  BY <1>1, <2>1, <1>6, Layout
<1>. QED  BY <1>5, <1>6, <1>7 DEF LInv

(* Writing the tag byte preserves LInv.                                    *)
LEMMA TagStep == LInv /\ WriteVotingPowerTag => LInv'
<1> SUFFICES ASSUME LInv, WriteVotingPowerTag PROVE LInv'
  OBVIOUS
<1>1. mpc = "tag" /\ ptr = TagStart /\ i = 0
  BY DEF WriteVotingPowerTag, LInv
<1>2. RecordBits' = RecordBits
  BY RecordBitsUnchanged DEF WriteVotingPowerTag, varint_vars
<1>. DEFINE bits == [j \in 0 .. 7 |-> V!Bit(PREFIX_VOTING_POWER_BYTE, j)]
<1>3. WriteByteBits(bits)
  BY DEF WriteVotingPowerTag
<1>4. \A j \in 0 .. 7 : bits[j] = RecordBits[ptr + j]
  BY <1>1, RecordBitsAt
<1>5. /\ val_buffer' = [k \in RecordIndices |-> val_buffer'[k]]
      /\ ptr' = ptr + 8
      /\ \A k \in 0 .. (ptr' - 1) : val_buffer'[k] = RecordBits'[k]
  <2>1. ptr \in Nat /\ ptr + 8 <= VALIDATOR_BITS_LEN_MAX
    BY <1>1, Layout DEF VALIDATOR_BITS_LEN_MAX
  <2>2. /\ val_buffer' = [k \in RecordIndices |-> val_buffer'[k]]
        /\ ptr' = ptr + 8
        /\ \A k \in 0 .. (ptr' - 1) : val_buffer'[k] = RecordBits[k]
    BY <1>3, <1>4, <2>1, WriteByteStep
  <2>. QED  BY <1>2, <2>2
<1>6. mpc' = "varint" /\ i' = 0
  BY <1>1 DEF WriteVotingPowerTag
<1>7. ptr' = VarintStart + i' * 8
  <2>1. ptr' = ptr + 8
    BY <1>5
  <2>. QED  BY <1>1, <2>1, <1>6, Layout
<1>. QED  BY <1>5, <1>6, <1>7, Layout DEF LInv

(* A step of marshal_int64_varint runs before any varint byte is copied,  *)
(* and changes no bit of the record below the varint.                      *)
LEMMA MarshalStep == LInv /\ MarshalVarint => LInv'
<1> SUFFICES ASSUME LInv, MarshalVarint PROVE LInv'
  OBVIOUS
<1>1. vpc # "done"
  BY DEF MarshalVarint, V!VarintNext, V!ComputeSeptets, V!ScanSeptet, V!WriteByte
<1>2. /\ mpc = "varint" /\ i = 0 /\ ptr = VarintStart
      /\ UNCHANGED <<mpc, i, ptr, val_buffer, pubkey>>
  <2>1. mpc = "varint" /\ UNCHANGED <<mpc, i, ptr, val_buffer, pubkey>>
    BY DEF MarshalVarint, own_vars
  <2>2. i = 0 /\ ptr = VarintStart + i * 8
    BY <1>1, <2>1 DEF LInv
  <2>. QED  BY <2>1, <2>2, Layout
<1>3. \A k \in 0 .. (VarintStart - 1) : RecordBits'[k] = RecordBits[k]
  <2> SUFFICES ASSUME NEW k \in 0 .. (VarintStart - 1)
               PROVE  RecordBits'[k] = RecordBits[k]
    OBVIOUS
  <2>1. k \in 0 .. (VALIDATOR_BITS_LEN_MAX - 1) /\ k < 40 + PUBKEY_BYTES_LEN * 8
    BY Layout DEF VALIDATOR_BITS_LEN_MAX
  <2>2. RecordBits[k] =
          IF k < 32 THEN V!Bit(PrefixPubkeyBytes[k \div 8 + 1], k % 8)
          ELSE IF k < 32 + PUBKEY_BYTES_LEN * 8 THEN pubkey[k - 32]
          ELSE V!Bit(PREFIX_VOTING_POWER_BYTE, k % 8)
    BY <2>1 DEF RecordBits
  <2>3. RecordBits'[k] =
          IF k < 32 THEN V!Bit(PrefixPubkeyBytes[k \div 8 + 1], k % 8)
          ELSE IF k < 32 + PUBKEY_BYTES_LEN * 8 THEN pubkey'[k - 32]
          ELSE V!Bit(PREFIX_VOTING_POWER_BYTE, k % 8)
    BY <2>1 DEF RecordBits
  <2>. QED  BY <1>2, <2>2, <2>3
<1>4. \A k \in 0 .. (ptr' - 1) : val_buffer'[k] = RecordBits'[k]
  BY <1>2, <1>3 DEF LInv
<1>5. 0 \in 0 .. (VARINT_BYTES - 1)
  BY Layout
<1>. QED  BY <1>2, <1>4, <1>5 DEF LInv

(* The body of the loop copying the varint's bytes preserves LInv.         *)
LEMMA CopyStep == LInv /\ CopyVarintByte => LInv'
<1> SUFFICES ASSUME LInv, CopyVarintByte PROVE LInv'
  OBVIOUS
<1>1. /\ mpc = "varint" /\ vpc = "done" /\ vpc' = "done"
      /\ i \in 0 .. (VARINT_BYTES - 1) /\ ptr = VarintStart + i * 8
  BY DEF CopyVarintByte, varint_vars, LInv
<1>2. RecordBits' = RecordBits
  BY RecordBitsUnchanged DEF CopyVarintByte, varint_vars
<1>. DEFINE bits == [j \in 0 .. 7 |-> buffer[i * 8 + j]]
<1>3. WriteByteBits(bits)
  BY DEF CopyVarintByte
<1>4. \A j \in 0 .. 7 : bits[j] = RecordBits[ptr + j]
  BY <1>1, RecordBitsAt, Layout
<1>5. /\ val_buffer' = [k \in RecordIndices |-> val_buffer'[k]]
      /\ ptr' = ptr + 8
      /\ \A k \in 0 .. (ptr' - 1) : val_buffer'[k] = RecordBits'[k]
  <2>1. ptr \in Nat /\ ptr + 8 <= VALIDATOR_BITS_LEN_MAX
    BY <1>1, Layout
  <2>2. /\ val_buffer' = [k \in RecordIndices |-> val_buffer'[k]]
        /\ ptr' = ptr + 8
        /\ \A k \in 0 .. (ptr' - 1) : val_buffer'[k] = RecordBits[k]
    BY <1>3, <1>4, <2>1, WriteByteStep
  <2>. QED  BY <1>2, <2>2
<1>6. \/ mpc' = "done" /\ i = VARINT_BYTES - 1
      \/ mpc' = "varint" /\ i' = i + 1 /\ i # VARINT_BYTES - 1
  BY <1>1 DEF CopyVarintByte
<1>7. /\ mpc' = "varint" => i' \in 0 .. (VARINT_BYTES - 1) /\ ptr' = VarintStart + i' * 8
      /\ mpc' = "done" => ptr' = VALIDATOR_BITS_LEN_MAX
  <2>1. ptr' = ptr + 8
    BY <1>5
  <2>. QED  BY <1>1, <2>1, <1>6, Layout
<1>. QED  BY <1>1, <1>5, <1>6, <1>7 DEF LInv

(* Every step of marshal_tendermint_validator preserves LInv.              *)
LEMMA LInvStep == LInv /\ [Next]_vars => LInv'
<1> SUFFICES ASSUME LInv, [Next]_vars PROVE LInv'
  OBVIOUS
<1>1. CASE UNCHANGED vars
  <2>1. RecordBits' = RecordBits
    BY <1>1, RecordBitsUnchanged DEF vars, own_vars, varint_vars
  <2>. QED  BY <1>1, <2>1 DEF vars, own_vars, varint_vars, LInv
<1>. QED  BY <1>1, PrefixStep, PubkeyStep, TagStep, MarshalStep, CopyStep DEF Next

-----------------------------------------------------------------------------
(* The finished record of marshal_tendermint_validator is the              *)
(* concatenation of the prefix, the key, the tag byte and the varint of    *)
(* marshal_int64_varint (the invariant RecordLayout checked by TLC on      *)
(* MC_Validator), for every key length and varint width.                   *)
THEOREM RecordLayoutInvariant == Spec => []RecordLayout
<1>1. Init => LInv
  BY LInvInit
<1>2. LInv /\ [Next]_vars => LInv'
  BY LInvStep
<1>3. LInv => RecordLayout
  <2> SUFFICES ASSUME LInv, mpc = "done" PROVE val_buffer = RecordBits
    BY DEF RecordLayout
  <2>1. ptr = VALIDATOR_BITS_LEN_MAX
    BY DEF LInv
  <2>2. \A k \in RecordIndices : val_buffer[k] = RecordBits[k]
    BY <2>1 DEF LInv, RecordIndices
  <2>3. RecordBits = [k \in RecordIndices |-> RecordBits[k]]
    BY DEF RecordBits, RecordIndices
  <2>. QED  BY <2>2, <2>3 DEF LInv
<1>. QED  BY <1>1, <1>2, <1>3, PTL DEF Spec
=============================================================================
