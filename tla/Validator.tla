------------------------------ MODULE Validator ------------------------------
(***************************************************************************)
(* marshal_tendermint_validator (src/src/validator.rs): the bit buffer of  *)
(* a validator record, written through a single pointer ptr: the prefix   *)
(* bytes 10 34 10 32, the public key, the tag byte 16, and the varint of   *)
(* the voting power, which marshal_int64_varint builds (the Varint         *)
(* module, composed here by INSTANCE).  Each loop over bytes is one step   *)
(* per byte; the inner loop over its 8 bits is part of the step.           *)
(***************************************************************************)
EXTENDS Integers, Sequences

CONSTANTS
  LIMB_BITS, SEPTET_BITS, VARINT_BYTES, FieldP,   \* as in Varint
  PUBKEY_BYTES_LEN,          \* PUBKEY_BYTES_LEN (32)
  VALIDATOR_BYTES_LEN_MAX,   \* VALIDATOR_BYTES_LEN_MAX (46)
  PubKeys,                   \* public keys: functions from bit index to bit
  VotingPowers               \* the voting powers enumerated: limb pairs

VARIABLES
  mpc,          \* the loop of marshal_tendermint_validator being run
  i,            \* the index of that loop
  ptr,          \* ptr
  val_buffer,   \* buffer of marshal_tendermint_validator
  pubkey,       \* the pubkey argument
  vpc, voting_power, septets, is_zero_septets, last_seen, idx, buffer
                \* marshal_int64_varint's state; buffer is its result

V == INSTANCE Varint

(* The record's layout constants of the code: 46 = 4 + 32 + 1 + 9, and a *)
(* varint byte is a record byte: septets of 7 bits.  The varint's own    *)
(* widths are those marshal_int64_varint assumes.                         *)
ASSUME ValidatorAssumption ==
  /\ V!VarintAssumption
  /\ SEPTET_BITS = 7
  /\ PUBKEY_BYTES_LEN \in Nat \ {0}
  /\ VALIDATOR_BYTES_LEN_MAX = 4 + PUBKEY_BYTES_LEN + 1 + VARINT_BYTES
  /\ PubKeys \subseteq [0 .. (PUBKEY_BYTES_LEN * 8 - 1) -> {0, 1}]

(* A record buffer one byte short of what the writes need.               *)
VALIDATOR_BITS_LEN_MAX_Short == (VALIDATOR_BYTES_LEN_MAX - 1) * 8

VALIDATOR_BITS_LEN_MAX == VALIDATOR_BYTES_LEN_MAX * 8

PrefixPubkeyBytes == <<10, 34, 10, 32>>   \* prefix_pubkey_bytes
PREFIX_VOTING_POWER_BYTE == 16             \* prefix_voting_power_byte

own_vars == <<mpc, i, ptr, val_buffer, pubkey>>
varint_vars == <<vpc, voting_power, septets, is_zero_septets, last_seen, idx, buffer>>
vars == <<own_vars, varint_vars>>

(* A defective byte write that indexes the record by the loop's own byte  *)
(* index i instead of the running pointer ptr.                             *)
WriteByteBitsAtLoopIndex(bits) ==
  /\ val_buffer' = [k \in DOMAIN val_buffer |->
                      IF k \in i * 8 .. i * 8 + 7 THEN bits[k - i * 8] ELSE val_buffer[k]]
  /\ ptr' = ptr + 8

(* The inner loop over j: buffer[ptr + j] := bits[j], then ptr += 8.       *)
WriteByteBits(bits) ==
  /\ val_buffer' = [k \in DOMAIN val_buffer |->
                      IF k \in ptr .. ptr + 7 THEN bits[k - ptr] ELSE val_buffer[k]]
  /\ ptr' = ptr + 8

Init ==
  /\ voting_power \in VotingPowers
  /\ V!VarintInit
  /\ pubkey \in PubKeys
  /\ ptr = 0
  /\ val_buffer = [k \in 0 .. (VALIDATOR_BITS_LEN_MAX - 1) |-> 0]
  /\ i = 0
  /\ mpc = "prefix"

(* Loop body i over the prefix bytes: (prefix_pubkey_bytes[i] >> j) & 1.  *)
WritePrefixByte ==
  /\ mpc = "prefix"
  /\ WriteByteBits([j \in 0 .. 7 |-> V!Bit(PrefixPubkeyBytes[i + 1], j)])
  /\ IF i + 1 = Len(PrefixPubkeyBytes)
       THEN mpc' = "pubkey" /\ i' = 0
       ELSE mpc' = "prefix" /\ i' = i + 1
  /\ UNCHANGED <<pubkey, varint_vars>>

(* Loop body i over the public key bytes: pubkey.0[i * 8 + j].             *)
WritePubkeyByte ==
  /\ mpc = "pubkey"
  /\ WriteByteBits([j \in 0 .. 7 |-> pubkey[i * 8 + j]])
  /\ IF i + 1 = PUBKEY_BYTES_LEN
       THEN mpc' = "tag" /\ i' = 0
       ELSE mpc' = "pubkey" /\ i' = i + 1
  /\ UNCHANGED <<pubkey, varint_vars>>

(* The tag byte 16 of the voting power field.                              *)
WriteVotingPowerTag ==
  /\ mpc = "tag"
  /\ WriteByteBits([j \in 0 .. 7 |-> V!Bit(PREFIX_VOTING_POWER_BYTE, j)])
  /\ mpc' = "varint"
  /\ UNCHANGED <<i, pubkey, varint_vars>>

(* self.marshal_int64_varint(voting_power), one step of it at a time.     *)
MarshalVarint ==
  /\ mpc = "varint"
  /\ V!VarintNext
  /\ UNCHANGED own_vars

(* A defective copy of the varint that writes the bits of a byte in       *)
(* reverse order.                                                          *)
CopyVarintByteReversed ==
  /\ mpc = "varint"
  /\ vpc = "done"
  /\ WriteByteBits([j \in 0 .. 7 |-> buffer[i * 8 + (7 - j)]])
  /\ IF i + 1 = VARINT_BYTES
       THEN mpc' = "done" /\ i' = i
       ELSE mpc' = "varint" /\ i' = i + 1
  /\ UNCHANGED <<pubkey, varint_vars>>

(* Loop body i over the varint bytes, once marshal_int64_varint returned: *)
(* voting_power_bits[i * 8 + j].                                           *)
CopyVarintByte ==
  /\ mpc = "varint"
  /\ vpc = "done"
  /\ WriteByteBits([j \in 0 .. 7 |-> buffer[i * 8 + j]])
  /\ IF i + 1 = VARINT_BYTES
       THEN mpc' = "done" /\ i' = i
       ELSE mpc' = "varint" /\ i' = i + 1
  /\ UNCHANGED <<pubkey, varint_vars>>

Next ==
  \/ WritePrefixByte
  \/ WritePubkeyByte
  \/ WriteVotingPowerTag
  \/ MarshalVarint
  \/ CopyVarintByte

Spec == Init /\ [][Next]_vars

-----------------------------------------------------------------------------
(* Every write lands inside the fixed buffer: ptr never passes its end     *)
(* (an index past it panics in the code).                                  *)
ValidatorTypeOK ==
  /\ V!VarintTypeOK
  /\ mpc \in {"prefix", "pubkey", "tag", "varint", "done"}
  /\ pubkey \in PubKeys
  /\ ptr \in 0 .. VALIDATOR_BITS_LEN_MAX
  /\ val_buffer \in [0 .. (VALIDATOR_BITS_LEN_MAX - 1) -> {0, 1}]

(* Byte b of the record, its bits least significant first.                *)
ByteAt(b) ==
  LET acc[j \in 0 .. 8] ==
        IF j = 0 THEN 0 ELSE acc[j - 1] + val_buffer[b * 8 + (j - 1)] * 2^(j - 1)
  IN acc[8]

(* A protobuf reader of the finished record finds field 1 (tag 10) of the  *)
(* length its length byte gives, holding field 1 (tag 10) with exactly the *)
(* public key; right after it field 2 (tag 16), whose varint reads back    *)
(* the voting power (without bit 63); the bytes after the varint are the   *)
(* zero padding of the fixed-length record.  It ties the literal length    *)
(* bytes 34 and 32 to the key length, the pointer arithmetic of the four   *)
(* loops, and the bit order of the copied varint.                          *)
ValidatorParses ==
  mpc = "done" =>
    LET outer_len == ByteAt(1)
        inner_len == ByteAt(3)
        vp_start == 2 + outer_len + 1
        vp_bits == [k \in V!BufferIndices |-> val_buffer[vp_start * 8 + k]]
    IN /\ ByteAt(0) = 10
       /\ ByteAt(2) = 10
       /\ inner_len = PUBKEY_BYTES_LEN
       /\ outer_len = 2 + inner_len
       /\ \A k \in 0 .. (inner_len * 8 - 1) : val_buffer[32 + k] = pubkey[k]
       /\ ByteAt(2 + outer_len) = PREFIX_VOTING_POWER_BYTE
       /\ vp_start + VARINT_BYTES = VALIDATOR_BYTES_LEN_MAX
       /\ V!Terminated(vp_bits)
       /\ V!DecodeVarint(vp_bits) = V!Representable(V!Value(voting_power))
       /\ \A b \in V!Indices : b > V!StopIndex(vp_bits) => V!ByteIsZero(vp_bits, b)

(* The record bit by bit, as the four loops lay it out: the prefix bytes  *)
(* least significant bit first, the key's bits in order, the tag byte,    *)
(* and the bits of marshal_int64_varint's buffer in order.                 *)
RecordBits ==
  [k \in 0 .. (VALIDATOR_BITS_LEN_MAX - 1) |->
     IF k < 32 THEN V!Bit(PrefixPubkeyBytes[k \div 8 + 1], k % 8)
     ELSE IF k < 32 + PUBKEY_BYTES_LEN * 8 THEN pubkey[k - 32]
     ELSE IF k < 40 + PUBKEY_BYTES_LEN * 8 THEN V!Bit(PREFIX_VOTING_POWER_BYTE, k % 8)
     ELSE buffer[k - (40 + PUBKEY_BYTES_LEN * 8)]]

(* The finished record is exactly the concatenation of its four fields:   *)
(* the single pointer ptr, advanced by the four loops of                   *)
(* marshal_tendermint_validator, puts every bit at its place, and the     *)
(* varint is copied in its bit order after marshal_int64_varint returned.  *)
RecordLayout == mpc = "done" => val_buffer = RecordBits
=============================================================================
