------------------------------- MODULE Varint -------------------------------
(***************************************************************************)
(* marshal_int64_varint (src/src/validator.rs): the protobuf varint of a   *)
(* voting power given as two u32 limbs, built bit by bit into a fixed      *)
(* buffer of VARINT_BYTES bytes.                                           *)
(*                                                                         *)
(* The code's widths are parameters: LIMB_BITS = 32, SEPTET_BITS = 7 and   *)
(* VARINT_BYTES = 9, with VARINT_BYTES * SEPTET_BITS = 2 * LIMB_BITS - 1,  *)
(* so that the top bit of the input is never read.  Field elements are     *)
(* integers modulo FieldP (the Goldilocks prime in the code): the          *)
(* "less than" of the continuation bit is computed in the field, by        *)
(* comparing a difference with every candidate in [0, VARINT_BYTES).       *)
(***************************************************************************)
EXTENDS Integers

CONSTANTS
  LIMB_BITS,      \* bits of a U32Target limb (32)
  SEPTET_BITS,    \* payload bits of a varint byte (7)
  VARINT_BYTES,   \* VOTING_POWER_BYTES_LEN_MAX (9)
  FieldP          \* the order of the field F

ASSUME VarintAssumption ==
  /\ LIMB_BITS \in Nat \ {0}
  /\ SEPTET_BITS \in Nat \ {0}
  /\ VARINT_BYTES \in Nat \ {0}
  /\ VARINT_BYTES * SEPTET_BITS = 2 * LIMB_BITS - 1
  /\ FieldP \in Nat /\ FieldP >= 2 * VARINT_BYTES

BYTE_BITS == SEPTET_BITS + 1
Bits == {0, 1}
Limbs == 0 .. (2^LIMB_BITS - 1)
Indices == 0 .. (VARINT_BYTES - 1)
BufferIndices == 0 .. (VARINT_BYTES * BYTE_BITS - 1)

Bit(x, k) == (x \div 2^k) % 2

(* A defective concatenation of the limbs, upper limb first.              *)
VotingPowerBitsSwapped(vp) ==
  [k \in 0 .. (2 * LIMB_BITS - 1) |->
     IF k < LIMB_BITS THEN Bit(vp.upper, k) ELSE Bit(vp.lower, k - LIMB_BITS)]

(* u32_to_bits_le of both limbs, concatenated: bit k of the voting power.  *)
VotingPowerBits(vp) ==
  [k \in 0 .. (2 * LIMB_BITS - 1) |->
     IF k < LIMB_BITS THEN Bit(vp.lower, k) ELSE Bit(vp.upper, k - LIMB_BITS)]

(* Septet i: bits i * 7 .. i * 7 + 6, least significant first.            *)
Septet(bits, i) ==
  LET acc[j \in 0 .. SEPTET_BITS] ==
        IF j = 0 THEN 0 ELSE acc[j - 1] + bits[i * SEPTET_BITS + (j - 1)] * 2^(j - 1)
  IN acc[SEPTET_BITS]

(* A defective comparison that subtracts i instead of i + 1.               *)
IsLtFromIdx(last, i) == \E j \in Indices : (last - i) % FieldP = j

(* is_lt_last_non_zero_septet_idx: last - (i + 1), as a field element,    *)
(* equals one of the candidates 0 .. VARINT_BYTES - 1.                     *)
IsLtLastNonZeroSeptetIdx(last, i) ==
  \E j \in Indices : (last - (i + 1)) % FieldP = j

VARIABLES
  vpc,                 \* the statement of marshal_int64_varint reached
  voting_power,        \* the two limbs: [lower, upper]
  septets,             \* septets
  is_zero_septets,     \* is_zero_septets
  last_seen,           \* last_seen_non_zero_septet_idx
  idx,                 \* the index of the loop being run
  buffer               \* buffer, bit i * 8 + j is bit j of byte i

varint_vars == <<vpc, voting_power, septets, is_zero_septets, last_seen, idx, buffer>>

VarintInit ==
  /\ voting_power \in [lower : Limbs, upper : Limbs]
  /\ septets = [i \in Indices |-> 0]
  /\ is_zero_septets = [i \in Indices |-> 1]
  /\ last_seen = 0
  /\ idx = 0
  /\ buffer = [k \in BufferIndices |-> 0]
  /\ vpc = "septets"

(* Split the bits into septets and compute which of them are zero.         *)
ComputeSeptets ==
  /\ vpc = "septets"
  /\ LET bits == VotingPowerBits(voting_power)
     IN /\ septets' = [i \in Indices |-> Septet(bits, i)]
        /\ is_zero_septets' = [i \in Indices |-> IF septets'[i] = 0 THEN 1 ELSE 0]
  /\ vpc' = "scan"
  /\ UNCHANGED <<voting_power, last_seen, idx, buffer>>

(* A defective scan that records the 1-based position of the septet.       *)
ScanSeptetOneBased ==
  /\ vpc = "scan"
  /\ last_seen' = IF 1 - is_zero_septets[idx] = 1 THEN idx + 1 ELSE last_seen
  /\ IF idx + 1 = VARINT_BYTES
       THEN vpc' = "buffer" /\ idx' = 0
       ELSE vpc' = "scan" /\ idx' = idx + 1
  /\ UNCHANGED <<voting_power, septets, is_zero_septets, buffer>>

(* A defective scan that selects 0 instead of keeping the index seen so  *)
(* far when septet idx is zero.                                            *)
ScanSeptetResetOnZero ==
  /\ vpc = "scan"
  /\ last_seen' = IF 1 - is_zero_septets[idx] = 1 THEN idx ELSE 0
  /\ IF idx + 1 = VARINT_BYTES
       THEN vpc' = "buffer" /\ idx' = 0
       ELSE vpc' = "scan" /\ idx' = idx + 1
  /\ UNCHANGED <<voting_power, septets, is_zero_septets, buffer>>

(* One iteration of the scan for the last non-zero septet: select(i) when *)
(* septet i is non-zero, else keep the index seen so far.                  *)
ScanSeptet ==
  /\ vpc = "scan"
  /\ last_seen' = IF 1 - is_zero_septets[idx] = 1 THEN idx ELSE last_seen
  /\ IF idx + 1 = VARINT_BYTES
       THEN vpc' = "buffer" /\ idx' = 0
       ELSE vpc' = "scan" /\ idx' = idx + 1
  /\ UNCHANGED <<voting_power, septets, is_zero_septets, buffer>>

(* One iteration of the buffer loop: byte idx gets septet idx's bits and   *)
(* a continuation bit that is set iff idx is below the last non-zero       *)
(* septet.                                                                 *)
WriteByte ==
  /\ vpc = "buffer"
  /\ LET bits == VotingPowerBits(voting_power)
     IN buffer' = [k \in BufferIndices |->
                     IF k \div BYTE_BITS # idx THEN buffer[k]
                     ELSE IF k % BYTE_BITS < SEPTET_BITS
                            THEN bits[idx * SEPTET_BITS + (k % BYTE_BITS)]
                            ELSE IF IsLtLastNonZeroSeptetIdx(last_seen, idx) THEN 1 ELSE 0]
  /\ IF idx + 1 = VARINT_BYTES
       THEN vpc' = "done" /\ idx' = idx
       ELSE vpc' = "buffer" /\ idx' = idx + 1
  /\ UNCHANGED <<voting_power, septets, is_zero_septets, last_seen>>

VarintNext == ComputeSeptets \/ ScanSeptet \/ WriteByte

VarintSpec == VarintInit /\ [][VarintNext]_varint_vars

-----------------------------------------------------------------------------
VarintTypeOK ==
  /\ vpc \in {"septets", "scan", "buffer", "done"}
  /\ voting_power \in [lower : Limbs, upper : Limbs]
  /\ septets \in [Indices -> 0 .. (2^SEPTET_BITS - 1)]
  /\ is_zero_septets \in [Indices -> Bits]
  /\ last_seen \in Indices
  /\ idx \in Indices
  /\ buffer \in [BufferIndices -> Bits]

(* The number the input stands for, and the part of it the varint can      *)
(* hold: bits 0 .. VARINT_BYTES * SEPTET_BITS - 1 (bit 63 is dropped).     *)
Value(vp) == vp.lower + vp.upper * 2^LIMB_BITS
Representable(v) == v % 2^(VARINT_BYTES * SEPTET_BITS)

(* Reading the buffer as a protobuf reader does.                           *)
ByteSeptet(buf, i) ==
  LET acc[j \in 0 .. SEPTET_BITS] ==
        IF j = 0 THEN 0 ELSE acc[j - 1] + buf[i * BYTE_BITS + (j - 1)] * 2^(j - 1)
  IN acc[SEPTET_BITS]
Continues(buf, i) == buf[i * BYTE_BITS + SEPTET_BITS] = 1
ByteIsZero(buf, i) == \A j \in 0 .. (BYTE_BITS - 1) : buf[i * BYTE_BITS + j] = 0
(* The reader stops at the first byte without a continuation bit.          *)
StopIndex(buf) == CHOOSE i \in Indices :
                    /\ ~Continues(buf, i)
                    /\ \A k \in 0 .. (i - 1) : Continues(buf, k)
Terminated(buf) == \E i \in Indices : ~Continues(buf, i)
DecodeVarint(buf) ==
  LET acc[i \in 0 .. VARINT_BYTES] ==
        IF i = 0 THEN 0 ELSE acc[i - 1] + ByteSeptet(buf, i - 1) * 2^(SEPTET_BITS * (i - 1))
  IN acc[StopIndex(buf) + 1]

(* The minimal varint length of v: ceil(bitlength(v) / 7), 1 for 0.        *)
MinimalLength(v) ==
  CHOOSE n \in 1 .. VARINT_BYTES :
     /\ v < 2^(SEPTET_BITS * n)
     /\ n = 1 \/ v >= 2^(SEPTET_BITS * (n - 1))

(* Round trip: a protobuf reader of the finished buffer stops inside it    *)
(* and reads back the voting power, modulo the dropped top bit.  It       *)
(* depends on the scan for the last non-zero septet and on the field       *)
(* comparison of the continuation bits agreeing byte by byte.              *)
VarintRoundTrip ==
  vpc = "done" =>
     /\ Terminated(buffer)
     /\ DecodeVarint(buffer) = Representable(Value(voting_power))

(* The buffer invariant of the spec: the continuation bit of byte i is set *)
(* exactly when a non-zero septet follows septet i.  It rests on the scan  *)
(* keeping the last non-zero index across zero septets and on the field   *)
(* comparison agreeing with i < last_seen.                                 *)
VarintContinuation ==
  vpc = "done" =>
     \A i \in Indices :
        Continues(buffer, i) <=> \E j \in Indices : j > i /\ septets[j] # 0

(* Canonical form: the encoded length is the minimal one for the value,    *)
(* and every byte after it is zero, so the fixed buffer can be cut to the  *)
(* protobuf encoding celestia-core produces.                               *)
VarintCanonical ==
  vpc = "done" =>
     /\ StopIndex(buffer) + 1 = MinimalLength(Representable(Value(voting_power)))
     /\ \A i \in Indices : i > StopIndex(buffer) => ByteIsZero(buffer, i)
=============================================================================
