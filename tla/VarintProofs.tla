----------------------------- MODULE VarintProofs -----------------------------
(***************************************************************************)
(* Proofs about marshal_int64_varint: the field comparison of the          *)
(* continuation bit is a true "less than" whenever the field has at least *)
(* 2 * VARINT_BYTES elements, and the finished buffer satisfies the       *)
(* spec's continuation-bit invariant, for every width of limbs, septets   *)
(* and buffer.                                                             *)
(***************************************************************************)
EXTENDS Varint, TLAPS

USE VarintAssumption

(* Byte i's continuation bit sits at i * 8 + 7: the buffer loop's index    *)
(* arithmetic lands inside the buffer and in byte i.                       *)
LEMMA ContinuationBitIndex ==
  ASSUME NEW i \in Indices
  PROVE  /\ i * BYTE_BITS + SEPTET_BITS \in BufferIndices
         /\ (i * BYTE_BITS + SEPTET_BITS) \div BYTE_BITS = i
         /\ (i * BYTE_BITS + SEPTET_BITS) % BYTE_BITS = SEPTET_BITS
  BY DEF Indices, BufferIndices, BYTE_BITS

(* is_lt_last_non_zero_septet_idx computes i < last: last - (i + 1) lies  *)
(* in [0, VARINT_BYTES) when i < last, and wraps to at least               *)
(* FieldP - VARINT_BYTES >= VARINT_BYTES otherwise.                        *)
LEMMA IsLtCorrect ==
  ASSUME NEW last \in Indices, NEW i \in Indices
  PROVE  IsLtLastNonZeroSeptetIdx(last, i) <=> i < last
<1>1. CASE i < last
  <2>1. (last - (i + 1)) % FieldP = last - (i + 1)
    BY <1>1 DEF Indices
  <2>. QED  BY <1>1, <2>1 DEF IsLtLastNonZeroSeptetIdx, Indices
<1>2. CASE ~(i < last)
  <2>1. (last - (i + 1)) % FieldP = last - (i + 1) + FieldP
    BY <1>2 DEF Indices
  <2>. QED  BY <1>2, <2>1 DEF IsLtLastNonZeroSeptetIdx, Indices
<1>. QED  BY <1>1, <1>2
-----------------------------------------------------------------------------
(* After scanning septets 0 .. n - 1, last_seen is the last non-zero one   *)
(* among them, or 0 when there is none.                                    *)
ScannedUpTo(n) ==
  /\ last_seen = 0 \/ (last_seen < n /\ septets[last_seen] # 0)
  /\ \A j \in Indices : last_seen < j /\ j < n => septets[j] = 0

(* The strengthening of VarintContinuation: the zero flags match the       *)
(* septets, the scan is exact so far, and the continuation bits written so *)
(* far are those of i < last_seen.                                         *)
VInv ==
  /\ vpc \in {"septets", "scan", "buffer", "done"}
  /\ last_seen \in Indices
  /\ idx \in Indices
  /\ vpc = "septets" => idx = 0 /\ last_seen = 0
  /\ vpc # "septets" =>
        \A j \in Indices : is_zero_septets[j] = IF septets[j] = 0 THEN 1 ELSE 0
  /\ vpc = "scan" => ScannedUpTo(idx)
  /\ vpc \in {"buffer", "done"} => ScannedUpTo(VARINT_BYTES)
  /\ vpc = "buffer" =>
        \A i \in Indices : i < idx => (Continues(buffer, i) <=> i < last_seen)
  /\ vpc = "done" => \A i \in Indices : Continues(buffer, i) <=> i < last_seen

LEMMA VInvStep == VInv /\ [VarintNext]_varint_vars => VInv'
<1> SUFFICES ASSUME VInv, [VarintNext]_varint_vars PROVE VInv'
  OBVIOUS
<1>1. CASE ComputeSeptets
  BY <1>1 DEF ComputeSeptets, VInv, ScannedUpTo, Indices
<1>2. CASE ScanSeptet
  <2>1. /\ vpc = "scan" /\ ScannedUpTo(idx)
        /\ \A j \in Indices : is_zero_septets[j] = IF septets[j] = 0 THEN 1 ELSE 0
    BY <1>2 DEF ScanSeptet, VInv
  <2>2. last_seen' = IF septets[idx] # 0 THEN idx ELSE last_seen
    BY <1>2, <2>1 DEF ScanSeptet, VInv
  <2>3. UNCHANGED <<septets, is_zero_septets, buffer>>
    BY <1>2 DEF ScanSeptet
  <2>4. /\ last_seen' = 0 \/ (last_seen' < idx + 1 /\ septets[last_seen'] # 0)
        /\ \A j \in Indices : last_seen' < j /\ j < idx + 1 => septets[j] = 0
    <3>1. CASE septets[idx] # 0
      BY <2>2, <3>1 DEF VInv, Indices
    <3>2. CASE septets[idx] = 0
      BY <2>1, <2>2, <3>2 DEF ScannedUpTo, VInv, Indices
    <3>. QED  BY <3>1, <3>2
  <2>5. CASE idx + 1 = VARINT_BYTES
    BY <1>2, <2>1, <2>2, <2>3, <2>4, <2>5 DEF ScanSeptet, VInv, ScannedUpTo, Indices
  <2>6. CASE idx + 1 # VARINT_BYTES
    BY <1>2, <2>1, <2>2, <2>3, <2>4, <2>6 DEF ScanSeptet, VInv, ScannedUpTo, Indices
  <2>. QED  BY <2>5, <2>6
<1>3. CASE WriteByte
  <2>1. /\ vpc = "buffer"
        /\ UNCHANGED <<septets, is_zero_septets, last_seen>>
        /\ \A i \in Indices : i < idx => (Continues(buffer, i) <=> i < last_seen)
    BY <1>3 DEF WriteByte, VInv
  <2>2. \A i \in Indices : i <= idx =>
           (buffer'[i * BYTE_BITS + SEPTET_BITS] = 1 <=> i < last_seen)
    <3> SUFFICES ASSUME NEW i \in Indices, i <= idx
                 PROVE  buffer'[i * BYTE_BITS + SEPTET_BITS] = 1 <=> i < last_seen
      OBVIOUS
    <3>1. /\ i * BYTE_BITS + SEPTET_BITS \in BufferIndices
          /\ (i * BYTE_BITS + SEPTET_BITS) \div BYTE_BITS = i
          /\ (i * BYTE_BITS + SEPTET_BITS) % BYTE_BITS = SEPTET_BITS
      BY ContinuationBitIndex
    <3>2. CASE i = idx
      <4>1. buffer'[i * BYTE_BITS + SEPTET_BITS]
              = IF IsLtLastNonZeroSeptetIdx(last_seen, idx) THEN 1 ELSE 0
        BY <1>3, <3>1, <3>2 DEF WriteByte, BYTE_BITS
      <4>. QED  BY <4>1, <3>2, IsLtCorrect DEF VInv
    <3>3. CASE i # idx
      <4>1. buffer'[i * BYTE_BITS + SEPTET_BITS] = buffer[i * BYTE_BITS + SEPTET_BITS]
        BY <1>3, <3>1, <3>3 DEF WriteByte
      <4>. QED  BY <4>1, <2>1, <3>3 DEF Continues, VInv, Indices
    <3>. QED  BY <3>2, <3>3
  <2>3. CASE idx + 1 = VARINT_BYTES
    <3>1. vpc' = "done" /\ idx' = idx
      BY <1>3, <2>3 DEF WriteByte
    <3>. QED  BY <2>1, <2>2, <2>3, <3>1 DEF VInv, ScannedUpTo, Continues, Indices
  <2>4. CASE idx + 1 # VARINT_BYTES
    <3>1. vpc' = "buffer" /\ idx' = idx + 1
      BY <1>3, <2>4 DEF WriteByte
    <3>. QED  BY <2>1, <2>2, <2>4, <3>1 DEF VInv, ScannedUpTo, Continues, Indices
  <2>. QED  BY <2>3, <2>4
<1>4. CASE UNCHANGED varint_vars
  BY <1>4 DEF varint_vars, VInv, ScannedUpTo, Continues
<1>. QED  BY <1>1, <1>2, <1>3, <1>4 DEF VarintNext

(* The finished buffer of marshal_int64_varint sets the continuation bit  *)
(* of byte i exactly when a later septet is non-zero (the invariant        *)
(* VarintContinuation checked by TLC on MC_Varint), for every width.       *)
THEOREM ContinuationInvariant == VarintSpec => []VarintContinuation
<1>1. VarintInit => VInv
  BY DEF VarintInit, VInv, Indices
<1>2. VInv /\ [VarintNext]_varint_vars => VInv'
  BY VInvStep
<1>3. VInv => VarintContinuation
  BY DEF VInv, ScannedUpTo, VarintContinuation, Indices
<1>. QED  BY <1>1, <1>2, <1>3, PTL DEF VarintSpec
=============================================================================
