--------------------------- MODULE DataCommitment ---------------------------
(***************************************************************************)
(* get_data_commitment and encode_data_root_tuple (src/src/commitment.rs). *)
(*                                                                         *)
(* The builder encodes one data root tuple per block of the window, pads  *)
(* the leaves with zero tuples up to NB_LEAVES with Vec::resize, builds    *)
(* the enabled flags the same way, and hands both to the external          *)
(* compute_root_from_leaves gadget.  A data hash is an abstract value (one *)
(* element standing for its 32 bytes); the height is encoded byte by byte. *)
(***************************************************************************)
EXTENDS Integers, Sequences, CircuitParams

CONSTANTS
  Empty,          \* what a disabled leaf contributes to the root
  NB_LEAVES       \* leaves of the commitment tree, a const generic

U64_BYTES == 8     \* bytes of height.encode(): an EvmVariable u64
ABI_PAD == 24      \* zero bytes that pad encodePacked(height) to 32 bytes

(* A leaf: a sequence of bytes and data hash elements.                     *)
Leaves == Seq(Nat \cup DataHashes)

(* x, x \div 256, x \div 256^2, ..., x \div 256^8: the repeated division  *)
(* by 256 that splits a u64 into bytes.                                    *)
Quotients(x) ==
  LET q1 == x \div 256
      q2 == q1 \div 256
      q3 == q2 \div 256
      q4 == q3 \div 256
      q5 == q4 \div 256
      q6 == q5 \div 256
      q7 == q6 \div 256
      q8 == q7 \div 256
  IN <<x, q1, q2, q3, q4, q5, q6, q7, q8>>

(* height.encode(): the big-endian bytes of a u64, byte k the low byte of  *)
(* x \div 256^(U64_BYTES - k).                                             *)
EncodeU64(x) ==
  [k \in 1 .. U64_BYTES |-> Quotients(x)[U64_BYTES - k + 1] % 256]

(* x fits in U64_BYTES bytes: nothing is left after dividing them away.    *)
FitsU64(x) == Quotients(x)[U64_BYTES + 1] = 0

(* A height is a U64Variable (HEIGHT_BITS = 64): it fits the 8 bytes       *)
(* height.encode() writes.  What a disabled leaf contributes to the root   *)
(* is no leaf.                                                             *)
ASSUME DataCommitmentAssumption ==
  /\ WINDOW_RANGE \in Nat
  /\ NB_LEAVES \in Nat
  /\ HEIGHT_BITS \in Nat \ {0}
  /\ \A h \in Heights : FitsU64(h)
  /\ Empty \notin DataHashes
  /\ Empty \notin Leaves

(* The data root tuple: 24 zero bytes, the 8 height bytes, the data hash.  *)
EncodeDataRootTuple(data_hash, height) ==
  [k \in 1 .. ABI_PAD |-> 0] \o EncodeU64(height) \o <<data_hash>>

(* The constant zero tuple that pads the leaves.                          *)
ZeroLeaf == [k \in 1 .. ABI_PAD + U64_BYTES |-> 0] \o <<0>>

(* Vec::resize(n, v): truncate to n elements, or extend with v.            *)
Resize(s, n, v) ==
  [k \in 1 .. n |-> IF k <= Len(s) THEN s[k] ELSE v]

(* compute_root_from_leaves: the root commits to the enabled leaves in     *)
(* their positions; a disabled leaf does not influence it.                 *)
ComputeRootFromLeaves(ls, enabled) ==
  [k \in 1 .. Len(ls) |-> IF enabled[k] THEN ls[k] ELSE Empty]

VARIABLES
  dc_pc,            \* the statement of get_data_commitment reached
  data_hashes,      \* the data_hashes argument
  start_block,      \* the start_block argument
  leaves,           \* leaves
  leaves_enabled,   \* leaves_enabled
  data_commitment   \* the returned root

dc_vars == <<dc_pc, data_hashes, start_block, leaves, leaves_enabled,
             data_commitment>>

DCInit ==
  /\ data_hashes \in [1 .. WINDOW_RANGE -> DataHashes]
  /\ start_block \in Heights
  /\ leaves = <<>>
  /\ leaves_enabled = <<>>
  /\ data_commitment = <<>>
  /\ dc_pc = "leaves"

(* A defective loop that starts the window at start_block + 1.            *)
PushLeafFromNext ==
  /\ dc_pc = "leaves"
  /\ Len(leaves) < WINDOW_RANGE
  /\ LET i == Len(leaves)
     IN leaves' = Append(leaves, EncodeDataRootTuple(data_hashes[i + 1], U64(start_block + i + 1)))
  /\ UNCHANGED <<dc_pc, data_hashes, start_block, leaves_enabled, data_commitment>>

(* One iteration of the loop over the window: the tuple of block           *)
(* start_block + i, with i = Len(leaves).                                  *)
PushLeaf ==
  /\ dc_pc = "leaves"
  /\ Len(leaves) < WINDOW_RANGE
  /\ LET i == Len(leaves)
         block_height == U64(start_block + i)
     IN leaves' = Append(leaves, EncodeDataRootTuple(data_hashes[i + 1], block_height))
  /\ UNCHANGED <<dc_pc, data_hashes, start_block, leaves_enabled, data_commitment>>

(* Defective padding steps: one that enables a leaf too few, one that     *)
(* pads to one leaf more than the tree has.                                *)
ComputeRootOverPadded ==
  /\ dc_pc = "leaves"
  /\ Len(leaves) = WINDOW_RANGE
  /\ leaves' = Resize(leaves, NB_LEAVES + 1, ZeroLeaf)
  /\ leaves_enabled' = Resize(Resize(<<>>, WINDOW_RANGE, TRUE), NB_LEAVES + 1, FALSE)
  /\ data_commitment' = ComputeRootFromLeaves(leaves', leaves_enabled')
  /\ dc_pc' = "done"
  /\ UNCHANGED <<data_hashes, start_block>>

ComputeRootEnabledShort ==
  /\ dc_pc = "leaves"
  /\ Len(leaves) = WINDOW_RANGE
  /\ leaves' = Resize(leaves, NB_LEAVES, ZeroLeaf)
  /\ leaves_enabled' = Resize(Resize(<<>>, WINDOW_RANGE - 1, TRUE), NB_LEAVES, FALSE)
  /\ data_commitment' = ComputeRootFromLeaves(leaves', leaves_enabled')
  /\ dc_pc' = "done"
  /\ UNCHANGED <<data_hashes, start_block>>

(* Pad (or truncate) the leaves to NB_LEAVES, build the enabled flags, and *)
(* compute the root.                                                       *)
ComputeRoot ==
  /\ dc_pc = "leaves"
  /\ Len(leaves) = WINDOW_RANGE
  /\ leaves' = Resize(leaves, NB_LEAVES, ZeroLeaf)
  /\ leaves_enabled' = Resize(Resize(<<>>, WINDOW_RANGE, TRUE), NB_LEAVES, FALSE)
  /\ data_commitment' = ComputeRootFromLeaves(leaves', leaves_enabled')
  /\ dc_pc' = "done"
  /\ UNCHANGED <<data_hashes, start_block>>

DCNext == PushLeaf \/ ComputeRoot

DCSpec == DCInit /\ [][DCNext]_dc_vars

-----------------------------------------------------------------------------
DCTypeOK ==
  /\ dc_pc \in {"leaves", "done"}
  /\ data_hashes \in [1 .. WINDOW_RANGE -> DataHashes]
  /\ start_block \in Heights
  /\ leaves \in Seq(Leaves)
  /\ Len(leaves) <= IF dc_pc = "leaves" THEN WINDOW_RANGE ELSE NB_LEAVES
  /\ leaves_enabled \in Seq(BOOLEAN)
  /\ data_commitment \in Seq(Leaves \cup {Empty})

(* Reading a tuple back: its height is the big-endian value of bytes       *)
(* 25..32, its data hash the last element.                                *)
DecodeHeight(t) ==
  LET b(k) == t[ABI_PAD + k]
  IN ((((((b(1) * 256 + b(2)) * 256 + b(3)) * 256 + b(4)) * 256 + b(5))
        * 256 + b(6)) * 256 + b(7)) * 256 + b(8)
DecodeDataHash(t) == t[ABI_PAD + U64_BYTES + 1]

(* The root commits to the whole window and nothing else: slot i holds a   *)
(* 64-byte tuple that reads back as (data_hashes[i], start_block + i - 1), *)
(* and the NB_LEAVES - WINDOW_RANGE slots after it are disabled.  It is   *)
(* stated for windows whose heights do not pass 2^64 - 1, where the U64    *)
(* addition of the height would wrap.                                      *)
WindowCommitted ==
  (dc_pc = "done" /\ start_block + WINDOW_RANGE <= 2^HEIGHT_BITS) =>
     /\ Len(data_commitment) = NB_LEAVES
     /\ \A i \in 1 .. WINDOW_RANGE :
           /\ i <= NB_LEAVES
           /\ data_commitment[i] # Empty
           /\ Len(data_commitment[i]) = ABI_PAD + U64_BYTES + 1
           /\ DecodeHeight(data_commitment[i]) = start_block + i - 1
           /\ DecodeDataHash(data_commitment[i]) = data_hashes[i]
     /\ \A i \in WINDOW_RANGE + 1 .. NB_LEAVES : data_commitment[i] = Empty

-----------------------------------------------------------------------------
(* The refinement mapping: before the root is computed nothing is          *)
(* committed; afterwards each enabled slot stands for the tuple it reads   *)
(* back as.                                                                *)
DecodedRoot ==
  [k \in 1 .. Len(data_commitment) |->
     IF data_commitment[k] = Empty THEN Empty
     ELSE [data_hash |-> DecodeDataHash(data_commitment[k]),
           height |-> DecodeHeight(data_commitment[k])]]

Abstract == INSTANCE DataRootCommitment
              WITH NoRoot <- <<>>,
                   root <- IF dc_pc = "done" THEN DecodedRoot ELSE <<>>

(* get_data_commitment implements DataRootCommitment: the loop, the        *)
(* padding and the enabled flags together compute the abstract window      *)
(* commitment, with wrapped U64 heights, in their one step.                *)
CommitmentRefined == Abstract!Spec
=============================================================================
