------------------------ MODULE DataCommitmentProofs ------------------------
(***************************************************************************)
(* Proofs about get_data_commitment: the leaves it builds are the data     *)
(* root tuples of the window in order, its result has the type DCTypeOK    *)
(* states, and, for a window that fits in the tree, it implements the      *)
(* abstract window commitment DataRootCommitment.                          *)
(***************************************************************************)
EXTENDS DataCommitment, SequenceTheorems, TLAPS

USE DataCommitmentAssumption

(* The tuple get_data_commitment encodes for block k of the window.        *)
Tuple(k) == EncodeDataRootTuple(data_hashes[k], U64(start_block + k - 1))

(* The whole window, and the enabled flags both resize calls produce.      *)
Window == [k \in 1 .. WINDOW_RANGE |-> Tuple(k)]
EnabledFlags == Resize(Resize(<<>>, WINDOW_RANGE, TRUE), NB_LEAVES, FALSE)

(* The inductive invariant: while the loop runs, the leaves are the first  *)
(* tuples of the window; once the root is computed, the leaves are the    *)
(* window resized to the tree and the root masks them with the flags.     *)
DCInv ==
  /\ dc_pc \in {"leaves", "done"}
  /\ data_hashes \in [1 .. WINDOW_RANGE -> DataHashes]
  /\ start_block \in Heights
  /\ dc_pc = "leaves" =>
        /\ Len(leaves) \in 0 .. WINDOW_RANGE
        /\ leaves = [k \in 1 .. Len(leaves) |-> Tuple(k)]
        /\ leaves_enabled = <<>>
        /\ data_commitment = <<>>
  /\ dc_pc = "done" =>
        /\ leaves = Resize(Window, NB_LEAVES, ZeroLeaf)
        /\ leaves_enabled = EnabledFlags
        /\ data_commitment = ComputeRootFromLeaves(leaves, leaves_enabled)

-----------------------------------------------------------------------------
(* height.encode() followed by the reader's big-endian sum gives back any  *)
(* height that fits in 8 bytes.                                            *)
LEMMA EncodeU64Inverse ==
  ASSUME NEW x \in Nat, FitsU64(x)
  PROVE  LET e == EncodeU64(x)
         IN  /\ e \in Seq(Nat)
             /\ Len(e) = U64_BYTES
             /\ ((((((e[1] * 256 + e[2]) * 256 + e[3]) * 256 + e[4]) * 256 + e[5])
                   * 256 + e[6]) * 256 + e[7]) * 256 + e[8] = x
<1> DEFINE q1 == x \div 256
           q2 == q1 \div 256
           q3 == q2 \div 256
           q4 == q3 \div 256
           q5 == q4 \div 256
           q6 == q5 \div 256
           q7 == q6 \div 256
<1>1. /\ q1 \in Nat /\ q2 \in Nat /\ q3 \in Nat /\ q4 \in Nat
      /\ q5 \in Nat /\ q6 \in Nat /\ q7 \in Nat
  BY SMT
<1>2. Quotients(x) = <<x, q1, q2, q3, q4, q5, q6, q7, q7 \div 256>>
  BY DEF Quotients
<1>3. EncodeU64(x) = <<q7 % 256, q6 % 256, q5 % 256, q4 % 256,
                       q3 % 256, q2 % 256, q1 % 256, x % 256>>
  BY <1>2 DEF EncodeU64, U64_BYTES
<1>4. q7 \div 256 = 0
  BY <1>2 DEF FitsU64, U64_BYTES
<1>5. /\ q7 % 256 = q7
      /\ q6 = q7 * 256 + (q6 % 256)
      /\ q5 = q6 * 256 + (q5 % 256)
      /\ q4 = q5 * 256 + (q4 % 256)
      /\ q3 = q4 * 256 + (q3 % 256)
      /\ q2 = q3 * 256 + (q2 % 256)
      /\ q1 = q2 * 256 + (q1 % 256)
      /\ x = q1 * 256 + (x % 256)
  BY <1>1, <1>4, SMT
<1>6. QED
  BY <1>1, <1>3, <1>5, SMT DEF U64_BYTES

(* The elements of a concatenation, counted from either part.             *)
LEMMA ConcatIndex ==
  ASSUME NEW S, NEW s1 \in Seq(S), NEW s2 \in Seq(S)
  PROVE  /\ s1 \o s2 \in Seq(S)
         /\ Len(s1 \o s2) = Len(s1) + Len(s2)
         /\ \A k \in 1 .. Len(s1) : (s1 \o s2)[k] = s1[k]
         /\ \A k \in 1 .. Len(s2) : (s1 \o s2)[Len(s1) + k] = s2[k]
<1>1. /\ s1 \o s2 \in Seq(S)
      /\ Len(s1 \o s2) = Len(s1) + Len(s2)
      /\ \A k \in 1 .. Len(s1) + Len(s2) :
            (s1 \o s2)[k] = IF k <= Len(s1) THEN s1[k] ELSE s2[k - Len(s1)]
  BY ConcatProperties
<1>2. ASSUME NEW k \in 1 .. Len(s2)
      PROVE  (s1 \o s2)[Len(s1) + k] = s2[k]
  <2>1. Len(s1) + k \in 1 .. Len(s1) + Len(s2) /\ ~(Len(s1) + k <= Len(s1))
    BY LenProperties
  <2>2. Len(s1) + k - Len(s1) = k
    BY LenProperties
  <2>. QED
    BY <1>1, <2>1, <2>2
<1>3. \A k \in 1 .. Len(s1) : (s1 \o s2)[k] = s1[k]
  BY <1>1, LenProperties
<1>. QED
  BY <1>1, <1>2, <1>3

(* A data root tuple reads back as the data hash and the height it         *)
(* encodes, is a leaf, and is not what a disabled slot contributes.        *)
LEMMA TupleReadsBack ==
  ASSUME NEW d \in DataHashes, NEW h \in Nat, FitsU64(h)
  PROVE  LET t == EncodeDataRootTuple(d, h)
         IN  /\ t \in Leaves
             /\ t # Empty
             /\ Len(t) = ABI_PAD + U64_BYTES + 1
             /\ DecodeHeight(t) = h
             /\ DecodeDataHash(t) = d
<1> DEFINE e == EncodeU64(h)
           z == [j \in 1 .. ABI_PAD |-> 0]
           t == EncodeDataRootTuple(d, h)
<1>1. /\ e \in Seq(Nat) /\ Len(e) = U64_BYTES
      /\ ((((((e[1] * 256 + e[2]) * 256 + e[3]) * 256 + e[4]) * 256 + e[5])
            * 256 + e[6]) * 256 + e[7]) * 256 + e[8] = h
  BY EncodeU64Inverse
<1>2. z \in Seq(Nat) /\ Len(z) = ABI_PAD
  BY DEF ABI_PAD
<1>3. t = (z \o e) \o <<d>>
  BY DEF EncodeDataRootTuple
<1> DEFINE Elems == Nat \cup DataHashes
<1> HIDE DEF z, e, t
<1>4. /\ z \in Seq(Elems) /\ e \in Seq(Elems)
      /\ <<d>> \in Seq(Elems) /\ Len(<<d>>) = 1 /\ <<d>>[1] = d
  <2>1. z \in Seq(Elems) /\ e \in Seq(Elems)
    BY <1>1, <1>2, SeqMonotonic
  <2>2. <<d>> \in Seq(Elems) /\ Len(<<d>>) = 1 /\ <<d>>[1] = d
    OBVIOUS
  <2>. QED
    BY <2>1, <2>2
<1>5. /\ t \in Seq(Elems)
      /\ Len(t) = ABI_PAD + U64_BYTES + 1
      /\ \A k \in 1 .. U64_BYTES : t[ABI_PAD + k] = e[k]
      /\ t[ABI_PAD + U64_BYTES + 1] = d
  <2>1. /\ z \o e \in Seq(Elems)
        /\ Len(z \o e) = Len(z) + Len(e)
        /\ \A k \in 1 .. Len(e) : (z \o e)[Len(z) + k] = e[k]
    BY <1>4, ConcatIndex
  <2>2. /\ (z \o e) \o <<d>> \in Seq(Elems)
        /\ Len((z \o e) \o <<d>>) = Len(z \o e) + Len(<<d>>)
        /\ \A k \in 1 .. Len(z \o e) : ((z \o e) \o <<d>>)[k] = (z \o e)[k]
        /\ \A k \in 1 .. Len(<<d>>) :
              ((z \o e) \o <<d>>)[Len(z \o e) + k] = <<d>>[k]
    BY <1>4, <2>1, ConcatIndex
  <2>3. Len(z \o e) = ABI_PAD + U64_BYTES
    BY <1>1, <1>2, <2>1
  <2>4. t \in Seq(Elems) /\ Len(t) = ABI_PAD + U64_BYTES + 1
    BY <1>3, <1>4, <2>2, <2>3
  <2>5. ASSUME NEW k \in 1 .. U64_BYTES
        PROVE  t[ABI_PAD + k] = e[k]
    <3>1. ABI_PAD + k \in 1 .. Len(z \o e) /\ ABI_PAD + k = Len(z) + k
      BY <1>1, <1>2, <2>3 DEF ABI_PAD, U64_BYTES
    <3>2. k \in 1 .. Len(e)
      BY <1>1
    <3>. QED
      BY <1>3, <2>1, <2>2, <3>1, <3>2
  <2>6. t[ABI_PAD + U64_BYTES + 1] = d
    <3>1. ABI_PAD + U64_BYTES + 1 = Len(z \o e) + 1 /\ 1 \in 1 .. Len(<<d>>)
      BY <1>4, <2>3
    <3>. QED
      BY <1>3, <1>4, <2>2, <3>1
  <2>. QED
    BY <2>4, <2>5, <2>6
<1>6. t \in Leaves /\ t # Empty
  BY <1>5 DEF Leaves
<1>7. DecodeHeight(t) = h
  BY <1>1, <1>5, SMT DEF DecodeHeight, ABI_PAD, U64_BYTES
<1>. QED
  BY <1>5, <1>6, <1>7 DEF DecodeDataHash, t

(* The tuple of every block of the window: its U64 height is a height, and *)
(* it reads back as that block's data hash and height.                    *)
LEMMA WindowTuple ==
  ASSUME data_hashes \in [1 .. WINDOW_RANGE -> DataHashes],
         start_block \in Heights,
         NEW k \in 1 .. WINDOW_RANGE
  PROVE  /\ U64(start_block + k - 1) \in Heights
         /\ Tuple(k) \in Leaves
         /\ Tuple(k) # Empty
         /\ DecodeHeight(Tuple(k)) = U64(start_block + k - 1)
         /\ DecodeDataHash(Tuple(k)) = data_hashes[k]
<1>1. 2^HEIGHT_BITS \in Nat \ {0}
  BY DEF Heights
<1>2. U64(start_block + k - 1) \in Heights
  BY <1>1 DEF U64, Heights
<1>3. U64(start_block + k - 1) \in Nat /\ FitsU64(U64(start_block + k - 1))
  BY <1>1, <1>2 DEF Heights
<1>. QED
  BY <1>2, <1>3, TupleReadsBack DEF Tuple

(* The padding leaf is a leaf, and not what a disabled slot contributes.  *)
LEMMA ZeroLeafIsLeaf == ZeroLeaf \in Leaves /\ ZeroLeaf # Empty
<1>1. ZeroLeaf \in Seq(Nat \cup DataHashes)
  <2>1. [k \in 1 .. ABI_PAD + U64_BYTES |-> 0] \in Seq(Nat \cup DataHashes)
    BY DEF ABI_PAD, U64_BYTES
  <2>2. <<0>> \in Seq(Nat \cup DataHashes)
    OBVIOUS
  <2>. QED
    BY <2>1, <2>2, ConcatProperties DEF ZeroLeaf
<1>. QED
  BY <1>1 DEF Leaves

-----------------------------------------------------------------------------
(* get_data_commitment starts with no leaves.                              *)
LEMMA DCInvInit == DCInit => DCInv
<1> SUFFICES ASSUME DCInit PROVE DCInv
  OBVIOUS
<1>1. [k \in 1 .. Len(leaves) |-> Tuple(k)] = leaves
  BY DEF DCInit
<1>. QED
  BY <1>1 DEF DCInit, DCInv

(* Every step of get_data_commitment preserves DCInv.                      *)
LEMMA DCInvStep == DCInv /\ [DCNext]_dc_vars => DCInv'
<1> SUFFICES ASSUME DCInv, [DCNext]_dc_vars PROVE DCInv'
  OBVIOUS
<1>1. CASE PushLeaf
  <2> DEFINE i == Len(leaves)
  <2>1. dc_pc = "leaves" /\ i \in 0 .. (WINDOW_RANGE - 1)
    BY <1>1 DEF PushLeaf, DCInv
  <2>2. leaves' = Append(leaves, Tuple(i + 1))
    BY <1>1, <2>1 DEF PushLeaf, Tuple
  <2>3. leaves \in Seq(Leaves)
    <3>1. \A k \in 1 .. i : Tuple(k) \in Leaves
      BY <2>1, WindowTuple DEF DCInv
    <3>. QED
      BY <2>1, <3>1, IsASeq DEF DCInv
  <2>4. Len(leaves') = i + 1 /\ i + 1 \in 0 .. WINDOW_RANGE
    BY <2>1, <2>2, <2>3, AppendProperties
  <2>5. leaves' = [k \in 1 .. Len(leaves') |-> Tuple(k)]
    BY <2>1, <2>2, <2>3, <2>4, AppendProperties DEF DCInv
  <2>. QED
    BY <1>1, <2>1, <2>4, <2>5 DEF PushLeaf, DCInv, Tuple, Window, EnabledFlags
<1>2. CASE ComputeRoot
  <2>1. dc_pc = "leaves" /\ Len(leaves) = WINDOW_RANGE
    BY <1>2 DEF ComputeRoot
  <2>2. leaves = Window
    BY <2>1 DEF DCInv, Window
  <2>. QED
    BY <1>2, <2>2 DEF ComputeRoot, DCInv, Tuple, Window, EnabledFlags
<1>3. CASE UNCHANGED dc_vars
  BY <1>3 DEF dc_vars, DCInv, Tuple, Window, EnabledFlags
<1>. QED
  BY <1>1, <1>2, <1>3 DEF DCNext

(* The resized window: NB_LEAVES slots, the window's tuples first.         *)
LEMMA ResizedWindow ==
  ASSUME data_hashes \in [1 .. WINDOW_RANGE -> DataHashes],
         start_block \in Heights
  PROVE  /\ Resize(Window, NB_LEAVES, ZeroLeaf) \in Seq(Leaves)
         /\ Len(Resize(Window, NB_LEAVES, ZeroLeaf)) = NB_LEAVES
         /\ \A k \in 1 .. NB_LEAVES :
               Resize(Window, NB_LEAVES, ZeroLeaf)[k]
                 = IF k <= WINDOW_RANGE THEN Tuple(k) ELSE ZeroLeaf
         /\ EnabledFlags \in Seq(BOOLEAN)
         /\ Len(EnabledFlags) = NB_LEAVES
         /\ \A k \in 1 .. NB_LEAVES : EnabledFlags[k] <=> k <= WINDOW_RANGE
<1>1. Len(Window) = WINDOW_RANGE
  BY DEF Window
<1>2. \A k \in 1 .. NB_LEAVES :
         Resize(Window, NB_LEAVES, ZeroLeaf)[k]
           = IF k <= WINDOW_RANGE THEN Tuple(k) ELSE ZeroLeaf
  BY <1>1 DEF Resize, Window
<1>3. \A k \in 1 .. NB_LEAVES :
         (IF k <= WINDOW_RANGE THEN Tuple(k) ELSE ZeroLeaf) \in Leaves
  BY WindowTuple, ZeroLeafIsLeaf
<1>4. Resize(Window, NB_LEAVES, ZeroLeaf) \in [1 .. NB_LEAVES -> Leaves]
  BY <1>2, <1>3 DEF Resize
<1>5. Resize(Window, NB_LEAVES, ZeroLeaf) \in Seq(Leaves)
  BY <1>4
<1>6. /\ Len(Resize(<<>>, WINDOW_RANGE, TRUE)) = WINDOW_RANGE
      /\ \A k \in 1 .. WINDOW_RANGE : Resize(<<>>, WINDOW_RANGE, TRUE)[k] = TRUE
  BY DEF Resize
<1> DEFINE inner == Resize(<<>>, WINDOW_RANGE, TRUE)
<1>7. /\ EnabledFlags = [j \in 1 .. NB_LEAVES |-> IF j <= Len(inner) THEN inner[j] ELSE FALSE]
      /\ Len(EnabledFlags) = NB_LEAVES
  BY DEF EnabledFlags, Resize
<1> HIDE DEF inner
<1>8. ASSUME NEW k \in 1 .. NB_LEAVES
      PROVE  /\ EnabledFlags[k] \in BOOLEAN
             /\ EnabledFlags[k] <=> k <= WINDOW_RANGE
  <2>1. CASE k <= WINDOW_RANGE
    <3>0. Len(inner) = WINDOW_RANGE
      BY <1>6, Zenon DEF inner
    <3>1. k \in 1 .. WINDOW_RANGE /\ k <= Len(inner)
      BY <2>1, <3>0
    <3>2. inner[k] = TRUE
      BY <1>6, <3>1, Zenon DEF inner
    <3>3. EnabledFlags[k] = TRUE
      BY <1>7, <3>1, <3>2
    <3>. QED
      BY <2>1, <3>3
  <2>2. CASE ~(k <= WINDOW_RANGE)
    <3>0. Len(inner) = WINDOW_RANGE
      BY <1>6, Zenon DEF inner
    <3>1. ~(k <= Len(inner))
      BY <2>2, <3>0
    <3>2. EnabledFlags[k] = FALSE
      BY <1>7, <3>1
    <3>. QED
      BY <2>2, <3>2
  <2>. QED
    BY <2>1, <2>2
<1>9. EnabledFlags \in Seq(BOOLEAN)
  <2>1. DOMAIN EnabledFlags = 1 .. NB_LEAVES
    BY <1>7
  <2>2. \A k \in 1 .. NB_LEAVES : EnabledFlags[k] \in BOOLEAN
    BY <1>8
  <2>3. EnabledFlags \in [1 .. NB_LEAVES -> BOOLEAN]
    BY <1>7, <2>1, <2>2
  <2>. QED
    BY <2>3
<1>10. Len(Resize(Window, NB_LEAVES, ZeroLeaf)) = NB_LEAVES
  BY DEF Resize
<1>11. \A k \in 1 .. NB_LEAVES : EnabledFlags[k] <=> k <= WINDOW_RANGE
  BY <1>8
<1>. QED
  BY <1>2, <1>5, <1>7, <1>9, <1>10, <1>11

(* DCInv says what DCTypeOK says.                                          *)
LEMMA DCInvTypeOK == DCInv => DCTypeOK
<1> SUFFICES ASSUME DCInv PROVE DCTypeOK
  OBVIOUS
<1>1. CASE dc_pc = "leaves"
  <2>1. \A k \in 1 .. Len(leaves) : Tuple(k) \in Leaves
    BY <1>1, WindowTuple DEF DCInv
  <2>2. leaves \in Seq(Leaves)
    BY <1>1, <2>1 DEF DCInv
  <2>. QED
    BY <1>1, <2>2 DEF DCInv, DCTypeOK
<1>2. CASE dc_pc = "done"
  <2>1. leaves \in Seq(Leaves) /\ Len(leaves) = NB_LEAVES
    BY <1>2, ResizedWindow DEF DCInv
  <2>2. leaves_enabled \in Seq(BOOLEAN) /\ Len(leaves_enabled) = NB_LEAVES
    BY <1>2, ResizedWindow DEF DCInv
  <2>3. data_commitment \in Seq(Leaves \cup {Empty})
    <3>1. \A k \in 1 .. Len(leaves) : leaves[k] \in Leaves
      BY <2>1, ElementOfSeq
    <3>. QED
      BY <1>2, <2>1, <2>2, <3>1 DEF DCInv, ComputeRootFromLeaves
  <2>. QED
    BY <1>2, <2>1, <2>2, <2>3 DEF DCInv, DCTypeOK
<1>. QED
  BY <1>1, <1>2 DEF DCInv

(* get_data_commitment's state keeps its type: the leaves are 33-element   *)
(* tuples, at most the window while the loop runs and exactly NB_LEAVES    *)
(* after the resize, and the root holds leaves or disabled slots.          *)
THEOREM DCTypeCorrect == DCSpec => []DCTypeOK
<1>1. DCInit => DCInv
  BY DCInvInit
<1>2. DCInv /\ [DCNext]_dc_vars => DCInv'
  BY DCInvStep
<1>3. DCInv => DCTypeOK
  BY DCInvTypeOK
<1>. QED
  BY <1>1, <1>2, <1>3, PTL DEF DCSpec

-----------------------------------------------------------------------------
(* The root the abstract Commit step returns for the current window.       *)
WindowRoot ==
  [k \in 1 .. NB_LEAVES |->
     IF k <= WINDOW_RANGE
       THEN [data_hash |-> data_hashes[k],
             height |-> (start_block + k - 1) % 2^HEIGHT_BITS]
       ELSE Empty]

(* compute_root_from_leaves on the padded window and the enabled flags:    *)
(* NB_LEAVES slots, the window's tuples first and disabled slots after.    *)
LEMMA PaddedRoot ==
  ASSUME data_hashes \in [1 .. WINDOW_RANGE -> DataHashes],
         start_block \in Heights
  PROVE  LET dc == ComputeRootFromLeaves(Resize(Window, NB_LEAVES, ZeroLeaf), EnabledFlags)
         IN  /\ Len(dc) = NB_LEAVES
             /\ \A k \in 1 .. NB_LEAVES :
                   dc[k] = IF k <= WINDOW_RANGE THEN Tuple(k) ELSE Empty
  BY ResizedWindow DEF ComputeRootFromLeaves

(* Once get_data_commitment has returned, its root holds the window's     *)
(* tuples in the first WINDOW_RANGE slots.                                 *)
LEMMA DoneRoot ==
  ASSUME DCInv, dc_pc = "done", WINDOW_RANGE <= NB_LEAVES,
         NEW i \in 1 .. WINDOW_RANGE
  PROVE  /\ data_commitment[i] = Tuple(i)
         /\ DecodeHeight(data_commitment[i]) = U64(start_block + i - 1)
         /\ DecodeDataHash(data_commitment[i]) = data_hashes[i]
<1>1. /\ data_hashes \in [1 .. WINDOW_RANGE -> DataHashes]
      /\ start_block \in Heights
      /\ data_commitment =
           ComputeRootFromLeaves(Resize(Window, NB_LEAVES, ZeroLeaf), EnabledFlags)
  BY DEF DCInv
<1>2. i \in 1 .. NB_LEAVES /\ i <= WINDOW_RANGE
  OBVIOUS
<1>3. data_commitment[i] = Tuple(i)
  BY <1>1, <1>2, PaddedRoot
<1>. QED  BY <1>1, <1>3, WindowTuple

(* The root compute_root_from_leaves returns for the padded window reads   *)
(* back, slot by slot, as the abstract window root.                        *)
LEMMA CommittedRoot ==
  ASSUME data_hashes \in [1 .. WINDOW_RANGE -> DataHashes],
         start_block \in Heights,
         WINDOW_RANGE <= NB_LEAVES,
         NEW dc,
         dc = ComputeRootFromLeaves(Resize(Window, NB_LEAVES, ZeroLeaf), EnabledFlags)
  PROVE  [k \in 1 .. Len(dc) |->
            IF dc[k] = Empty THEN Empty
            ELSE [data_hash |-> DecodeDataHash(dc[k]),
                  height |-> DecodeHeight(dc[k])]] = WindowRoot
<1>1. /\ Len(dc) = NB_LEAVES
      /\ \A k \in 1 .. NB_LEAVES :
            dc[k] = IF k <= WINDOW_RANGE THEN Tuple(k) ELSE Empty
  BY PaddedRoot
<1>2. ASSUME NEW k \in 1 .. NB_LEAVES
      PROVE  (IF dc[k] = Empty THEN Empty
              ELSE [data_hash |-> DecodeDataHash(dc[k]),
                    height |-> DecodeHeight(dc[k])]) = WindowRoot[k]
  <2>1. CASE k <= WINDOW_RANGE
    <3>1. k \in 1 .. WINDOW_RANGE /\ dc[k] = Tuple(k)
      BY <1>1, <2>1
    <3>2. /\ Tuple(k) # Empty
          /\ DecodeHeight(Tuple(k)) = (start_block + k - 1) % 2^HEIGHT_BITS
          /\ DecodeDataHash(Tuple(k)) = data_hashes[k]
      BY <3>1, WindowTuple DEF U64
    <3>. QED
      BY <2>1, <3>1, <3>2 DEF WindowRoot
  <2>2. CASE ~(k <= WINDOW_RANGE)
    BY <1>1, <2>2 DEF WindowRoot
  <2>. QED
    BY <2>1, <2>2
<1>. QED
  BY <1>1, <1>2 DEF WindowRoot

(* Every step of get_data_commitment is a step of DataRootCommitment or a  *)
(* stutter of it: the loop leaves the abstract root empty, and the resize  *)
(* with the root computation is the abstract Commit.                       *)
LEMMA CommitmentStep ==
  ASSUME WINDOW_RANGE <= NB_LEAVES
  PROVE  DCInv /\ [DCNext]_dc_vars => [Abstract!Commit]_Abstract!vars
<1> SUFFICES ASSUME DCInv, [DCNext]_dc_vars
             PROVE  [Abstract!Commit]_Abstract!vars
  OBVIOUS
<1>1. CASE PushLeaf
  BY <1>1 DEF PushLeaf, DCInv, Abstract!vars
<1>2. CASE ComputeRoot
  <2>1. /\ dc_pc = "leaves" /\ dc_pc' = "done"
        /\ data_hashes \in [1 .. WINDOW_RANGE -> DataHashes]
        /\ start_block \in Heights
        /\ UNCHANGED <<data_hashes, start_block>>
    BY <1>2 DEF ComputeRoot, DCInv
  <2>2. leaves = Window
    BY <1>2 DEF ComputeRoot, DCInv, Window
  <2>3. data_commitment' =
          ComputeRootFromLeaves(Resize(Window, NB_LEAVES, ZeroLeaf), EnabledFlags)
    BY <1>2, <2>2 DEF ComputeRoot, EnabledFlags
  <2>4. DecodedRoot' = WindowRoot
    <3>1. [k \in 1 .. Len(data_commitment') |->
             IF data_commitment'[k] = Empty THEN Empty
             ELSE [data_hash |-> DecodeDataHash(data_commitment'[k]),
                   height |-> DecodeHeight(data_commitment'[k])]] = WindowRoot
      BY <2>1, <2>3, CommittedRoot
    <3>. QED
      BY <3>1 DEF DecodedRoot
  <2>. HIDE DEF DecodedRoot
  <2>. QED
    BY <2>1, <2>4 DEF Abstract!Commit, WindowRoot
<1>3. CASE UNCHANGED dc_vars
  BY <1>3 DEF dc_vars, Abstract!vars, DecodedRoot
<1>. QED
  BY <1>1, <1>2, <1>3 DEF DCNext

(* get_data_commitment implements DataRootCommitment whenever the window   *)
(* fits in the tree: every behaviour of the loop, the two Vec::resize      *)
(* calls and compute_root_from_leaves, seen through DecodedRoot, is a      *)
(* behaviour of the one-step window commitment.                            *)
THEOREM CommitmentRefinement ==
  ASSUME WINDOW_RANGE <= NB_LEAVES
  PROVE  DCSpec => CommitmentRefined
<1>1. DCInit => Abstract!Init
  BY DEF DCInit, Abstract!Init, Abstract!Heights, Heights
<1>2. DCInv /\ [DCNext]_dc_vars => [Abstract!Commit]_Abstract!vars
  BY CommitmentStep
<1>. QED
  BY <1>1, <1>2, DCInvInit, DCInvStep, PTL
     DEF DCSpec, CommitmentRefined, Abstract!Spec
=============================================================================
