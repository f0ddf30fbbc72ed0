-------------------------- MODULE DataRootCommitment --------------------------
(***************************************************************************)
(* What get_data_commitment promises, in one step: the returned root       *)
(* commits, slot by slot, to the data root tuple (data hash, height) of    *)
(* each block of the window, heights counted in U64 from start_block, and *)
(* to nothing in the NB_LEAVES - WINDOW_RANGE slots after it.  It can do   *)
(* so only for a window that fits in the tree.                            *)
(***************************************************************************)
EXTENDS Integers

CONSTANTS DataHashes, Empty, NoRoot, WINDOW_RANGE, NB_LEAVES, HEIGHT_BITS

VARIABLES
  data_hashes,   \* the window's data hashes
  start_block,   \* the height of the window's first block
  root           \* NoRoot, then what the root commits to

vars == <<data_hashes, start_block, root>>

Heights == 0 .. (2^HEIGHT_BITS - 1)

Init ==
  /\ data_hashes \in [1 .. WINDOW_RANGE -> DataHashes]
  /\ start_block \in Heights
  /\ root = NoRoot

(* The commitment of the whole window; enabled only when it fits.          *)
Commit ==
  /\ root = NoRoot
  /\ WINDOW_RANGE <= NB_LEAVES
  /\ root' = [k \in 1 .. NB_LEAVES |->
                IF k <= WINDOW_RANGE
                  THEN [data_hash |-> data_hashes[k],
                        height |-> (start_block + k - 1) % 2^HEIGHT_BITS]
                  ELSE Empty]
  /\ UNCHANGED <<data_hashes, start_block>>

Spec == Init /\ [][Commit]_vars
=============================================================================
