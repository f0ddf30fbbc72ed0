----------------------- MODULE MC_DataCommitmentProof -----------------------
(* A window of two blocks in a tree of two leaves over the real chain      *)
(* g <- h1 <- h2 (heights 0..2) and a fork x of h2, with two data hashes.  *)
EXTENDS DataCommitmentProof, TLC

CONSTANTS g, h1, h2, x, d1, d2

MC_Headers == {g, h1, h2, x}
MC_DataHashes == {d1, d2}
MC_LastBlockId == (g :> NoHash) @@ (h1 :> g) @@ (h2 :> h1) @@ (x :> h1)
MC_DataHash == (g :> d1) @@ (h1 :> d2) @@ (h2 :> d1) @@ (x :> d2)
MC_HeaderHeight == (g :> 0) @@ (h1 :> 1) @@ (h2 :> 2) @@ (x :> 2)
MC_Canonical == {g, h1, h2}
=============================================================================
