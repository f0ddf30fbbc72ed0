--------------------------- MODULE MC_HeaderChain ---------------------------
(* A window of two hops over a universe of five headers: the real chain    *)
(* g <- h1 <- h2 (heights 0..2) and two fabricated ones: x, a fork of h2   *)
(* at height 2 with another data hash, and y, which claims height 3 and    *)
(* links to h1.  Heights are two bits wide, so a U64 difference can wrap.  *)
EXTENDS HeaderChain, TLC

CONSTANTS g, h1, h2, x, y, d1, d2

MC_Headers == {g, h1, h2, x, y}
MC_DataHashes == {d1, d2}
MC_LastBlockId == (g :> NoHash) @@ (h1 :> g) @@ (h2 :> h1) @@ (x :> h1) @@ (y :> h1)
MC_DataHash == (g :> d1) @@ (h1 :> d2) @@ (h2 :> d1) @@ (x :> d2) @@ (y :> d2)
MC_HeaderHeight == (g :> 0) @@ (h1 :> 1) @@ (h2 :> 2) @@ (x :> 2) @@ (y :> 3)
MC_Canonical == {g, h1, h2}
=============================================================================
