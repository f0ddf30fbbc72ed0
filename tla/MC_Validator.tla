----------------------------- MODULE MC_Validator -----------------------------
(* The record with the code's 32-byte key and 7-bit septets, over a        *)
(* three-byte varint of two 11-bit limbs (bit 21 is the dropped top bit). *)
(* Two keys (all zero, and one with distinct first and last bytes), and   *)
(* voting powers at every varint length boundary: 0, 1, 127, 128, 300,    *)
(* 2^14 - 1, 2^14, 2^20 + 5, 2^21 - 1, and values with the top bit set.   *)
EXTENDS Validator, TLC

MC_PubKeys ==
  { [k \in 0 .. 255 |-> 0],
    [k \in 0 .. 255 |-> IF k \in {0, 3, 250} THEN 1 ELSE 0] }

MC_VotingPowers ==
  { [lower |-> 0, upper |-> 0],
    [lower |-> 1, upper |-> 0],
    [lower |-> 127, upper |-> 0],
    [lower |-> 128, upper |-> 0],
    [lower |-> 300, upper |-> 0],
    [lower |-> 2047, upper |-> 7],
    [lower |-> 0, upper |-> 8],
    [lower |-> 5, upper |-> 512],
    [lower |-> 2047, upper |-> 1023],
    [lower |-> 0, upper |-> 1024],
    [lower |-> 2047, upper |-> 2047],
    [lower |-> 128, upper |-> 1024] }
=============================================================================
