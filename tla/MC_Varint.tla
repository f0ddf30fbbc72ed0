------------------------------ MODULE MC_Varint ------------------------------
(* Three septets of three bits from two five-bit limbs: all 1024 inputs,   *)
(* with the top input bit dropped as bit 63 is in the code.  The field is  *)
(* Z/7, the smallest prime field in which the candidate comparison of the  *)
(* continuation bits can still tell a negative difference apart.          *)
EXTENDS Varint
=============================================================================
