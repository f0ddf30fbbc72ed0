---------------------------- MODULE CircuitParams ----------------------------
(***************************************************************************)
(* What prove_header_chain and get_data_commitment share in               *)
(* src/src/commitment.rs: the data hash values, the window size (the const *)
(* generic WINDOW_RANGE of both) and the U64Variable heights, whose       *)
(* arithmetic wraps modulo 2^HEIGHT_BITS (2^64 in the code).               *)
(***************************************************************************)
EXTENDS Integers

CONSTANTS
  DataHashes,     \* values of a 32-byte data hash
  WINDOW_RANGE,   \* blocks in the window, a const generic
  HEIGHT_BITS     \* width of a U64Variable (64 in the code)

Heights == 0 .. (2^HEIGHT_BITS - 1)

(* U64Variable addition and subtraction wrap modulo 2^64.                  *)
U64(x) == x % (2^HEIGHT_BITS)
=============================================================================
