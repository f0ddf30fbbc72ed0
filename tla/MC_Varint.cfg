CONSTANTS
  LIMB_BITS = 5
  SEPTET_BITS = 3
  VARINT_BYTES = 3
  FieldP = 7
INIT VarintInit
NEXT VarintNext
CHECK_DEADLOCK FALSE
INVARIANTS VarintTypeOK VarintRoundTrip VarintCanonical VarintContinuation
