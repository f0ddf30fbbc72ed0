CONSTANTS
  LIMB_BITS = 11
  SEPTET_BITS = 7
  VARINT_BYTES = 3
  FieldP = 7
  PUBKEY_BYTES_LEN = 32
  VALIDATOR_BYTES_LEN_MAX = 40
  PubKeys <- MC_PubKeys
  VotingPowers <- MC_VotingPowers
SPECIFICATION Spec
CHECK_DEADLOCK FALSE
INVARIANTS ValidatorTypeOK ValidatorParses RecordLayout
