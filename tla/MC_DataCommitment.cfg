CONSTANTS
  d1 = d1
  d2 = d2
  Empty = Empty
  DataHashes <- MC_DataHashes
  WINDOW_RANGE = 3
  NB_LEAVES = 4
  HEIGHT_BITS = 2
INIT DCInit
NEXT DCNext
CHECK_DEADLOCK FALSE
INVARIANTS DCTypeOK
PROPERTY CommitmentRefined
