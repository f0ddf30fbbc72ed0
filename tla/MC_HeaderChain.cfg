CONSTANTS
  g = g
  h1 = h1
  h2 = h2
  x = x
  y = y
  d1 = d1
  d2 = d2
  NoHash = NoHash
  Junk = Junk
  Headers <- MC_Headers
  DataHashes <- MC_DataHashes
  LastBlockId <- MC_LastBlockId
  DataHash <- MC_DataHash
  HeaderHeight <- MC_HeaderHeight
  Canonical <- MC_Canonical
  WINDOW_RANGE = 2
  HEIGHT_BITS = 2
SPECIFICATION Spec
CHECK_DEADLOCK FALSE
INVARIANTS TypeOK ChainLinked HeightsAgree HonestAccepted
