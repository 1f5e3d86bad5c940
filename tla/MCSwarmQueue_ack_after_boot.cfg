SPECIFICATION Spec
CONSTANTS
  CAP = 2
  RESERVE = 2
  PUMP = 2
  NIMBLE2 = FALSE
  InCap = 2
  AirCap = 2
  MaxSeq = 4
  MaxBoots = 2
  MaxLinks = 2
PROPERTIES OnlyAckedFreed
CHECK_DEADLOCK FALSE
