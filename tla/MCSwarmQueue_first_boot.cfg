SPECIFICATION FairFirstBoot
CONSTANTS
  CAP = 2
  RESERVE = 2
  PUMP = 1
  NIMBLE2 = TRUE
  InCap = 2
  AirCap = 2
  MaxSeq = 3
  MaxBoots = 1
  MaxLinks = 2
INVARIANTS NoneSkipped
PROPERTIES KeepsLedger OnlyAckedFreed EverySightingSettles
CHECK_DEADLOCK FALSE
