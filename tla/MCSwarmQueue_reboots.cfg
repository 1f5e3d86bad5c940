SPECIFICATION Spec
CONSTANTS
  CAP = 2
  RESERVE = 2
  PUMP = 2
  NIMBLE2 = FALSE
  InCap = 2
  AirCap = 1
  MaxSeq = 4
  MaxBoots = 3
  MaxLinks = 2
INVARIANTS TypeOK RingOrder CursorBounds AllAccounted SeqSetBack
PROPERTIES FreedWithinSkipped
CHECK_DEADLOCK FALSE
