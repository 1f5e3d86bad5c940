SPECIFICATION FairSpec
CONSTANTS
  BUF_SIZE = 4
  LineLen = 2
  MARGIN = 1
  Writers = {"main", "wifi", "host"}
  MaxLines = 3
INVARIANTS TypeOK OnlyRacedLost WholeLinesInOrder
PROPERTIES LinesReachCard
CHECK_DEADLOCK FALSE
