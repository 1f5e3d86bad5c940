SPECIFICATION Spec
CONSTANTS
  BUF_SIZE = 5
  LineLen = 2
  MARGIN = 1
  Writers = {"main", "wifi"}
  MaxLines = 3
INVARIANTS AcceptedKept
CHECK_DEADLOCK FALSE
