SPECIFICATION FairSpec
CONSTANTS
  Handles = {h1, h2}
  InBuf = 2
  PhoneWrites = TRUE
INVARIANTS TypeOK UploadQuiet ConnectedIsReal
PROPERTIES Reachable SilentDropped
