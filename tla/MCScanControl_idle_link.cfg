SPECIFICATION FairSpec
CONSTANTS
  Masks = {1}
  Sessions = {1}
  MaxSession = 1
  MaxTaps = 1
  MaxCommands = 0
  MaxFails = 0
  MaxCuts = 0
PROPERTIES IdleLinkDropped
