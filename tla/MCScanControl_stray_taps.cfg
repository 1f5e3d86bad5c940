SPECIFICATION Spec
CONSTANTS
  Masks = {1}
  Sessions = {1, 2}
  MaxSession = 2
  MaxTaps = 2
  MaxCommands = 2
  MaxFails = 0
  MaxCuts = 0
PROPERTIES StrayTapsKeepSession
