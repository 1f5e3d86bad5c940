SPECIFICATION FairSpec
CONSTANTS
  Masks = {1}
  Sessions = {1}
  MaxSession = 1
  MaxTaps = 2
  MaxCommands = 2
  MaxFails = 1
  MaxCuts = 1
INVARIANTS TypeOK ToldRunStored ToldIsTrue
PROPERTIES StrayTapsKeepFreshSession RunResumes ClaimedLinkDropped
