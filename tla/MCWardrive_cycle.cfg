SPECIFICATION FairSpec
CONSTANTS
  a = a
  b = b
  f = f
  Addr <- MCAddr
  Flock <- MCFlock
  Empty = none
  HistoryLen = 2
  Plans <- MCPlans
  FullScreen = FALSE
INVARIANTS TypeOK HistoryDistinct StoresInRange ClearAlone PausedQuiet
PROPERTIES ChannelsVisited BleHeard
