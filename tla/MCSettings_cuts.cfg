SPECIFICATION MCSpec
CONSTANTS
  Keys <- MCKeys
  UploadKeys <- MCUpload
  Presaved <- MCPresaved
  Late <- MCLate
  Probe = "wu"
  Rank <- MCRank
  Values = {"default", "real", "placeholder", "junk"}
  Default <- MCDefault
  Junk = "junk"
  Placeholder = "placeholder"
  home = home
  work = work
  car = car
  SSIDs <- Networks3
  NoSSID = NoSSID
  MAX_SAVED_WIFI_PROFILES = 2
  Slots = {1}
  MaxFails = 1
  MaxCuts = 1
INVARIANTS TypeOK CacheIsText OnlyNetworksDiffer ProfilesDistinct LateEntriesThere KeysKept
PROPERTIES MostRecentFirst KeepsKeys
SYMMETRY NetworkSymmetry
