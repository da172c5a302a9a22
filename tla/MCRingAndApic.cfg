CONSTANTS
  Vectors <- MCVectors
  Priorities <- MCPriorities
  LvtVectors <- MCLvtVectors
  LowHalves <- MCLowHalves
  Modes <- MCModes
  Pins = {1}
  RingSize = 3
  MaxKeys = 4
  MaxPlaces = 2
  MaxClears = 1
SPECIFICATION PartsSpec
INVARIANTS
  KeysNeverReplayed
  NothingLost
  CacheFresh
  RequestNotForgotten
PROPERTIES
  PriorityHonoured
  RequestEnds
  RequestResurfaces
  EveryKeyRead
