CONSTANTS
  RingSize = 3
  Keys <- RingKeys
  Commands <- AllCommands
  DataBytes <- AllData
  GateBytes <- GatePort92
SPECIFICATION MCSpec
INVARIANTS
  DataAnnounced
PROPERTIES
  RingIsBuffer
  NewFrontInterrupts
  A20FollowsGates
