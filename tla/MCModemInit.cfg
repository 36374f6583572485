SPECIFICATION Spec
CONSTANTS
  InitRetry = 2
  Tries = 2
  MaxBad = 3
  MaxMoves = 2
  MaxDrops = 1
INVARIANTS SimAndAttachSeen StartKnows
PROPERTIES BootEnds ClientRecovers
CHECK_DEADLOCK FALSE
