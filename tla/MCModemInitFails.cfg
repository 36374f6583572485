\* Each property below fails: TLC reports the first; comment it out for the next.
SPECIFICATION Spec
CONSTANTS
  InitRetry = 2
  Tries = 2
  MaxBad = 3
  MaxMoves = 2
  MaxDrops = 1
INVARIANTS
  RegisteredIsEvidence
PROPERTIES
  RegisteredConnects
CHECK_DEADLOCK FALSE
