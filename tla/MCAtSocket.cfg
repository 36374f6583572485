CONSTANTS
  broker = broker
  web = web
  NoOne = NoOne
  Peers = {broker, web}
  NSockets = 3
  Late = FALSE
  MaxChunks = 2
  MaxOps = 3
  MaxEvents = 1
  MaxUrcs = 2
SPECIFICATION Spec
INVARIANTS
  OwnAnswer
  CleanSlate
CHECK_DEADLOCK FALSE
