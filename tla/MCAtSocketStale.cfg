CONSTANTS
  broker = broker
  web = web
  NoOne = NoOne
  Peers = {broker, web}
  NSockets = 3
  Late = TRUE
  MaxChunks = 1
  MaxOps = 3
  MaxEvents = 1
  MaxUrcs = 3
SPECIFICATION Spec
INVARIANT OwnAnswer
CHECK_DEADLOCK FALSE
