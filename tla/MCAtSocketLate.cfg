CONSTANTS
  broker = broker
  web = web
  NoOne = NoOne
  Peers = {broker, web}
  NSockets = 2
  Late = TRUE
  MaxChunks = 1
  MaxOps = 2
  MaxEvents = 1
  MaxUrcs = 2
SPECIFICATION Spec
PROPERTY LockReleased
CHECK_DEADLOCK FALSE
