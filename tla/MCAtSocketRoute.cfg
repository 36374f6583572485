\* Each property below fails: TLC reports the first; comment it out for the next.
CONSTANTS
  broker = broker
  web = web
  NoOne = NoOne
  Peers = {broker, web}
  NSockets = 2
  Late = FALSE
  MaxChunks = 1
  MaxOps = 3
  MaxEvents = 1
  MaxUrcs = 2
SPECIFICATION Spec
INVARIANTS
  DeliveredToOwner
  TableCorresponds
CHECK_DEADLOCK FALSE
