CONSTANTS
  role <- Pair
  MaxBeats = 2
  MaxBreaks = 3
SPECIFICATION Spec
INVARIANT TypeOK
PROPERTIES
  ImplementsChannel
  BeatArrives
  Reconnects
CHECK_DEADLOCK FALSE
