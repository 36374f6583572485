CONSTANTS
  role <- Factory
  MaxBeats = 0
  MaxBreaks = 0
SPECIFICATION Spec
PROPERTY Reconnects
CHECK_DEADLOCK FALSE
