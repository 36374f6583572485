CONSTANTS
  white = white
  black = black
  noise = noise
  Rows = 3
  BufLines = 2
  Pictures = {white, black}
  Garbled = noise
  MaxFaults = 1
SPECIFICATION Spec
PROPERTY ReadyCalled
CHECK_DEADLOCK FALSE
