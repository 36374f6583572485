CONSTANTS
  message = message
  sent = sent
  Hues = {message, sent}
  NoHue = NoHue
  VMax = 2
  Commands <- AllCommands
  MaxCommands = 3
SPECIFICATION LedSpec
INVARIANTS
  TimersMatchMode
  HoldOffLeavesNoFrame
PROPERTIES
  FadeTerminates
CHECK_DEADLOCK FALSE
