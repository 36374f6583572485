\* Each property below fails: TLC reports the first; comment it out for the next.
CONSTANTS
  message = message
  sent = sent
  Hues = {message, sent}
  NoHue = NoHue
  VMax = 2
  Commands <- HeartbeatCommands
  MaxCommands = 4
SPECIFICATION PromptSpec
INVARIANTS
  NotificationBreathes
  DarkInHoldOff
  BreathesInColour
CHECK_DEADLOCK FALSE
