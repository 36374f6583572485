\* Each property below fails: TLC reports the first; comment it out for the next.
CONSTANTS
  Targets <- NewYear
  FirstYear = 2000
  NoLabel = NoLabel
  MaxDays = 2
SPECIFICATION Spec
INVARIANTS
  SuccessMeansRight
  DaysTogether
CHECK_DEADLOCK FALSE
