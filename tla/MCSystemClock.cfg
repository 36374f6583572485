CONSTANTS
  Targets <- Corners
  FirstYear = 2000
  NoLabel = NoLabel
  MaxDays = 2
SPECIFICATION Spec
INVARIANTS
  TypeOK
  CountsDays
  ConversionsAgree
  SyncSets
  BoundedError
