\* Each property below fails: TLC reports the first; comment it out for the next.
SPECIFICATION Spec
CONSTANTS
  TIME_UPDATE_INVT = 2
  WEA_UPDATE_INVT = 2
  NtpTries = 2
  MaxRounds = 1
  MaxFails = 2
  MaxLoads = 1
  MaxFlips = 1
INVARIANTS
  FreshTime
  SuccessMeansNtp
