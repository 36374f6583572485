SPECIFICATION Spec
CONSTANTS
  TIME_UPDATE_INVT = 2
  WEA_UPDATE_INVT = 2
  NtpTries = 2
  MaxRounds = 0
  MaxFails = 2
  MaxLoads = 1
  MaxFlips = 1
INVARIANTS FreshWeather NothingForgotten
PROPERTIES DownloadSucceeds BootWaitEnds
