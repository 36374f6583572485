CONSTANTS
  weather = weather
  spectrum = spectrum
  anniversary = anniversary
  heartbeat = heartbeat
  NoApp = NoApp
  APP_MAX_NUM = 4
  RegisterOrder <- TwoApps
  GetParmApps <- OnlyWeather
  OnEventApps <- OnlyHeartbeat
  DebouncePasses = 0
  LoopDelay = 440
  CntMod = 256
SPECIFICATION LongVisitSpec
INVARIANT HeartIffBoth
