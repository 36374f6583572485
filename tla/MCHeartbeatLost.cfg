\* Each property below fails: TLC reports the first; comment it out for the next.
CONSTANTS
  weather = weather
  spectrum = spectrum
  anniversary = anniversary
  heartbeat = heartbeat
  NoApp = NoApp
  APP_MAX_NUM = 4
  RegisterOrder <- FourApps
  GetParmApps <- OnlyWeather
  OnEventApps <- OnlyHeartbeat
  DebouncePasses = 12
  LoopDelay = 40
  CntMod = 256
SPECIFICATION HbSpec
INVARIANTS
  EverySendPublished
  EveryMessageCounted
